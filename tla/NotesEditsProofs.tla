-------------------------- MODULE NotesEditsProofs --------------------------
(***************************************************************************)
(* Theorems about NotesEdits, for every set of notes and every bound: the  *)
(* types of its variables, that the text of an edit survives, that no      *)
(* stale draft is applicable, that a locked note keeps no draft, that the  *)
(* review shows the drafts on disk, and that an older text never replaces  *)
(* a newer one.                                                            *)
(***************************************************************************)
EXTENDS NotesEdits, RmacStorageProofs, FiniteSetTheorems

(* The inductive invariant *)

Lib == root["library"]
Counters == {"faults", "kills", "losses", "discards", "acts", "copies"}

Typed ==
    /\ EditsTypeOK
    /\ spent \in [Counters -> Nat]

\* x is what a transaction on the snapshot h makes of it.
Follows(h, x) ==
    /\ x.rev = h.rev + 1
    /\ h.copies \subseteq x.copies
    /\ \A n \in Notes :
          \/ x.notes[n] = h.notes[n]
          \/ /\ x.notes[n].rev = h.notes[n].rev + 1
             /\ x.notes[n].text >= h.notes[n].text
             /\ h.notes[n].locked => x.notes[n].locked

\* The transactions that are not decided: the one being committed and the
\* retained one.
OpenTx ==
    (IF call.at = "commit" THEN {call.tx} ELSE {})
    \cup (IF pending # Nothing THEN {pending.tx} ELSE {})

\* The edits on their way to the worker's commit.
Scheduled == {scheduled, call.edit} \ {Nothing}

\* The snapshots that may become the library.
Live == Images(Lib) \cup {held} \cup {tx.candidate : tx \in OpenTx}

\* A process that has ended holds nothing; a retained transaction waits for the
\* user, or its command has just returned.
Phases ==
    /\ phase = "stopped" =>
          call = Idle /\ pending = Nothing /\ scheduled = Nothing /\ review = {}
    /\ pending # Nothing => \/ call = Idle /\ phase = "pending"
                            \/ call.at = "return" /\ call.result = "pending"
    /\ call.at = "return" /\ call.result = "pending" => pending # Nothing
    /\ call.at = "commit_edit" => phase = "ready"
    /\ call.then.do \in Acts => review = {} /\ call.then.note \in Notes

\* While the worker runs the library file is the held snapshot, except for one
\* candidate that follows it: a retained or a discarded one.
OnRoot ==
    phase # "stopped" =>
        /\ Lib.now = held \/ Follows(held, Lib.now)
        /\ Images(Lib) \subseteq {held, Lib.now}
        /\ Lib.now = held \/ pending # Nothing \/ spent["discards"] > 0
        /\ pending # Nothing /\ pending.changed => Lib.now = held

\* A text is never older than what the note has in any library it may meet.
NotOlder(n, t) == \A lib \in Live : lib.notes[n].text <= t

Undecided(tx) ==
    /\ tx.candidate.rev <= held.rev \/ Follows(held, tx.candidate)
    /\ tx.persisted => tx.note # Nothing
    /\ tx.note # Nothing =>
          /\ \/ tx.candidate.notes[tx.note].text = tx.text
             \/ tx.text \in tx.candidate.copies
          /\ NotOlder(tx.note, tx.text)
          /\ tx.note \in review => tx.text = recoverable[tx.note].text
          /\ scheduled # Nothing => scheduled.note # tx.note

Open == \A tx \in OpenTx : Undecided(tx)

Underway ==
    /\ \A edit \in Scheduled :
          /\ NotOlder(edit.note, edit.text)
          /\ edit.note \in review => edit.text = recoverable[edit.note].text
    /\ scheduled # Nothing /\ call.edit # Nothing => scheduled.note # call.edit.note

\* A draft under review is based on the held note, and then not older than any
\* text of it, or on an earlier state of the note.
Reviewed ==
    \A n \in review :
        /\ recoverable[n] # NoFile
        /\ recoverable[n].base <= held.notes[n].rev
        /\ recoverable[n].base = held.notes[n].rev => NotOlder(n, recoverable[n].text)

\* So is every draft that may be on the disk, for every library that may be.
DraftOrder ==
    \A n \in Notes :
      \A lib \in Images(Lib), draft \in Images(drafts[n]) \ {NoFile} :
        /\ draft.base <= lib.notes[n].rev
        /\ draft.base = lib.notes[n].rev => draft.text >= lib.notes[n].text

\* Every text was sent; the next edit that the scheduler accepts is newer.
Old(t) ==
    /\ t = 0 \/ t \in sent
    /\ phase # "stopped" => \A g \in Generations \ sent : g > highest => t < g

Aged ==
    /\ \A n \in Notes :
          /\ \A lib \in Live : Old(lib.notes[n].text)
          /\ \A draft \in Images(drafts[n]) \ {NoFile} : Old(draft.text)
          /\ recoverable[n] # NoFile => Old(recoverable[n].text)
    /\ \A edit \in Scheduled : Old(edit.text)
    /\ \A tx \in OpenTx : Old(tx.text)

\* The library lib keeps what was taken of the note n.
Kept(n, lib) ==
    \/ lib.notes[n].text >= taken[n]
    \/ taken[n] \in lib.copies
    \/ lib.notes[n].locked /\ spent["discards"] > 0

\* What was taken is in every library or in every draft that a power loss may
\* leave; the drafts of a locked note count for nothing; and what the held
\* library does not keep is under review or being committed.
Survives(n) ==
    /\ \/ \A lib \in Images(Lib) : Kept(n, lib)
       \/ \A draft \in Images(drafts[n]) : draft # NoFile /\ draft.text = taken[n]
    /\ \A lib \in Live : lib.notes[n].locked /\ phase # "stopped" => Kept(n, lib)
    /\ \A lib \in Images(Lib) : lib.notes[n].locked => Kept(n, lib)
    /\ phase # "stopped" =>
          \/ Kept(n, held)
          \/ n \in review /\ recoverable[n].text = taken[n]
          \/ \E tx \in OpenTx : tx.note = n /\ tx.text = taken[n]

Survival ==
    /\ \A n \in Notes : Survives(n)
    /\ call.at = "cleanup" =>
          /\ call.tx.candidate = held
          /\ call.tx.note # Nothing => Kept(call.tx.note, held)

\* Without a failed file operation no transaction is retained, and what the
\* worker believes of the drafts is what is on the disk.
Clean ==
    /\ pending = Nothing
    /\ phase # "stopped" =>
          /\ Lib.now = held
          /\ \A tx \in OpenTx : Follows(held, tx.candidate)
          /\ \A n \in Notes :
                /\ held.notes[n].locked => drafts[n].now = NoFile
                /\ \A tx \in OpenTx :
                      tx.candidate.notes[n].locked => drafts[n].now = NoFile
                /\ recoverable[n] # NoFile => drafts[n].now = recoverable[n]

Faultless == spent["faults"] = 0 => Clean

EditsInv ==
    /\ Typed /\ Phases /\ OnRoot /\ Open /\ Underway /\ Reviewed /\ DraftOrder
    /\ Aged /\ Survival /\ Faultless

-----------------------------------------------------------------------------
(* Records and snapshots *)

LEMMA Constants ==
    /\ MaxEdits \in Nat /\ Texts \subseteq Nat /\ 0 \in Texts
    /\ Generations \subseteq Texts /\ Generations \subseteq Nat
    /\ Nothing \notin Notes /\ Nothing \notin Edits /\ Nothing \notin Transactions
    /\ NoFile \notin DraftRecords
BY EditBounds, NothingIsNone DEF Texts, Generations

LEMMA ReturnsFields ==
    ASSUME NEW c \in Calls, NEW r \in {"ready", "pending", "rejected"}
    PROVE  /\ Returns(c, r) \in Calls /\ Returns(c, r).at = "return"
           /\ Returns(c, r).edit = Nothing /\ Returns(c, r).tx = Nothing
           /\ Returns(c, r).then = c.then /\ Returns(c, r).result = r
BY DEF Returns, Calls

LEMMA CommitsFields ==
    ASSUME NEW c \in Calls, NEW tx \in Transactions
    PROVE  /\ Commits(c, tx) \in Calls /\ Commits(c, tx).at = "commit"
           /\ Commits(c, tx).edit = Nothing /\ Commits(c, tx).tx = tx
           /\ Commits(c, tx).then = c.then
BY DEF Commits, Calls

LEMMA IdleFields ==
    /\ Idle \in Calls /\ Loop \in Continuations
    /\ Idle.at = "idle" /\ Idle.edit = Nothing /\ Idle.tx = Nothing
    /\ Idle.then = Loop /\ Idle.result = "ready" /\ Loop.do = "loop"
BY Constants DEF Idle, Loop, Then, Calls, Continuations

\* The changed note, and the others.
LEMMA ChangedFields ==
    ASSUME NEW lib \in Snapshots, NEW n \in Notes, NEW note \in NoteRecords
    PROVE  /\ Changed(lib, n, note) \in Snapshots
           /\ Changed(lib, n, note).rev = lib.rev + 1
           /\ Changed(lib, n, note).copies = lib.copies
           /\ \A m \in Notes \ {n} : Changed(lib, n, note).notes[m] = lib.notes[m]
           /\ Changed(lib, n, note).notes[n].rev = note.rev + 1
           /\ Changed(lib, n, note).notes[n].text = note.text
           /\ Changed(lib, n, note).notes[n].deleted = note.deleted
           /\ Changed(lib, n, note).notes[n].locked = note.locked
<1> DEFINE new == [note EXCEPT !.rev = @ + 1]
           notes == [lib.notes EXCEPT ![n] = new]
<1>1. /\ new \in NoteRecords /\ new.rev = note.rev + 1 /\ new.text = note.text
      /\ new.deleted = note.deleted /\ new.locked = note.locked
    BY DEF NoteRecords
<1>2. /\ lib.notes \in [Notes -> NoteRecords] /\ lib.rev \in Nat
      /\ lib.copies \in SUBSET Texts
    BY DEF Snapshots
<1>3. /\ notes \in [Notes -> NoteRecords] /\ notes[n] = new
      /\ \A m \in Notes \ {n} : notes[m] = lib.notes[m]
    BY <1>1, <1>2
<1> DEFINE next == lib.rev + 1
<1>4. /\ Changed(lib, n, note) = [lib EXCEPT !.rev = next, !.notes = notes]
      /\ next \in Nat /\ next = lib.rev + 1
    BY <1>2 DEF Changed, Snapshots
<1> HIDE DEF new, notes, next
<1>5. /\ Changed(lib, n, note) \in Snapshots
      /\ Changed(lib, n, note).rev = lib.rev + 1
      /\ Changed(lib, n, note).copies = lib.copies
      /\ Changed(lib, n, note).notes = notes
    BY <1>2, <1>3, <1>4 DEF Snapshots
<1>6. QED
    BY <1>1, <1>3, <1>5

LEMMA ChangedFollows ==
    ASSUME NEW lib \in Snapshots, NEW n \in Notes, NEW note \in NoteRecords,
           note.rev = lib.notes[n].rev, note.text >= lib.notes[n].text,
           lib.notes[n].locked => note.locked
    PROVE  Follows(lib, Changed(lib, n, note))
BY ChangedFields DEF Follows

LEMMA EditedFields ==
    ASSUME NEW lib \in Snapshots, NEW n \in Notes, NEW t \in Texts
    PROVE  /\ Edited(lib, n, t) \in Snapshots
           /\ Edited(lib, n, t).notes[n].text = t
           /\ Edited(lib, n, t).notes[n].rev = lib.notes[n].rev + 1
           /\ Edited(lib, n, t).notes[n].locked = lib.notes[n].locked
           /\ \A m \in Notes \ {n} : Edited(lib, n, t).notes[m] = lib.notes[m]
           /\ Edited(lib, n, t).rev = lib.rev + 1
           /\ t >= lib.notes[n].text => Follows(lib, Edited(lib, n, t))
<1> DEFINE note == [lib.notes[n] EXCEPT !.text = t]
<1>1. /\ note \in NoteRecords /\ note.rev = lib.notes[n].rev /\ note.text = t
      /\ note.locked = lib.notes[n].locked
    BY DEF Snapshots, NoteRecords
<1>2. Edited(lib, n, t) = Changed(lib, n, note)
    BY DEF Edited
<1> HIDE DEF note
<1>3. QED
    BY <1>1, <1>2, ChangedFields, ChangedFollows

LEMMA PreservedFields ==
    ASSUME NEW lib \in Snapshots, NEW t \in Texts
    PROVE  /\ Preserved(lib, t) \in Snapshots
           /\ Preserved(lib, t).notes = lib.notes
           /\ t \in Preserved(lib, t).copies
           /\ Follows(lib, Preserved(lib, t))
<1>1. /\ lib.rev \in Nat /\ lib.copies \in SUBSET Texts
      /\ lib.notes \in [Notes -> NoteRecords]
    BY DEF Snapshots
<1> DEFINE next == lib.rev + 1
           copies == lib.copies \cup {t}
<1>2. /\ Preserved(lib, t) = [lib EXCEPT !.rev = next, !.copies = copies]
      /\ next \in Nat /\ next = lib.rev + 1
      /\ copies \in SUBSET Texts /\ t \in copies /\ lib.copies \subseteq copies
    BY <1>1 DEF Preserved, Snapshots
<1> HIDE DEF next, copies
<1>3. /\ Preserved(lib, t).notes = lib.notes
      /\ Preserved(lib, t).rev = lib.rev + 1
      /\ Preserved(lib, t).copies = copies
      /\ Preserved(lib, t) \in Snapshots
    BY <1>1, <1>2 DEF Snapshots
<1>4. QED
    BY <1>2, <1>3 DEF Follows

\* The other transactions keep every text.
LEMMA ActedFields ==
    ASSUME NEW lib \in Snapshots, NEW c \in Continuations,
           c.do \in Acts \cup {"copy"}, c.do # "copy" => c.note \in Notes
    PROVE  /\ Acted(lib, c) \in Snapshots
           /\ Follows(lib, Acted(lib, c))
           /\ \A n \in Notes :
                 /\ Acted(lib, c).notes[n].text = lib.notes[n].text
                 /\ Acted(lib, c).notes[n].locked =>
                       lib.notes[n].locked \/ (c.do = "lock" /\ n = c.note)
<1>1. c.do \in {"touch", "trash", "lock", "copy"} /\ c.text \in Texts
    BY EditBounds DEF Continuations
<1>2. CASE c.do = "copy"
  <2>1. Acted(lib, c) = Preserved(lib, c.text)
      BY <1>2 DEF Acted
  <2>2. QED
      BY <1>1, <2>1, PreservedFields
<1>3. CASE c.do # "copy"
  <2> DEFINE note == lib.notes[c.note]
             new == CASE c.do = "touch" -> note
                      [] c.do = "trash" -> [note EXCEPT !.deleted = TRUE]
                      [] c.do = "lock" -> [note EXCEPT !.locked = TRUE]
  <2>1. note \in NoteRecords /\ c.note \in Notes
      BY <1>3 DEF Snapshots
  <2>2. /\ new \in NoteRecords /\ new.rev = note.rev /\ new.text = note.text
        /\ note.locked => new.locked
        /\ new.locked => note.locked \/ c.do = "lock"
      BY <1>1, <1>3, <2>1 DEF NoteRecords
  <2>3. Acted(lib, c) = Changed(lib, c.note, new)
      BY <1>1, <1>3 DEF Acted
  <2>4. note.text \in Nat /\ note = lib.notes[c.note]
      BY <2>1, Constants DEF NoteRecords
  <2> HIDE DEF new, note
  <2>5. Follows(lib, Acted(lib, c)) /\ Acted(lib, c) \in Snapshots
      BY <2>1, <2>2, <2>3, <2>4, ChangedFields, ChangedFollows
  <2>6. ASSUME NEW n \in Notes
        PROVE  /\ Acted(lib, c).notes[n].text = lib.notes[n].text
               /\ Acted(lib, c).notes[n].locked =>
                     lib.notes[n].locked \/ (c.do = "lock" /\ n = c.note)
      BY <2>1, <2>2, <2>3, <2>4, ChangedFields
  <2>7. QED
      BY <2>5, <2>6
<1>4. QED
    BY <1>2, <1>3

-----------------------------------------------------------------------------
(* What the file operations leave of each file *)

LEMMA PutImages ==
    ASSUME NEW d, NEW p \in DOMAIN d, NEW c
    PROVE  /\ DOMAIN Put(d, p, c) = DOMAIN d
           /\ Put(d, p, c)[p].now = c
           /\ Images(Put(d, p, c)[p]) \subseteq Images(d[p]) \cup {c}
           /\ \A q \in DOMAIN d \ {p} : Put(d, p, c)[q] = d[q]
<1>1. Put(d, p, c)[p] = [now |-> c, may |-> d[p].may \cup {c}]
    BY DEF Put
<1>2. QED
    BY <1>1 DEF Put, Images

LEMMA SyncImages ==
    ASSUME NEW d, NEW p \in DOMAIN d
    PROVE  /\ DOMAIN Sync(d) = DOMAIN d
           /\ Sync(d)[p].now = d[p].now
           /\ Images(Sync(d)[p]) = {d[p].now}
BY DEF Sync, OnDisk, Images

LEMMA WriteImages ==
    ASSUME NEW d, NEW p \in DOMAIN d, NEW c, NEW r \in WriteVerified(d, p, c)
    PROVE  /\ r.ok \in BOOLEAN
           /\ r.dir = d \/ r.dir[p].now = c
           /\ Images(r.dir[p]) \subseteq Images(d[p]) \cup {c}
           /\ r.ok => r.dir[p].now = c /\ Images(r.dir[p]) = {c}
           /\ \A q \in DOMAIN d \ {p} :
                 /\ r.dir[q].now = d[q].now
                 /\ Images(r.dir[q]) \subseteq Images(d[q])
<1> DEFINE put == Put(d, p, c)
<1>1. /\ DOMAIN put = DOMAIN d /\ put[p].now = c
      /\ Images(put[p]) \subseteq Images(d[p]) \cup {c}
      /\ \A q \in DOMAIN d \ {p} : put[q] = d[q]
    BY PutImages
<1> HIDE DEF put
<1>2. \A q \in DOMAIN d : /\ Sync(put)[q].now = put[q].now
                          /\ Images(Sync(put)[q]) = {put[q].now}
    BY <1>1, SyncImages
<1>3. /\ r.ok \in BOOLEAN /\ r.dir \in {d, put, Sync(put)}
      /\ r.ok => r.dir = Sync(put)
    BY WriteVerifiedOutcome DEF put
<1>4. \A q \in DOMAIN d : d[q].now \in Images(d[q])
    BY DEF Images
<1>5. CASE r.dir = d
    BY <1>1, <1>2, <1>3, <1>4, <1>5
<1>6. CASE r.dir = put
    BY <1>1, <1>2, <1>3, <1>4, <1>6
<1>7. CASE r.dir = Sync(put)
    BY <1>1, <1>2, <1>3, <1>4, <1>7
<1>8. QED
    BY <1>3, <1>5, <1>6, <1>7

LEMMA RemoveImages ==
    ASSUME NEW d, NEW p \in DOMAIN d, NEW r \in RemoveFile(d, p)
    PROVE  /\ r.ok \in BOOLEAN
           /\ r.ok => r.dir[p].now = NoFile
           /\ ~r.ok => r.dir = d
           /\ Images(r.dir[p]) \subseteq Images(d[p]) \cup {NoFile}
           /\ \A q \in DOMAIN d \ {p} : r.dir[q] = d[q]
<1>1. /\ r.ok \in BOOLEAN
      /\ r.dir = IF r.ok /\ d[p].now # NoFile THEN Put(d, p, NoFile) ELSE d
    BY RemoveFileOutcome
<1>2. QED
    BY <1>1, PutImages

LEMMA LossImages ==
    ASSUME NEW d, NEW e \in AfterPowerLoss(d), NEW p \in DOMAIN d
    PROVE  DOMAIN e = DOMAIN d /\ Images(e[p]) \subseteq Images(d[p])
<1>1. \/ e[p] = d[p]
      \/ \E c \in d[p].may : e[p] = OnDisk(c)
    BY PowerLossFile
<1>2. ASSUME NEW c \in d[p].may, e[p] = OnDisk(c)
      PROVE  Images(e[p]) \subseteq Images(d[p])
    BY <1>2 DEF Images, OnDisk
<1>3. DOMAIN e = DOMAIN d
    BY PowerLossFile
<1>4. QED
    BY <1>1, <1>2, <1>3

\* The library file and the drafts.
RootTypes == [p \in {"library"} |-> Snapshots]
DraftTypes == [n \in Notes |-> DraftRecords \cup {NoFile}]

LEMMA FileTypes ==
    ASSUME Typed
    PROVE  /\ DOMAIN root = {"library"} /\ DOMAIN RootTypes = {"library"}
           /\ DOMAIN drafts = Notes /\ DOMAIN DraftTypes = Notes
           /\ RootTypes["library"] = Snapshots
           /\ \A n \in Notes : DraftTypes[n] = DraftRecords \cup {NoFile}
           /\ Images(Lib) \subseteq Snapshots /\ Lib.now \in Images(Lib)
           /\ \A n \in Notes : /\ Images(drafts[n]) \subseteq DraftRecords \cup {NoFile}
                               /\ drafts[n].now \in Images(drafts[n])
           /\ IsDirectory(root, RootTypes) /\ IsDirectory(drafts, DraftTypes)
BY DEF Typed, EditsTypeOK, IsDirectory, RootTypes, DraftTypes, Images, Lib

\* A save of the library.
LEMMA SaveImages ==
    ASSUME Typed, NEW x \in Snapshots, NEW r \in SaveResults(x)
    PROVE  /\ r.ok \in BOOLEAN /\ IsDirectory(r.dir, RootTypes)
           /\ r.dir = root \/ r.dir["library"].now = x
           /\ Images(r.dir["library"]) \subseteq Images(Lib) \cup {x}
           /\ r.ok => r.dir["library"].now = x /\ Images(r.dir["library"]) = {x}
           /\ r.ok \/ r.dir # root => Lib.now = held /\ x.rev = held.rev + 1
           /\ Unsavable(x) <=> Lib.now # held \/ x.rev # held.rev + 1
<1>1. Unsavable(x) <=> Lib.now # held \/ x.rev # held.rev + 1
    BY DEF Unsavable, Lib
<1>2. CASE Unsavable(x)
  <2>1. r = Result(FALSE, root)
      BY <1>2 DEF SaveResults
  <2>2. r.ok = FALSE /\ r.dir = root
      BY <2>1, ResultFields
  <2>3. QED
      BY <1>1, <2>2, FileTypes DEF Lib
<1>3. CASE ~Unsavable(x)
  <2>1. r \in WriteVerified(root, "library", x)
      BY <1>3 DEF SaveResults
  <2>2. IsDirectory(r.dir, RootTypes)
      BY <2>1, FileTypes, WriteVerifiedType
  <2>3. QED
      BY <1>1, <1>3, <2>1, <2>2, FileTypes, WriteImages, SMTT(30) DEF Lib
<1>4. QED
    BY <1>2, <1>3

\* A draft is written.
LEMMA DraftWritten ==
    ASSUME Typed, NEW n \in Notes, NEW draft \in DraftRecords,
           NEW r \in WriteVerified(drafts, n, draft)
    PROVE  /\ r.ok \in BOOLEAN /\ IsDirectory(r.dir, DraftTypes)
           /\ Images(r.dir[n]) \subseteq Images(drafts[n]) \cup {draft}
           /\ r.ok => r.dir[n].now = draft /\ Images(r.dir[n]) = {draft}
           /\ \A m \in Notes \ {n} : /\ r.dir[m].now = drafts[m].now
                                     /\ Images(r.dir[m]) \subseteq Images(drafts[m])
<1>1. IsDirectory(r.dir, DraftTypes)
    BY FileTypes, WriteVerifiedType
<1>2. n \in DOMAIN drafts /\ DOMAIN drafts = Notes
    BY FileTypes
<1>3. /\ r.ok \in BOOLEAN
      /\ Images(r.dir[n]) \subseteq Images(drafts[n]) \cup {draft}
      /\ r.ok => r.dir[n].now = draft /\ Images(r.dir[n]) = {draft}
      /\ \A m \in DOMAIN drafts \ {n} :
            /\ r.dir[m].now = drafts[m].now
            /\ Images(r.dir[m]) \subseteq Images(drafts[m])
    BY <1>2, WriteImages
<1>4. QED
    BY <1>1, <1>2, <1>3

\* A draft is removed.
LEMMA DraftRemoved ==
    ASSUME Typed, NEW n \in Notes, NEW r \in RemoveFile(drafts, n)
    PROVE  /\ r.ok \in BOOLEAN /\ IsDirectory(r.dir, DraftTypes)
           /\ r.ok => r.dir[n].now = NoFile
           /\ ~r.ok => r.dir = drafts
           /\ Images(r.dir[n]) \subseteq Images(drafts[n]) \cup {NoFile}
           /\ \A m \in Notes \ {n} : r.dir[m] = drafts[m]
<1>1. IsDirectory(r.dir, DraftTypes)
    BY FileTypes, RemoveFileType
<1>2. QED
    BY <1>1, FileTypes, RemoveImages

-----------------------------------------------------------------------------
(* What a step counts *)

\* Nothing is counted down, and no fault is forgotten.
Counts ==
    /\ spent' \in [Counters -> Nat]
    /\ spent["discards"] <= spent'["discards"]
    /\ spent'["faults"] = 0 => spent["faults"] = 0

LEMMA SpendCounts ==
    ASSUME Typed, NEW what \in Counters, NEW x \in Nat, Spend(what, x)
    PROVE  /\ Counts /\ spent'[what] = spent[what] + x
           /\ what # "faults" => spent'["faults"] = spent["faults"]
<1>1. /\ spent \in [Counters -> Nat] /\ spent' = [spent EXCEPT ![what] = @ + x]
      /\ "discards" \in Counters /\ "faults" \in Counters
    BY DEF Typed, Spend, Counters
<1>2. \A c \in Counters : /\ spent'[c] \in Nat /\ spent[c] \in Nat
                          /\ spent[c] <= spent'[c]
                          /\ c # what => spent'[c] = spent[c]
    BY <1>1
<1>3. spent' \in [Counters -> Nat] /\ spent'[what] = spent[what] + x
    BY <1>1
<1>4. QED
    BY <1>1, <1>2, <1>3 DEF Counts

LEMMA FaultyCounts ==
    ASSUME Typed, NEW good, Faulty(good)
    PROVE  /\ Counts
           /\ spent'["losses"] = spent["losses"]
           /\ spent'["discards"] = spent["discards"]
           /\ spent'["faults"] = 0 => good # FALSE
<1>1. /\ spent \in [Counters -> Nat]
      /\ spent' = [spent EXCEPT !["faults"] = @ + (IF good THEN 0 ELSE 1)]
      /\ "discards" \in Counters /\ "faults" \in Counters /\ "losses" \in Counters
    BY DEF Typed, Faulty, Spend, Counters
<1>2. CASE good
  <2>1. Spend("faults", 0)
      BY <1>2 DEF Faulty
  <2>2. QED
      BY <1>1, <1>2, <2>1, SpendCounts DEF Counters
<1>3. CASE ~good
  <2>1. Spend("faults", 1)
      BY <1>3 DEF Faulty
  <2>2. Counts /\ spent'["faults"] = spent["faults"] + 1 /\ spent["faults"] \in Nat
      BY <1>1, <2>1, SpendCounts
  <2>3. /\ spent'["losses"] = spent["losses"]
        /\ spent'["discards"] = spent["discards"]
      BY <1>1, <2>1 DEF Spend
  <2>4. spent'["faults"] # 0
      BY <2>2
  <2>5. QED
      BY <2>2, <2>3, <2>4
<1>4. QED
    BY <1>2, <1>3

\* A file operation has failed.
LEMMA FailedCounts ==
    ASSUME Typed, Faulty(FALSE)
    PROVE  /\ Counts /\ spent'["faults"] # 0 /\ spent'["losses"] = spent["losses"]
<1>1. Spend("faults", 1) /\ "faults" \in Counters /\ "losses" \in Counters
    BY DEF Faulty, Counters
<1>2. Counts /\ spent'["faults"] = spent["faults"] + 1 /\ spent["faults"] \in Nat
    BY <1>1, SpendCounts DEF Typed
<1>3. QED
    BY <1>1, <1>2 DEF Spend, Typed

LEMMA NothingCounts ==
    ASSUME Typed, spent' = spent
    PROVE  Counts
BY DEF Typed, Counts, Counters

-----------------------------------------------------------------------------
(* Each step keeps the types *)

LEMMA Fields ==
    ASSUME Typed
    PROVE  /\ held \in Snapshots /\ call \in Calls /\ held.rev \in Nat
           /\ \A n \in Notes : /\ held.notes[n] \in NoteRecords
                               /\ held.notes[n].rev \in Nat
                               /\ held.notes[n].text \in Texts
                               /\ held.notes[n].text \in Nat
                               /\ taken[n] \in Texts /\ taken[n] \in Nat
                               /\ recoverable[n] \in DraftRecords \cup {NoFile}
           /\ scheduled \in Edits \cup {Nothing} /\ call.edit \in Edits \cup {Nothing}
           /\ call.tx \in Transactions \cup {Nothing} /\ call.then \in Continuations
           /\ call.result \in {"ready", "pending", "rejected"}
           /\ pending # Nothing => pending.tx \in Transactions /\ pending.changed \in BOOLEAN
           /\ review \subseteq Notes
<1>1. held \in Snapshots /\ call \in Calls /\ taken \in [Notes -> Texts]
      /\ recoverable \in [Notes -> DraftRecords \cup {NoFile}]
    BY DEF Typed, EditsTypeOK
<1>2. held.rev \in Nat /\ held.notes \in [Notes -> NoteRecords]
    BY <1>1 DEF Snapshots
<1>3. \A n \in Notes : held.notes[n].rev \in Nat /\ held.notes[n].text \in Texts
    BY <1>2 DEF NoteRecords
<1>4. /\ call.edit \in Edits \cup {Nothing} /\ call.tx \in Transactions \cup {Nothing}
      /\ call.then \in Continuations /\ call.result \in {"ready", "pending", "rejected"}
    BY <1>1 DEF Calls
<1>5. pending \in [tx : Transactions, changed : BOOLEAN] \cup {Nothing}
    BY DEF Typed, EditsTypeOK
<1>6. QED
    BY <1>1, <1>2, <1>3, <1>4, <1>5, Constants DEF Typed, EditsTypeOK

\* The command that flushes the scheduled edit.
Flush(at, edit, c) == [Idle EXCEPT !.at = at, !.edit = edit, !.then = c]

LEMMA FlushFields ==
    ASSUME NEW edit \in Edits \cup {Nothing}, NEW c \in Continuations,
           NEW at \in {"return", "commit_edit"}
    PROVE  LET flush == Flush(at, edit, c) IN
           /\ flush \in Calls /\ flush.at = at /\ flush.edit = edit
           /\ flush.tx = Nothing /\ flush.then = c /\ flush.result = "ready"
BY DEF Flush, Idle, Calls

LEMMA FlushTyped ==
    ASSUME Typed, Counts, NEW c \in Continuations, FlushThen(c),
           UNCHANGED <<window, taken>>
    PROVE  /\ Typed' /\ call'.at \in {"return", "commit_edit"} /\ call'.then = c
           /\ call'.edit = scheduled /\ call'.tx = Nothing /\ call'.result = "ready"
<1> DEFINE at == IF scheduled = Nothing THEN "return" ELSE "commit_edit"
<1>1. scheduled \in Edits \cup {Nothing} /\ at \in {"return", "commit_edit"}
    BY DEF Typed, EditsTypeOK
<1>2. call' = Flush(at, scheduled, c)
    BY DEF FlushThen, Flush
<1>3. at = "return" <=> scheduled = Nothing
    OBVIOUS
<1> HIDE DEF at
<1>4. /\ call' \in Calls /\ call'.at = at /\ call'.edit = scheduled
      /\ call'.tx = Nothing /\ call'.then = c /\ call'.result = "ready"
    BY <1>1, <1>2, FlushFields
<1>5. call' # Idle
    BY <1>1, <1>4, IdleFields
<1>6. QED
    BY <1>1, <1>3, <1>4, <1>5 DEF FlushThen, Typed, EditsTypeOK, Counts, window

\* What a flush is followed by: nothing in particular, an action, a copy.
Actions == {"loop", "stop", "close", "touch", "trash", "lock", "copy"}
ActOn(act, n, e) == [Then(act) EXCEPT !.note = n, !.expected = e]
CopyOf(t) == [Then("copy") EXCEPT !.text = t]

LEMMA ThenTypes ==
    ASSUME NEW do \in Actions
    PROVE  Then(do) \in Continuations /\ Then(do).do = do
BY Constants DEF Then, Continuations, Actions

LEMMA ActOnTypes ==
    ASSUME NEW act \in Actions, NEW n \in Notes, NEW e \in Nat
    PROVE  /\ ActOn(act, n, e) \in Continuations
           /\ ActOn(act, n, e).do = act /\ ActOn(act, n, e).note = n
BY Constants DEF ActOn, Then, Continuations, Actions

LEMMA CopyOfTypes ==
    ASSUME NEW t \in Texts
    PROVE  CopyOf(t) \in Continuations /\ CopyOf(t).do = "copy"
BY Constants DEF CopyOf, Then, Continuations

\* What commit_edit makes of an edit: the draft, the transaction, the call.
EditDraft(edit) ==
    [base |-> held.notes[edit.note].rev, gen |-> edit.gen, text |-> edit.text]
EditTx(edit, done) ==
    [candidate |-> Edited(held, edit.note, edit.text),
     note |-> IF held.notes[edit.note].locked THEN Nothing ELSE edit.note,
     text |-> edit.text, persisted |-> done]
AfterEdit(edit, done) ==
    IF edit.text = held.notes[edit.note].text THEN Returns(call, "rejected")
    ELSE Commits(call, EditTx(edit, done))

LEMMA EditFields ==
    ASSUME Typed, NEW edit \in Edits, NEW done \in BOOLEAN
    PROVE  /\ edit.note \in Notes /\ edit.text \in Texts /\ edit.text \in Nat
           /\ EditDraft(edit) \in DraftRecords
           /\ EditDraft(edit).base = held.notes[edit.note].rev
           /\ EditDraft(edit).text = edit.text
           /\ EditDraft(edit) # NoFile
           /\ EditTx(edit, done) \in Transactions
           /\ EditTx(edit, done).candidate = Edited(held, edit.note, edit.text)
           /\ EditTx(edit, done).text = edit.text
           /\ EditTx(edit, done).persisted = done
           /\ EditTx(edit, done).note = IF held.notes[edit.note].locked
                                        THEN Nothing ELSE edit.note
<1>1. edit.note \in Notes /\ edit.text \in Texts /\ edit.gen \in Generations
    BY DEF Edits
<1>2. held \in Snapshots /\ held.notes[edit.note].rev \in Nat
    BY <1>1, Fields
<1>3. Edited(held, edit.note, edit.text) \in Snapshots
    BY <1>1, <1>2, EditedFields
<1>4. EditDraft(edit) \in DraftRecords
    BY <1>1, <1>2 DEF EditDraft, DraftRecords
<1>5. EditTx(edit, done) \in Transactions
    BY <1>1, <1>3 DEF EditTx, Transactions
<1>6. QED
    BY <1>1, <1>4, <1>5, Constants DEF EditDraft, EditTx

\* A draft was written, with the result r.
Drafted(edit, r) ==
    LET n == edit.note IN
    /\ Faulty(r.ok)
    /\ drafts' = r.dir
    /\ recoverable' = IF r.ok THEN [recoverable EXCEPT ![n] = EditDraft(edit)]
                      ELSE recoverable
    /\ taken' = IF r.ok /\ edit.text # held.notes[n].text
                THEN [taken EXCEPT ![n] = edit.text] ELSE taken
    /\ call' = AfterEdit(edit, r.ok)

LEMMA CommitEditCases ==
    ASSUME Typed, CommitEdit
    PROVE  LET edit == call.edit
               n == edit.note IN
           /\ call.at = "commit_edit" /\ edit \in Edits
           /\ UNCHANGED <<root, phase, held, pending, scheduled, highest, open, window>>
           /\ \/ /\ call' = Returns(call, "rejected")
                 /\ UNCHANGED <<drafts, recoverable, taken, spent>>
              \/ /\ held.notes[n].locked /\ call' = AfterEdit(edit, FALSE)
                 /\ UNCHANGED <<drafts, recoverable, taken, spent>>
              \/ /\ ~held.notes[n].locked
                 /\ \E r \in WriteVerified(drafts, n, EditDraft(edit)) :
                      r.ok \in BOOLEAN /\ Drafted(edit, r)
<1>1. call.at = "commit_edit" /\ call.edit \in Edits
    BY Fields, Zenon DEF CommitEdit, Typed, EditsTypeOK
<1>2. \A r \in WriteVerified(drafts, call.edit.note, EditDraft(call.edit)) :
        r.ok \in BOOLEAN
    BY WriteVerifiedOutcome
<1>3. QED
    BY <1>1, <1>2, Zenon DEF CommitEdit, Drafted, AfterEdit, EditTx, EditDraft

LEMMA AfterEditFields ==
    ASSUME Typed, NEW edit \in Edits, NEW done \in BOOLEAN
    PROVE  LET c == AfterEdit(edit, done) IN
           /\ c \in Calls /\ c.edit = Nothing /\ c.then = call.then
           /\ edit.text = held.notes[edit.note].text =>
                 c.at = "return" /\ c.tx = Nothing /\ c.result = "rejected"
           /\ edit.text # held.notes[edit.note].text =>
                 c.at = "commit" /\ c.tx = EditTx(edit, done)
<1>1. call \in Calls /\ EditTx(edit, done) \in Transactions
    BY Fields, EditFields
<1>2. QED
    BY <1>1, ReturnsFields, CommitsFields DEF AfterEdit

LEMMA CommitEditTyped ==
    ASSUME Typed, CommitEdit
    PROVE  Typed' /\ Counts
<1> DEFINE edit == call.edit
           n == edit.note
<1>1. /\ call.at = "commit_edit" /\ edit \in Edits /\ n \in Notes /\ edit.text \in Texts
      /\ UNCHANGED <<root, phase, held, pending, scheduled, highest, open, window>>
    BY CommitEditCases, EditFields
<1>2. call \in Calls /\ IsDirectory(drafts, DraftTypes)
    BY Fields, FileTypes
<1>3. /\ call' \in Calls /\ call'.at \in {"return", "commit"}
      /\ call'.edit = Nothing /\ call'.tx \in Transactions \cup {Nothing}
      /\ call'.at = "commit" <=> call'.tx # Nothing
  <2>1. call' = Returns(call, "rejected")
           \/ \E done \in BOOLEAN : call' = AfterEdit(edit, done)
      BY CommitEditCases DEF Drafted
  <2>2. CASE call' = Returns(call, "rejected")
      BY <1>2, <2>2, ReturnsFields
  <2>3. CASE \E done \in BOOLEAN : call' = AfterEdit(edit, done)
    <3>1. PICK done \in BOOLEAN : call' = AfterEdit(edit, done)
        BY <2>3
    <3>2. EditTx(edit, done) \in Transactions
        BY <1>1, EditFields
    <3>3. QED
        BY <1>1, <3>1, <3>2, AfterEditFields, Constants
  <2>4. QED
      BY <2>1, <2>2, <2>3
<1>4. /\ Counts /\ IsDirectory(drafts', DraftTypes)
      /\ recoverable' \in [Notes -> DraftRecords \cup {NoFile}]
      /\ taken' \in [Notes -> Texts]
  <2>1. /\ recoverable \in [Notes -> DraftRecords \cup {NoFile}]
        /\ taken \in [Notes -> Texts]
      BY DEF Typed, EditsTypeOK
  <2>2. CASE UNCHANGED <<drafts, recoverable, taken, spent>>
      BY <1>2, <2>1, <2>2, NothingCounts
  <2>3. CASE \E r \in WriteVerified(drafts, n, EditDraft(edit)) :
                r.ok \in BOOLEAN /\ Drafted(edit, r)
    <3> DEFINE draft == EditDraft(edit)
    <3>1. PICK r \in WriteVerified(drafts, n, draft) :
             r.ok \in BOOLEAN /\ Drafted(edit, r)
        BY <2>3
    <3>2. draft \in DraftRecords
        BY <1>1, EditFields
    <3> HIDE DEF draft
    <3>7. Faulty(r.ok)
        BY <3>1 DEF Drafted
    <3>4. Counts
        BY <3>7, FaultyCounts
    <3> USE DEF draft
    <3>3. /\ drafts' = r.dir
          /\ recoverable' = IF r.ok THEN [recoverable EXCEPT ![n] = draft]
                            ELSE recoverable
          /\ taken' = IF r.ok /\ edit.text # held.notes[n].text
                      THEN [taken EXCEPT ![n] = edit.text] ELSE taken
        BY <3>1 DEF Drafted
    <3> HIDE DEF draft
    <3>5. IsDirectory(drafts', DraftTypes)
        BY <1>1, <3>1, <3>2, <3>3, DraftWritten
    <3>6. QED
        BY <1>1, <2>1, <3>2, <3>3, <3>4, <3>5
  <2>4. QED
      BY <2>2, <2>3, CommitEditCases
<1>5. call' # Idle
    BY <1>3, IdleFields
<1>6. QED
    BY <1>1, <1>3, <1>4, <1>5
    DEF Typed, EditsTypeOK, Counts, DraftTypes, window

\* What stays when the process ends.
LEMMA ForgottenTyped ==
    ASSUME Typed, Counts, Forgotten, IsDirectory(root', RootTypes),
           IsDirectory(drafts', DraftTypes), UNCHANGED <<held, sent, taken>>
    PROVE  Typed'
<1>1. highest' \in 0 .. MaxEdits
    BY Constants DEF Forgotten
<1>2. /\ recoverable' \in [Notes -> DraftRecords \cup {NoFile}]
      /\ review' \subseteq Notes /\ open' \in BOOLEAN
    BY DEF Forgotten
<1>3. call' = Idle /\ pending' = Nothing /\ phase' = "stopped" /\ shown' = "ready"
      /\ scheduled' = Nothing
    BY DEF Forgotten
<1>4. /\ held' \in Snapshots /\ sent' \subseteq Generations /\ taken' \in [Notes -> Texts]
    BY DEF Typed, EditsTypeOK
<1>5. spent' \in [Counters -> Nat]
    BY DEF Counts
<1>6. /\ IsDirectory(root', [p \in {"library"} |-> Snapshots])
      /\ IsDirectory(drafts', [n \in Notes |-> DraftRecords \cup {NoFile}])
    BY DEF RootTypes, DraftTypes
<1>7. QED
    BY <1>1, <1>2, <1>3, <1>4, <1>5, <1>6, IdleFields DEF Typed, EditsTypeOK

LEMMA SpendFaults ==
    ASSUME Typed, NEW K \in SUBSET Notes, Spend("faults", Cardinality(K))
    PROVE  Counts /\ (spent'["faults"] = 0 => K = {}) /\ spent'["losses"] = spent["losses"]
<1>1. IsFiniteSet(K)
    BY EditBounds, FS_Subset
<1>2. Cardinality(K) \in Nat /\ (Cardinality(K) = 0 <=> K = {})
    BY <1>1, FS_CardinalityType, FS_EmptySet
<1>3. "faults" \in Counters /\ "losses" \in Counters /\ spent \in [Counters -> Nat]
    BY DEF Counters, Typed
<1>4. Counts /\ spent'["faults"] = spent["faults"] + Cardinality(K)
    BY <1>2, <1>3, SpendCounts
<1>5. spent'["losses"] = spent["losses"]
    BY <1>3 DEF Spend
<1>6. spent["faults"] \in Nat
    BY <1>3
<1>7. spent'["faults"] = 0 => K = {}
    BY <1>2, <1>4, <1>6
<1>8. QED
    BY <1>4, <1>5, <1>7

\* enter_ready, with what it finds, prunes and cannot remove.
Found == {n \in Notes : drafts[n].now # NoFile}
Pruned == {n \in Found : Prunable(drafts[n].now, Lib.now.notes[n])}

LEMMA StartCases ==
    ASSUME Typed, Start
    PROVE  /\ phase = "stopped" /\ phase' = "ready" /\ shown' = "ready"
           /\ root' = Sync(root) /\ held' = Lib.now /\ review' = Found \ Pruned
           /\ sent' = {g \in Generations : \E h \in sent : g <= h}
           /\ UNCHANGED <<call, pending, scheduled, highest, open, taken>>
           /\ recoverable' = [n \in Notes |-> IF n \in Found \ Pruned
                                              THEN drafts[n].now ELSE NoFile]
           /\ \E K \in SUBSET Pruned :
                 /\ Spend("faults", Cardinality(K))
                 /\ drafts' = [n \in Notes |-> IF n \in Pruned \ K
                                               THEN Put(drafts, n, NoFile)[n]
                                               ELSE drafts[n]]
BY DEF Start, Found, Pruned, Lib

LEMMA StartTyped ==
    ASSUME Typed, Start
    PROVE  Typed' /\ Counts
<1>1. PICK K \in SUBSET Pruned :
         /\ Spend("faults", Cardinality(K))
         /\ drafts' = [n \in Notes |-> IF n \in Pruned \ K
                                       THEN Put(drafts, n, NoFile)[n] ELSE drafts[n]]
    BY StartCases
<1>2. Counts
    BY <1>1, SpendFaults DEF Pruned, Found
<1>3. IsDirectory(drafts', DraftTypes)
  <2>1. \A n \in Notes : IsDirectory(Put(drafts, n, NoFile), DraftTypes)
      BY FileTypes, PutType
  <2>2. QED
      BY <1>1, <2>1, FileTypes DEF IsDirectory
<1>4. IsDirectory(root', RootTypes)
    BY StartCases, FileTypes, SyncType
<1>5. recoverable' \in [Notes -> DraftRecords \cup {NoFile}]
  <2>1. \A n \in Notes : drafts[n].now \in DraftRecords \cup {NoFile}
      BY FileTypes
  <2>2. QED
      BY <2>1, StartCases
<1>6. held' \in Snapshots /\ review' \in SUBSET Notes /\ sent' \in SUBSET Generations
    BY StartCases, FileTypes DEF Found
<1>7. pending = Nothing \/ call # Idle
    BY StartCases DEF Typed, EditsTypeOK
<1>8. QED
    BY <1>2, <1>3, <1>4, <1>5, <1>6, <1>7, StartCases
    DEF Typed, EditsTypeOK, Counts, RootTypes, DraftTypes

\* EditScheduler::schedule.
LEMMA ScheduleCases ==
    ASSUME Typed, NEW edit \in Edits, ScheduleEdit(edit)
    PROVE  /\ call = Idle /\ phase # "stopped" /\ edit.gen \notin sent
           /\ sent' = sent \cup {edit.gen}
           /\ UNCHANGED <<root, drafts, phase, held, pending, recoverable, open, shown,
                          review, taken, spent>>
           /\ \/ UNCHANGED <<highest, scheduled, call>>
              \/ /\ phase = "ready" /\ edit.gen > highest
                 /\ highest' = edit.gen /\ scheduled' = edit
                 /\ \/ call' = Idle /\ (scheduled = Nothing \/ scheduled.note = edit.note)
                    \/ /\ scheduled # Nothing /\ scheduled.note # edit.note
                       /\ call' = Flush("commit_edit", scheduled, Loop)
BY DEF ScheduleEdit, Fresh, Flush, Idle

LEMMA ScheduleTyped ==
    ASSUME Typed, NEW edit \in Edits, ScheduleEdit(edit)
    PROVE  Typed' /\ Counts
<1>1. Counts
    BY ScheduleCases, NothingCounts
<1>2. edit.gen \in Generations /\ edit.gen \in 0 .. MaxEdits
    BY Constants DEF Edits, Generations
<1>3. scheduled \in Edits \cup {Nothing} /\ Nothing \notin Edits
    BY Constants DEF Typed, EditsTypeOK
<1>4. \/ call' = call
      \/ call' = Idle
      \/ /\ call' \in Calls /\ call'.at = "commit_edit" /\ call'.edit \in Edits
         /\ call'.tx = Nothing
    BY <1>3, ScheduleCases, FlushFields, IdleFields
<1>5. sent' \subseteq Generations
    BY <1>2, ScheduleCases DEF Typed, EditsTypeOK
<1>6. QED
    BY <1>1, <1>2, <1>3, <1>4, <1>5, ScheduleCases, IdleFields
    DEF Typed, EditsTypeOK, Counts

LEMMA EditsScheduled ==
    ASSUME Typed, NEW n \in Notes, NEW g \in Generations, Type(n, g) \/ RestoreDraft(n, g)
    PROVE  \E edit \in Edits :
              /\ ScheduleEdit(edit) /\ edit.note = n /\ edit.gen = g
              /\ shown = "ready"
              /\ \/ review = {} /\ edit.text = g
                 \/ /\ n \in review /\ recoverable[n] # NoFile
                    /\ Applicable(recoverable[n], held.notes[n])
                    /\ edit.text = recoverable[n].text
<1>1. /\ held.notes[n].rev \in Nat /\ recoverable[n] \in DraftRecords \cup {NoFile}
      /\ g \in Texts
    BY Fields, Constants
<1>2. CASE Type(n, g)
  <2> DEFINE edit == [note |-> n, gen |-> g, text |-> g, expected |-> held.notes[n].rev]
  <2>1. edit \in Edits /\ edit.note = n /\ edit.gen = g /\ edit.text = g
      BY <1>1 DEF Edits
  <2>2. ScheduleEdit(edit) /\ shown = "ready" /\ review = {}
      BY <1>2 DEF Type
  <2> HIDE DEF edit
  <2>3. QED
      BY <2>1, <2>2
<1>3. CASE RestoreDraft(n, g)
  <2> DEFINE edit == [note |-> n, gen |-> g, text |-> recoverable[n].text,
                      expected |-> recoverable[n].base]
  <2>1. /\ ScheduleEdit(edit) /\ shown = "ready" /\ n \in review
        /\ recoverable[n] # NoFile /\ Applicable(recoverable[n], held.notes[n])
      BY <1>3 DEF RestoreDraft
  <2>2. /\ edit \in Edits /\ edit.note = n /\ edit.gen = g
        /\ edit.text = recoverable[n].text
      BY <1>1, <2>1 DEF Edits, DraftRecords
  <2> HIDE DEF edit
  <2>3. QED
      BY <2>1, <2>2
<1>4. QED
    BY <1>2, <1>3

\* A transaction is accepted.
LEMMA AcceptedFields ==
    ASSUME Typed, NEW tx \in Transactions, Accepted(tx)
    PROVE  /\ held' = tx.candidate /\ held' \in Snapshots
           /\ call' \in Calls /\ call'.at = "cleanup" /\ call'.tx = tx
           /\ call'.edit = call.edit /\ call'.then = call.then
           /\ taken' \in [Notes -> Texts]
           /\ \A n \in Notes : taken'[n] = IF n = tx.note THEN tx.text ELSE taken[n]
<1>1. /\ tx.candidate \in Snapshots /\ tx.text \in Texts
      /\ taken \in [Notes -> Texts] /\ call \in Calls
    BY DEF Transactions, Typed, EditsTypeOK
<1>2. call' = [call EXCEPT !.at = "cleanup", !.tx = tx]
    BY DEF Accepted
<1>3. /\ call' \in Calls /\ call'.at = "cleanup" /\ call'.tx = tx
      /\ call'.edit = call.edit /\ call'.then = call.then
    BY <1>1, <1>2 DEF Calls
<1>4. QED
    BY <1>1, <1>3 DEF Accepted

LEMMA CommitCases ==
    ASSUME Typed, CommitTransaction
    PROVE  /\ call.at = "commit" /\ call.tx \in Transactions /\ call.edit = Nothing
           /\ UNCHANGED <<drafts, phase, scheduled, highest, recoverable, open, window>>
           /\ \E r \in SaveResults(call.tx.candidate) :
                /\ r.ok \in BOOLEAN
                /\ Faulty(r.ok \/ Unsavable(call.tx.candidate))
                /\ root' = r.dir
                /\ \/ r.ok /\ Accepted(call.tx) /\ pending' = pending
                   \/ /\ ~r.ok /\ pending' = [tx |-> call.tx, changed |-> FALSE]
                      /\ call' = Returns(call, "pending")
                      /\ UNCHANGED <<held, taken>>
<1>1. call.at = "commit"
    BY DEF CommitTransaction
<1>2. call.tx \in Transactions /\ call.edit = Nothing
    BY <1>1, Fields DEF Typed, EditsTypeOK
<1>3. call.tx.candidate \in Snapshots
    BY <1>2 DEF Transactions
<1>4. \A r \in SaveResults(call.tx.candidate) : r.ok \in BOOLEAN
    BY <1>3, SaveImages
<1>5. QED
    BY <1>1, <1>2, <1>4, Zenon DEF CommitTransaction

LEMMA CommitTyped ==
    ASSUME Typed, CommitTransaction
    PROVE  Typed' /\ Counts
<1> DEFINE tx == call.tx
<1>1. /\ call.at = "commit" /\ tx \in Transactions /\ call.edit = Nothing
      /\ UNCHANGED <<drafts, phase, scheduled, highest, recoverable, open, window>>
    BY CommitCases
<1>2. PICK r \in SaveResults(tx.candidate) :
        /\ Faulty(r.ok \/ Unsavable(call.tx.candidate))
        /\ root' = r.dir
        /\ \/ r.ok /\ Accepted(tx) /\ pending' = pending
           \/ /\ ~r.ok /\ pending' = [tx |-> tx, changed |-> FALSE]
              /\ call' = Returns(call, "pending")
              /\ UNCHANGED <<held, taken>>
    BY CommitCases
<1>3. Counts
    BY <1>2, FaultyCounts
<1>4. tx.candidate \in Snapshots /\ call \in Calls
    BY <1>1, Fields DEF Transactions
<1>5. IsDirectory(root', RootTypes)
    BY <1>2, <1>4, SaveImages
<1>6. CASE Accepted(tx) /\ pending' = pending
  <2>1. call' # Idle /\ tx # Nothing
      BY <1>1, <1>6, AcceptedFields, IdleFields, Constants
  <2>2. QED
      BY <1>1, <1>3, <1>5, <1>6, <2>1, AcceptedFields
      DEF Typed, EditsTypeOK, Counts, RootTypes, window
<1>7. CASE /\ pending' = [tx |-> tx, changed |-> FALSE]
           /\ call' = Returns(call, "pending") /\ UNCHANGED <<held, taken>>
  <2>1. pending' \in [tx : Transactions, changed : BOOLEAN]
      BY <1>1, <1>7
  <2>2. /\ call' \in Calls /\ call'.at = "return" /\ call'.edit = Nothing
        /\ call'.tx = Nothing /\ call' # Idle
      BY <1>4, <1>7, ReturnsFields, IdleFields
  <2>3. QED
      BY <1>1, <1>3, <1>5, <1>7, <2>1, <2>2
      DEF Typed, EditsTypeOK, Counts, RootTypes, window
<1>8. QED
    BY <1>2, <1>6, <1>7

\* A draft is removed from the disk and from what the worker offers.
Removed(n, r) ==
    /\ Faulty(r.ok)
    /\ drafts' = r.dir
    /\ \/ r.ok /\ recoverable' = [recoverable EXCEPT ![n] = NoFile]
       \/ ~r.ok /\ recoverable' = recoverable

LEMMA RemovedTyped ==
    ASSUME Typed, NEW n \in Notes, NEW r \in RemoveFile(drafts, n), drafts' = r.dir,
           recoverable' \in {recoverable, [recoverable EXCEPT ![n] = NoFile]}
    PROVE  /\ IsDirectory(drafts', DraftTypes)
           /\ recoverable' \in [Notes -> DraftRecords \cup {NoFile}]
<1>1. recoverable \in [Notes -> DraftRecords \cup {NoFile}]
    BY DEF Typed, EditsTypeOK
<1>2. QED
    BY <1>1, DraftRemoved

LEMMA CleanupCases ==
    ASSUME Typed, CleanupDraft
    PROVE  LET n == call.tx.note IN
           /\ call.at = "cleanup" /\ call.tx \in Transactions /\ call.edit = Nothing
           /\ call' = Returns(call, "ready")
           /\ UNCHANGED <<root, phase, held, pending, scheduled, highest, open, shown,
                          sent, taken>>
           /\ \/ UNCHANGED <<drafts, recoverable, review, spent>>
              \/ /\ n \in Notes /\ call.tx.persisted
                 /\ \E r \in RemoveFile(drafts, n) :
                      /\ r.ok \in BOOLEAN /\ Removed(n, r)
                      /\ review' = IF r.ok THEN review \ {n} ELSE review
<1>1. call.at = "cleanup"
    BY DEF CleanupDraft
<1>2. call.tx \in Transactions /\ call.edit = Nothing
    BY <1>1, Fields DEF Typed, EditsTypeOK
<1>3. call.tx.note \in Notes \cup {Nothing}
    BY <1>2 DEF Transactions
<1>4. \A r \in RemoveFile(drafts, call.tx.note) : r.ok \in BOOLEAN
    BY RemoveFileOutcome
<1>5. \/ UNCHANGED <<drafts, recoverable, review, spent>>
      \/ /\ call.tx.note # Nothing /\ call.tx.persisted
         /\ \E r \in RemoveFile(drafts, call.tx.note) :
              /\ r.ok \in BOOLEAN /\ Removed(call.tx.note, r)
              /\ review' = IF r.ok THEN review \ {call.tx.note} ELSE review
    BY <1>4, Zenon DEF CleanupDraft, Removed
<1>6. QED
    BY <1>1, <1>2, <1>3, <1>5 DEF CleanupDraft

LEMMA CleanupTyped ==
    ASSUME Typed, CleanupDraft
    PROVE  Typed' /\ Counts
<1>1. call \in Calls /\ review \subseteq Notes
    BY Fields
<1>2. /\ call' \in Calls /\ call'.at = "return" /\ call'.edit = Nothing
      /\ call'.tx = Nothing /\ call' # Idle
    BY <1>1, CleanupCases, ReturnsFields, IdleFields
<1>3. /\ Counts /\ IsDirectory(drafts', DraftTypes) /\ review' \subseteq Notes
      /\ recoverable' \in [Notes -> DraftRecords \cup {NoFile}]
  <2>1. CASE UNCHANGED <<drafts, recoverable, review, spent>>
      BY <1>1, <2>1, FileTypes, NothingCounts DEF Typed, EditsTypeOK
  <2>2. ASSUME NEW n \in Notes, NEW r \in RemoveFile(drafts, n), Removed(n, r),
               review' = IF r.ok THEN review \ {n} ELSE review
        PROVE  <1>3
    <3>1. Faulty(r.ok)
        BY <2>2 DEF Removed
    <3>2. Counts
        BY <3>1, FaultyCounts
    <3>3. QED
        BY <1>1, <2>2, <3>2, RemovedTyped DEF Removed
  <2>3. QED
      BY <2>1, <2>2, CleanupCases
<1>4. QED
    BY <1>2, <1>3, CleanupCases DEF Typed, EditsTypeOK, Counts, DraftTypes

\* What a command goes on with once its flush is over.
ActTx(c) ==
    [candidate |-> Acted(held, c.then), note |-> Nothing, text |-> 0, persisted |-> FALSE]
Acting(c) == [Commits(c, ActTx(c)) EXCEPT !.then = Loop]

LEMMA ActingFields ==
    ASSUME Typed, call.then.do \in Acts \cup {"copy"},
           call.then.do # "copy" => call.then.note \in Notes
    PROVE  /\ ActTx(call) \in Transactions
           /\ ActTx(call).candidate = Acted(held, call.then)
           /\ ActTx(call).note = Nothing /\ ActTx(call).persisted = FALSE
           /\ ActTx(call).text = 0
           /\ Acting(call) \in Calls /\ Acting(call).at = "commit"
           /\ Acting(call).edit = Nothing /\ Acting(call).tx = ActTx(call)
           /\ Acting(call).then = Loop
<1>1. held \in Snapshots /\ call.then \in Continuations /\ call \in Calls
    BY Fields
<1>2. Acted(held, call.then) \in Snapshots
    BY <1>1, ActedFields
<1>3. ActTx(call) \in Transactions
    BY <1>2, Constants DEF ActTx, Transactions
<1>4. /\ Commits(call, ActTx(call)) \in Calls
      /\ Commits(call, ActTx(call)).at = "commit"
      /\ Commits(call, ActTx(call)).edit = Nothing
      /\ Commits(call, ActTx(call)).tx = ActTx(call)
    BY <1>1, <1>3, CommitsFields
<1>5. /\ Acting(call) \in Calls /\ Acting(call).at = "commit"
      /\ Acting(call).edit = Nothing /\ Acting(call).tx = ActTx(call)
      /\ Acting(call).then = Loop
    BY <1>4, IdleFields DEF Acting, Calls
<1>6. QED
    BY <1>3, <1>5 DEF ActTx

LEMMA ReturnCases ==
    ASSUME Typed, Return
    PROVE  /\ call.at = "return" /\ UNCHANGED <<root, held, taken>>
           /\ \/ Forgotten /\ UNCHANGED <<drafts, sent, spent>>
              \/ /\ phase' = IF call.result = "pending" THEN "pending" ELSE "ready"
                 /\ call' = Idle /\ open' \in BOOLEAN
                 /\ UNCHANGED <<drafts, recoverable, pending, scheduled, highest,
                                window, spent>>
              \/ /\ call.then.do \in Acts \cup {"copy"} /\ call.result = "ready"
                 /\ Allowed(held, call.then) /\ call' = Acting(call)
                 /\ UNCHANGED <<phase, pending, scheduled, highest, window>>
                 /\ \/ /\ call.then.do # "lock"
                       /\ UNCHANGED <<drafts, recoverable, open, spent>>
                    \/ /\ call.then.do = "lock" /\ open' = TRUE
                       /\ \E r \in RemoveFile(drafts, call.then.note) :
                            r.ok \in BOOLEAN /\ Removed(call.then.note, r)
<1>1. \A r \in RemoveFile(drafts, call.then.note) : r.ok \in BOOLEAN
    BY RemoveFileOutcome
<1>2. open \in BOOLEAN
    BY DEF Typed, EditsTypeOK
<1>3. (open /\ call.then.do # "close") \in BOOLEAN
    OBVIOUS
<1>4. QED
    BY <1>1, <1>2, <1>3, Zenon DEF Return, Removed, Acting, ActTx

LEMMA ReturnTyped ==
    ASSUME Typed, Phases, Return
    PROVE  Typed' /\ Counts
<1>1. call.at = "return" /\ UNCHANGED <<root, held, taken>>
    BY ReturnCases
<1>2. CASE Forgotten /\ UNCHANGED <<drafts, sent, spent>>
    BY <1>1, <1>2, NothingCounts, FileTypes, ForgottenTyped
<1>3. CASE /\ phase' = IF call.result = "pending" THEN "pending" ELSE "ready"
           /\ call' = Idle /\ open' \in BOOLEAN
           /\ UNCHANGED <<drafts, recoverable, pending, scheduled, highest, window, spent>>
  <2>1. call.result = "pending" <=> pending # Nothing
      BY <1>1, IdleFields DEF Phases
  <2>2. QED
      BY <1>1, <1>3, <2>1, NothingCounts, IdleFields
      DEF Typed, EditsTypeOK, Counts, window
<1>4. CASE /\ call.then.do \in Acts \cup {"copy"} /\ call' = Acting(call)
           /\ UNCHANGED <<phase, pending, scheduled, highest, window>>
           /\ \/ /\ call.then.do # "lock"
                 /\ UNCHANGED <<drafts, recoverable, open, spent>>
              \/ /\ call.then.do = "lock" /\ open' = TRUE
                 /\ \E r \in RemoveFile(drafts, call.then.note) :
                      r.ok \in BOOLEAN /\ Removed(call.then.note, r)
  <2>1. call.then.do # "copy" => call.then.note \in Notes
      BY <1>4 DEF Phases
  <2>2. /\ call' \in Calls /\ call'.at = "commit" /\ call'.edit = Nothing
        /\ call'.tx \in Transactions /\ call' # Idle /\ call'.tx # Nothing
      BY <1>4, <2>1, ActingFields, IdleFields, Constants
  <2>3. /\ Counts /\ IsDirectory(drafts', DraftTypes) /\ open' \in BOOLEAN
        /\ recoverable' \in [Notes -> DraftRecords \cup {NoFile}]
    <3>1. CASE UNCHANGED <<drafts, recoverable, open, spent>>
        BY <3>1, NothingCounts, FileTypes DEF Typed, EditsTypeOK
    <3>2. CASE /\ call.then.do = "lock" /\ open' = TRUE
               /\ \E r \in RemoveFile(drafts, call.then.note) :
                      r.ok \in BOOLEAN /\ Removed(call.then.note, r)
      <4>1. PICK r \in RemoveFile(drafts, call.then.note) : Removed(call.then.note, r)
          BY <3>2
      <4>2. Faulty(r.ok)
          BY <4>1 DEF Removed
      <4>3. Counts
          BY <4>2, FaultyCounts
      <4>4. call.then.note \in Notes
          BY <2>1, <3>2
      <4>5. QED
          BY <3>2, <4>1, <4>3, <4>4, RemovedTyped DEF Removed
    <3>3. QED
        BY <1>4, <3>1, <3>2
  <2>4. QED
      BY <1>1, <1>4, <2>2, <2>3 DEF Typed, EditsTypeOK, Counts, DraftTypes, window
<1>5. QED
    BY <1>2, <1>3, <1>4, ReturnCases

\* AcceptedLibrary::retry.
LEMMA RetryCases ==
    ASSUME Typed, RetryPending
    PROVE  /\ phase = "pending" /\ call = Idle
           /\ UNCHANGED <<drafts, phase, scheduled, highest, recoverable, open, window>>
           /\ \/ /\ Faulty(FALSE) /\ pending' = [pending EXCEPT !.changed = FALSE]
                 /\ UNCHANGED <<root, held, call, taken>>
              \/ /\ Lib.now = pending.tx.candidate
                 /\ root' = Sync(root) /\ pending' = Nothing
                 /\ Accepted(pending.tx) /\ spent' = spent
              \/ /\ Lib.now \notin {pending.tx.candidate, held}
                 /\ root' = Sync(root) /\ held' = Lib.now
                 /\ pending' = [pending EXCEPT !.changed = TRUE]
                 /\ UNCHANGED <<call, taken, spent>>
              \/ /\ Lib.now = held /\ root' = Sync(root) /\ pending' = Nothing
                 /\ call' = Commits(Idle, pending.tx)
                 /\ UNCHANGED <<held, taken, spent>>
BY Zenon DEF RetryPending, Lib

LEMMA RetryTyped ==
    ASSUME Typed, RetryPending
    PROVE  Typed' /\ Counts
<1>1. /\ phase = "pending" /\ call = Idle
      /\ UNCHANGED <<drafts, phase, scheduled, highest, recoverable, open, window>>
    BY RetryCases
<1>2. pending \in [tx : Transactions, changed : BOOLEAN]
    BY <1>1 DEF Typed, EditsTypeOK
<1>3. pending.tx \in Transactions /\ pending.tx # Nothing
    BY <1>2, Constants
<1>4. IsDirectory(Sync(root), RootTypes) /\ Lib.now \in Snapshots
    BY FileTypes, SyncType
<1>5. CASE /\ Faulty(FALSE) /\ pending' = [pending EXCEPT !.changed = FALSE]
           /\ UNCHANGED <<root, held, call, taken>>
  <2>1. pending' \in [tx : Transactions, changed : BOOLEAN] /\ pending' # Nothing
      BY <1>2, <1>5, NothingIsNone
  <2>2. QED
      BY <1>1, <1>5, <2>1, FailedCounts DEF Typed, EditsTypeOK, Counts, window
<1>6. CASE /\ root' = Sync(root) /\ pending' = Nothing
           /\ Accepted(pending.tx) /\ spent' = spent
  <2>1. /\ call' \in Calls /\ call'.at = "cleanup" /\ call'.tx = pending.tx
        /\ call'.edit = Nothing /\ call' # Idle /\ held' \in Snapshots
        /\ taken' \in [Notes -> Texts]
      BY <1>1, <1>3, <1>6, AcceptedFields, IdleFields
  <2>2. QED
      BY <1>1, <1>3, <1>4, <1>6, <2>1, NothingCounts
      DEF Typed, EditsTypeOK, Counts, RootTypes, window
<1>7. CASE /\ root' = Sync(root) /\ held' = Lib.now
           /\ pending' = [pending EXCEPT !.changed = TRUE]
           /\ UNCHANGED <<call, taken, spent>>
  <2>1. pending' \in [tx : Transactions, changed : BOOLEAN] /\ pending' # Nothing
      BY <1>2, <1>7, NothingIsNone
  <2>2. QED
      BY <1>1, <1>4, <1>7, <2>1, NothingCounts
      DEF Typed, EditsTypeOK, Counts, RootTypes, window
<1>8. CASE /\ root' = Sync(root) /\ pending' = Nothing
           /\ call' = Commits(Idle, pending.tx) /\ UNCHANGED <<held, taken, spent>>
  <2>1. /\ call' \in Calls /\ call'.at = "commit" /\ call'.tx = pending.tx
        /\ call'.edit = Nothing /\ call' # Idle
      BY <1>3, <1>8, CommitsFields, IdleFields
  <2>2. QED
      BY <1>1, <1>3, <1>4, <1>8, <2>1, NothingCounts
      DEF Typed, EditsTypeOK, Counts, RootTypes, window
<1>9. QED
    BY <1>5, <1>6, <1>7, <1>8, RetryCases

\* discard_pending_state.  An edit was discarded, or could not be.
Dropped ==
    /\ phase' = "ready" /\ pending' = Nothing
    /\ taken' = [n \in Notes |-> IF n = pending.tx.note THEN held.notes[n].text
                                 ELSE taken[n]]

LEMMA DiscardCases ==
    ASSUME Typed, Open, pending # Nothing, Discard
    PROVE  LET n == pending.tx.note IN
           \/ /\ n \in Notes /\ spent' = [spent EXCEPT !["discards"] = @ + 1]
              /\ Dropped /\ review' = review \ {n}
              /\ recoverable' = [recoverable EXCEPT ![n] = NoFile]
              /\ \E r \in RemoveFile(drafts, n) : r.ok = TRUE /\ drafts' = r.dir
           \/ /\ n \in Notes /\ Faulty(FALSE)
              /\ UNCHANGED <<drafts, phase, pending, taken, recoverable, review>>
           \/ /\ spent' = [spent EXCEPT !["discards"] = @ + 1]
              /\ Dropped /\ UNCHANGED <<drafts, recoverable, review>>
<1> DEFINE n == pending.tx.note
<1>1. pending.tx \in Transactions /\ pending.tx \in OpenTx
    BY Fields DEF OpenTx
<1>2. n \in Notes \cup {Nothing} /\ (pending.tx.persisted => n # Nothing)
    BY <1>1 DEF Transactions, Open, Undecided
<1>3. CASE pending.tx.persisted
  <2>1. \E r \in RemoveFile(drafts, n) :
          /\ drafts' = r.dir
          /\ IF r.ok
             THEN /\ Spend("discards", 1) /\ Dropped
                  /\ recoverable' = [recoverable EXCEPT ![n] = NoFile]
                  /\ review' = review \ {n}
             ELSE Faulty(FALSE) /\ UNCHANGED <<phase, pending, taken, recoverable, review>>
      BY <1>3, Zenon DEF Discard, Dropped
  <2>2. PICK r \in RemoveFile(drafts, n) :
          /\ drafts' = r.dir
          /\ IF r.ok
             THEN /\ Spend("discards", 1) /\ Dropped
                  /\ recoverable' = [recoverable EXCEPT ![n] = NoFile]
                  /\ review' = review \ {n}
             ELSE Faulty(FALSE) /\ UNCHANGED <<phase, pending, taken, recoverable, review>>
      BY <2>1
  <2>3. n \in Notes /\ r.ok \in BOOLEAN /\ (~r.ok => r.dir = drafts)
      BY <1>2, <1>3, DraftRemoved
  <2>4. CASE r.ok
      BY <2>2, <2>3, <2>4 DEF Spend
  <2>5. CASE ~r.ok
      BY <2>2, <2>3, <2>5
  <2>6. QED
      BY <2>3, <2>4, <2>5
<1>4. CASE ~pending.tx.persisted
    BY <1>4 DEF Discard, Dropped, Spend
<1>5. QED
    BY <1>3, <1>4

LEMMA DiscardSpends ==
    ASSUME Typed, spent' = [spent EXCEPT !["discards"] = @ + 1]
    PROVE  /\ Counts /\ spent'["losses"] = spent["losses"]
           /\ spent'["discards"] > 0 /\ spent'["faults"] = spent["faults"]
<1>1. /\ spent \in [Counters -> Nat] /\ "discards" \in Counters
      /\ "losses" \in Counters /\ "faults" \in Counters
    BY DEF Typed, Counters
<1>2. /\ spent' \in [Counters -> Nat] /\ spent'["discards"] = spent["discards"] + 1
      /\ spent'["losses"] = spent["losses"] /\ spent'["faults"] = spent["faults"]
      /\ spent["discards"] \in Nat
    BY <1>1
<1>3. QED
    BY <1>2 DEF Counts

LEMMA DiscardTyped ==
    ASSUME Typed, Open, phase = "pending", call = Idle, Discard,
           UNCHANGED <<root, call, held, scheduled, highest, open, shown, sent>>
    PROVE  Typed' /\ Counts
<1>1. pending # Nothing
    BY DEF Typed, EditsTypeOK
<1>2. /\ taken \in [Notes -> Texts] /\ review \subseteq Notes
      /\ recoverable \in [Notes -> DraftRecords \cup {NoFile}]
      /\ \A n \in Notes : held.notes[n].text \in Texts
    BY Fields DEF Typed, EditsTypeOK
<1>3. CASE Faulty(FALSE) /\ UNCHANGED <<drafts, phase, pending, taken, recoverable, review>>
    BY <1>3, FailedCounts DEF Typed, EditsTypeOK, Counts
<1>4. CASE /\ spent' = [spent EXCEPT !["discards"] = @ + 1] /\ Dropped
           /\ \/ UNCHANGED <<drafts, recoverable, review>>
              \/ /\ pending.tx.note \in Notes /\ review' = review \ {pending.tx.note}
                 /\ recoverable' = [recoverable EXCEPT ![pending.tx.note] = NoFile]
                 /\ \E r \in RemoveFile(drafts, pending.tx.note) : drafts' = r.dir
  <2>1. Counts
      BY <1>4, DiscardSpends
  <2>2. taken' \in [Notes -> Texts] /\ phase' = "ready" /\ pending' = Nothing
      BY <1>2, <1>4 DEF Dropped
  <2>3. /\ IsDirectory(drafts', DraftTypes) /\ review' \subseteq Notes
        /\ recoverable' \in [Notes -> DraftRecords \cup {NoFile}]
      BY <1>2, <1>4, FileTypes, RemovedTyped
  <2>4. QED
      BY <2>1, <2>2, <2>3, IdleFields DEF Typed, EditsTypeOK, Counts, DraftTypes
<1>5. QED
    BY <1>1, <1>3, <1>4, DiscardCases

\* resolve_pending_conflict commits the same text in another way.
Recommitted(tx, lib) == [tx EXCEPT !.candidate = lib]

LEMMA RecommittedFields ==
    ASSUME NEW tx \in Transactions, NEW lib \in Snapshots
    PROVE  /\ Recommitted(tx, lib) \in Transactions
           /\ Recommitted(tx, lib).candidate = lib
           /\ Recommitted(tx, lib).note = tx.note
           /\ Recommitted(tx, lib).text = tx.text
           /\ Recommitted(tx, lib).persisted = tx.persisted
BY DEF Recommitted, Transactions

LEMMA ResolveCases ==
    ASSUME Typed, ResolvePendingConflict
    PROVE  LET tx == pending.tx IN
           /\ phase = "pending" /\ call = Idle /\ pending # Nothing
           /\ pending.changed = TRUE
           /\ tx \in Transactions /\ tx.note \in Notes
           /\ UNCHANGED <<root, held, scheduled, highest, open, shown, sent>>
           /\ \/ /\ pending' = Nothing
                 /\ \E lib \in {Preserved(held, tx.text), Edited(held, tx.note, tx.text)} :
                      call' = Commits(Idle, Recommitted(tx, lib))
                 /\ UNCHANGED <<drafts, phase, recoverable, review, taken, spent>>
              \/ Discard /\ call' = call
<1>1. /\ phase = "pending" /\ call = Idle /\ pending.tx.note # Nothing
      /\ UNCHANGED <<root, held, scheduled, highest, open, shown, sent>>
    BY DEF ResolvePendingConflict
<1>2. pending # Nothing
    BY <1>1 DEF Typed, EditsTypeOK
<1>3. pending.tx \in Transactions /\ pending.tx.note \in Notes
    BY <1>1, <1>2, Fields DEF Transactions
<1>4. pending.changed = TRUE
    BY <1>2, Fields DEF ResolvePendingConflict
<1>5. QED
    BY <1>1, <1>2, <1>3, <1>4 DEF ResolvePendingConflict, Recommitted

LEMMA RecommitTyped ==
    ASSUME Typed, NEW tx \in Transactions, tx.note \in Notes,
           NEW lib \in {Preserved(held, tx.text), Edited(held, tx.note, tx.text)}
    PROVE  /\ lib \in Snapshots /\ Recommitted(tx, lib) \in Transactions
           /\ Commits(Idle, Recommitted(tx, lib)) \in Calls
           /\ Commits(Idle, Recommitted(tx, lib)).at = "commit"
           /\ Commits(Idle, Recommitted(tx, lib)).edit = Nothing
           /\ Commits(Idle, Recommitted(tx, lib)).tx = Recommitted(tx, lib)
           /\ Commits(Idle, Recommitted(tx, lib)).then = Loop
<1>1. held \in Snapshots /\ tx.text \in Texts
    BY Fields DEF Transactions
<1>2. lib \in Snapshots
    BY <1>1, EditedFields, PreservedFields
<1>3. Recommitted(tx, lib) \in Transactions
    BY <1>2, RecommittedFields
<1>4. QED
    BY <1>2, <1>3, CommitsFields, IdleFields

LEMMA ResolveTyped ==
    ASSUME Typed, Open, ResolvePendingConflict
    PROVE  Typed' /\ Counts
<1> DEFINE tx == pending.tx
<1>1. /\ phase = "pending" /\ call = Idle /\ pending # Nothing
      /\ tx \in Transactions /\ tx.note \in Notes
      /\ UNCHANGED <<root, held, scheduled, highest, open, shown, sent>>
    BY ResolveCases
<1>2. CASE Discard /\ call' = call
    BY <1>1, <1>2, DiscardTyped
<1>3. CASE /\ pending' = Nothing
           /\ \E lib \in {Preserved(held, tx.text), Edited(held, tx.note, tx.text)} :
                call' = Commits(Idle, Recommitted(tx, lib))
           /\ UNCHANGED <<drafts, phase, recoverable, review, taken, spent>>
  <2>1. /\ call' \in Calls /\ call'.at = "commit" /\ call'.edit = Nothing
        /\ call'.tx \in Transactions
      BY <1>1, <1>3, RecommitTyped
  <2>2. call'.tx # Nothing /\ call' # Idle
      BY <2>1, IdleFields, Constants
  <2>3. QED
      BY <1>1, <1>3, <2>1, <2>2, NothingCounts DEF Typed, EditsTypeOK, Counts
<1>4. QED
    BY <1>2, <1>3, ResolveCases

\* DiscardDraft.
LEMMA DiscardDraftCases ==
    ASSUME Typed, NEW n \in Notes, DiscardDraft(n)
    PROVE  /\ phase = "ready" /\ call = Idle /\ n \in review /\ recoverable[n] # NoFile
           /\ UNCHANGED <<root, phase, call, held, pending, scheduled, highest, open,
                          shown, sent>>
           /\ \E r \in RemoveFile(drafts, n) :
                /\ r.ok \in BOOLEAN /\ Removed(n, r)
                /\ review' = IF r.ok THEN review \ {n} ELSE review
                /\ \/ ~r.ok /\ taken' = taken
                   \/ recoverable[n].text \in held.copies /\ taken' = taken
                   \/ taken' = [taken EXCEPT ![n] = held.notes[n].text]
<1>1. \A r \in RemoveFile(drafts, n) : r.ok \in BOOLEAN
    BY RemoveFileOutcome
<1>2. QED
    BY <1>1, Zenon DEF DiscardDraft, Removed

LEMMA DiscardDraftTyped ==
    ASSUME Typed, NEW n \in Notes, DiscardDraft(n)
    PROVE  Typed' /\ Counts
<1>1. PICK r \in RemoveFile(drafts, n) :
        /\ Removed(n, r)
        /\ review' = IF r.ok THEN review \ {n} ELSE review
        /\ \/ taken' = taken
           \/ taken' = [taken EXCEPT ![n] = held.notes[n].text]
    BY DiscardDraftCases
<1>2. Faulty(r.ok)
    BY <1>1 DEF Removed
<1>3. Counts
    BY <1>2, FaultyCounts
<1>4. /\ IsDirectory(drafts', DraftTypes)
      /\ recoverable' \in [Notes -> DraftRecords \cup {NoFile}]
    BY <1>1, RemovedTyped DEF Removed
<1>5. taken' \in [Notes -> Texts] /\ review' \subseteq Notes
    BY <1>1, Fields DEF Typed, EditsTypeOK
<1>6. QED
    BY <1>3, <1>4, <1>5, DiscardDraftCases DEF Typed, EditsTypeOK, Counts, DraftTypes

\* A step that flushes the scheduled edit for what follows.
Flushes(c) ==
    /\ c \in Continuations /\ FlushThen(c) /\ UNCHANGED <<window, taken>>
    /\ Counts /\ spent'["losses"] = spent["losses"]
    /\ c.do \in Acts => review = {} /\ c.note \in Notes

\* A step that only turns the key of the locked notes or shows the phase.
Quiet ==
    /\ UNCHANGED <<root, drafts, phase, call, held, pending, scheduled, highest,
                   recoverable, review, sent, taken, spent>>
    /\ open' \in BOOLEAN /\ shown' \in {"ready", "pending"}

\* A step that ends the process, with what it leaves on the disk.
Ends ==
    /\ Forgotten /\ Counts /\ UNCHANGED <<held, sent, taken>>
    /\ \E d \in Midway :
          /\ \/ root' = d[1]
             \/ root' \in AfterPowerLoss(d[1]) /\ spent'["losses"] # spent["losses"]
          /\ drafts' = d[2] \/ drafts' \in AfterPowerLoss(d[2])

LEMMA FlushSteps ==
    ASSUME Typed,
           \/ Due
           \/ \E n \in Notes, act \in Acts : Apply(act, n)
           \/ \E n \in Notes : PreserveCopy(n)
           \/ FlushThen(Then("close")) /\ UNCHANGED <<window, taken, spent>>
           \/ FlushThen(Then("stop")) /\ UNCHANGED <<window, taken, spent>>
    PROVE  \E c \in Continuations : Flushes(c)
<1>1. Acts \subseteq {"touch", "trash", "lock"}
    BY EditBounds
<1>2. ASSUME NEW do \in {"loop", "close", "stop"}, FlushThen(Then(do)),
             UNCHANGED <<window, taken, spent>>
      PROVE  \E c \in Continuations : Flushes(c)
  <2>1. Then(do) \in Continuations /\ Then(do).do = do
      BY <1>2, ThenTypes DEF Actions
  <2>2. QED
      BY <1>1, <1>2, <2>1, NothingCounts DEF Flushes
<1>3. CASE Due
    BY <1>2, <1>3 DEF Due, Loop
<1>4. ASSUME NEW n \in Notes, NEW act \in Acts, Apply(act, n)
      PROVE  \E c \in Continuations : Flushes(c)
  <2> DEFINE c == ActOn(act, n, held.notes[n].rev)
  <2>0. act \in Actions /\ held.notes[n].rev \in Nat
      BY <1>1, Fields DEF Actions
  <2>1. c \in Continuations /\ c.do = act /\ c.note = n
      BY <2>0, ActOnTypes
  <2>2. /\ review = {} /\ Spend("acts", 1) /\ FlushThen(c)
        /\ UNCHANGED <<window, taken>>
      BY <1>4, Zenon DEF Apply, ActOn
  <2> HIDE DEF c
  <2>3. Counts /\ spent'["losses"] = spent["losses"]
      BY <2>2, SpendCounts DEF Counters, Spend, Typed
  <2>4. QED
      BY <2>1, <2>2, <2>3 DEF Flushes
<1>5. ASSUME NEW n \in Notes, PreserveCopy(n)
      PROVE  \E c \in Continuations : Flushes(c)
  <2> DEFINE c == CopyOf(recoverable[n].text)
  <2>1. recoverable[n] # NoFile /\ Spend("copies", 1) /\ FlushThen(c)
        /\ UNCHANGED <<window, taken>>
      BY <1>5, Zenon DEF PreserveCopy, CopyOf
  <2>2. recoverable[n].text \in Texts
      BY <2>1, Fields DEF DraftRecords
  <2>3. c \in Continuations /\ c.do = "copy" /\ c.do \notin Acts
      BY <1>1, <2>2, CopyOfTypes
  <2> HIDE DEF c
  <2>4. Counts /\ spent'["losses"] = spent["losses"]
      BY <2>1, SpendCounts DEF Counters, Spend, Typed
  <2>5. QED
      BY <2>1, <2>3, <2>4 DEF Flushes
<1>6. QED
    BY <1>2, <1>3, <1>4, <1>5

LEMMA MidwayCases ==
    ASSUME Typed, NEW d \in Midway
    PROVE  \/ d[1] = root /\ d[2] = drafts
           \/ /\ call.at = "commit" /\ d[2] = drafts
              /\ \E r \in SaveResults(call.tx.candidate) : d[1] = r.dir
           \/ /\ call.at = "commit_edit" /\ ~held.notes[call.edit.note].locked
              /\ d[1] = root
              /\ \E r \in WriteVerified(drafts, call.edit.note, EditDraft(call.edit)) :
                    d[2] = r.dir
BY DEF Midway, EditDraft

LEMMA EndSteps ==
    ASSUME Typed,
           \/ Forgotten /\ UNCHANGED <<root, drafts, held, sent, taken, spent>>
           \/ Kill \/ PowerLoss
    PROVE  Ends
<1>1. "kills" \in Counters /\ "losses" \in Counters /\ spent \in [Counters -> Nat]
    BY DEF Counters, Typed
<1>2. CASE Forgotten /\ UNCHANGED <<root, drafts, held, sent, taken, spent>>
  <2> DEFINE d == <<root, drafts>>
  <2>1. d \in Midway /\ root' = d[1] /\ drafts' = d[2]
      BY <1>2 DEF Midway
  <2> HIDE DEF d
  <2>2. QED
      BY <1>2, <2>1, NothingCounts DEF Ends
<1>3. CASE Kill
  <2>1. /\ Spend("kills", 1) /\ Forgotten /\ UNCHANGED <<held, sent, taken>>
        /\ \E d \in Midway : root' = d[1] /\ drafts' = d[2]
      BY <1>3, Zenon DEF Kill
  <2>2. Counts
      BY <1>1, <2>1, SpendCounts
  <2>3. QED
      BY <2>1, <2>2, Zenon DEF Ends
<1>4. CASE PowerLoss
  <2>1. /\ Spend("losses", 1) /\ Forgotten /\ UNCHANGED <<held, sent, taken>>
        /\ \E d \in Midway : root' \in AfterPowerLoss(d[1]) /\ drafts' \in AfterPowerLoss(d[2])
      BY <1>4, Zenon DEF PowerLoss
  <2>2. Counts /\ spent'["losses"] = spent["losses"] + 1
      BY <1>1, <2>1, SpendCounts
  <2>3. spent'["losses"] # spent["losses"]
      BY <1>1, <2>2
  <2>4. QED
      BY <2>1, <2>2, <2>3 DEF Ends
<1>5. QED
    BY <1>2, <1>3, <1>4

\* What an ended process may leave of the library and of each draft.
EndRoot ==
    \/ Images(Lib') \subseteq Images(Lib)
    \/ /\ call.at = "commit" /\ Lib.now = held
       /\ call.tx.candidate.rev = held.rev + 1
       /\ Images(Lib') \subseteq Images(Lib) \cup {call.tx.candidate}
EndDrafts ==
    \A n \in Notes :
       \/ Images(drafts'[n]) \subseteq Images(drafts[n])
       \/ /\ call.at = "commit_edit" /\ n = call.edit.note /\ ~held.notes[n].locked
          /\ Images(Lib') \subseteq Images(Lib)
          /\ Images(drafts'[n]) \subseteq Images(drafts[n]) \cup {EditDraft(call.edit)}
EndNow ==
    spent'["losses"] = spent["losses"] =>
       \/ Lib'.now = Lib.now
       \/ /\ call.at = "commit" /\ Lib.now = held
          /\ call.tx.candidate.rev = held.rev + 1 /\ Lib'.now = call.tx.candidate

LEMMA EndDisk ==
    ASSUME Typed, Ends
    PROVE  /\ IsDirectory(root', RootTypes) /\ IsDirectory(drafts', DraftTypes)
           /\ EndRoot /\ EndDrafts /\ EndNow
<1>1. PICK d \in Midway :
        /\ \/ root' = d[1]
           \/ root' \in AfterPowerLoss(d[1]) /\ spent'["losses"] # spent["losses"]
        /\ drafts' = d[2] \/ drafts' \in AfterPowerLoss(d[2])
    BY DEF Ends
<1>2. IsDirectory(root, RootTypes) /\ IsDirectory(drafts, DraftTypes)
    BY FileTypes
<1>3. call.at = "commit" => call.tx.candidate \in Snapshots
    BY Fields DEF Typed, EditsTypeOK, Transactions
<1>4. call.at = "commit_edit" =>
        /\ call.edit \in Edits /\ call.edit.note \in Notes
        /\ EditDraft(call.edit) \in DraftRecords
  <2>1. call.at = "commit_edit" => call.edit \in Edits
      BY Fields DEF Typed, EditsTypeOK
  <2>2. QED
      BY <2>1, EditFields
<1> DEFINE cand == call.tx.candidate
           saved == /\ call.at = "commit" /\ Lib.now = held /\ cand.rev = held.rev + 1
           drafted == call.at = "commit_edit" /\ ~held.notes[call.edit.note].locked
<1>5. /\ IsDirectory(d[1], RootTypes)
      /\ \/ d[1] = root
         \/ /\ saved /\ d[1]["library"].now = cand
            /\ Images(d[1]["library"]) \subseteq Images(Lib) \cup {cand}
  <2>1. CASE d[1] = root
      BY <1>2, <2>1
  <2>2. CASE /\ call.at = "commit"
             /\ \E r \in SaveResults(cand) : d[1] = r.dir
      BY <1>3, <2>2, SaveImages
  <2>3. QED
      BY <2>1, <2>2, MidwayCases
<1>6. /\ IsDirectory(d[2], DraftTypes)
      /\ \/ d[2] = drafts
         \/ /\ drafted /\ d[1] = root
            /\ Images(d[2][call.edit.note])
                 \subseteq Images(drafts[call.edit.note]) \cup {EditDraft(call.edit)}
            /\ \A m \in Notes \ {call.edit.note} : Images(d[2][m]) \subseteq Images(drafts[m])
  <2>1. CASE d[2] = drafts
      BY <1>2, <2>1
  <2>2. CASE /\ drafted /\ d[1] = root
             /\ \E r \in WriteVerified(drafts, call.edit.note, EditDraft(call.edit)) :
                    d[2] = r.dir
    <3> DEFINE n == call.edit.note
               draft == EditDraft(call.edit)
    <3>1. PICK r \in WriteVerified(drafts, n, draft) : d[2] = r.dir
        BY <2>2
    <3>2. n \in Notes /\ draft \in DraftRecords
        BY <1>4, <2>2
    <3> HIDE DEF n, draft
    <3>3. /\ IsDirectory(r.dir, DraftTypes)
          /\ Images(r.dir[n]) \subseteq Images(drafts[n]) \cup {draft}
          /\ \A m \in Notes \ {n} : Images(r.dir[m]) \subseteq Images(drafts[m])
        BY <3>2, DraftWritten
    <3>4. QED
        BY <2>2, <3>1, <3>3 DEF n, draft
  <2>3. QED
      BY <2>1, <2>2, MidwayCases
<1>7. /\ IsDirectory(root', RootTypes)
      /\ Images(Lib') \subseteq Images(d[1]["library"])
  <2>1. DOMAIN d[1] = {"library"}
      BY <1>5 DEF IsDirectory, RootTypes
  <2>2. QED
      BY <1>1, <1>5, <2>1, LossImages, PowerLossType DEF Lib
<1>8. /\ IsDirectory(drafts', DraftTypes)
      /\ \A n \in Notes : Images(drafts'[n]) \subseteq Images(d[2][n])
  <2>1. DOMAIN d[2] = Notes
      BY <1>6 DEF IsDirectory, DraftTypes
  <2>2. QED
      BY <1>1, <1>6, <2>1, LossImages, PowerLossType
<1>9. EndRoot
    BY <1>5, <1>7 DEF EndRoot, Lib
<1>10. EndDrafts
    BY <1>6, <1>7, <1>8 DEF EndDrafts, Lib
<1>11. EndNow
    BY <1>1, <1>5 DEF EndNow, Lib
<1>12. QED
    BY <1>7, <1>8, <1>9, <1>10, <1>11

LEMMA EndTyped ==
    ASSUME Typed, Ends
    PROVE  Typed'
BY EndDisk, ForgottenTyped DEF Ends

\* Every step of the model is one of these.
Steps ==
    \/ Start \/ CommitEdit \/ CommitTransaction \/ CleanupDraft \/ Return
    \/ \E n \in Notes, g \in Generations : Type(n, g) \/ RestoreDraft(n, g)
    \/ \E c \in Continuations : Flushes(c)
    \/ Quiet \/ Ends
    \/ RetryPending \/ DiscardPending \/ ResolvePendingConflict
    \/ \E n \in Notes : DiscardDraft(n)

LEMMA NextSteps ==
    ASSUME Typed, [Next]_vars
    PROVE  Steps
<1>1. open \in BOOLEAN /\ shown \in {"ready", "pending"}
    BY DEF Typed, EditsTypeOK
<1>2. CASE UNCHANGED vars
    BY <1>1, <1>2 DEF vars, Steps, Quiet
<1>3. CASE CloseLockedNotes
  <2>1. CASE FlushThen(Then("close")) /\ UNCHANGED <<window, taken, spent>>
      BY <2>1, FlushSteps DEF Steps
  <2>2. CASE /\ open' = FALSE
             /\ UNCHANGED <<disk, phase, call, held, pending, scheduled, highest,
                            recoverable>>
             /\ UNCHANGED <<window, taken, spent>>
      BY <1>1, <2>2 DEF Steps, Quiet, disk, window
  <2>3. /\ \/ FlushThen(Then("close"))
           \/ /\ open' = FALSE
              /\ UNCHANGED <<disk, phase, call, held, pending, scheduled, highest,
                             recoverable>>
        /\ UNCHANGED <<window, taken, spent>>
      BY <1>3, Zenon DEF CloseLockedNotes
  <2>4. QED
      BY <2>1, <2>2, <2>3, Zenon
<1>4. CASE UnlockNotes
    BY <1>1, <1>4 DEF UnlockNotes, Steps, Quiet, disk, window
<1>5. CASE See
  <2>1. phase \in {"ready", "pending"}
      BY <1>5 DEF See, Typed, EditsTypeOK
  <2>2. QED
      BY <1>1, <1>5, <2>1 DEF See, Steps, Quiet, disk, worker
<1>6. CASE Shutdown
  <2>1. CASE FlushThen(Then("stop")) /\ UNCHANGED <<window, taken, spent>>
      BY <2>1, FlushSteps DEF Steps
  <2>2. CASE Forgotten /\ UNCHANGED <<disk, held, sent, taken, spent>>
      BY <2>2, EndSteps DEF Steps, disk
  <2>3. QED
      BY <1>6, <2>1, <2>2 DEF Shutdown
<1>7. CASE Kill \/ PowerLoss
    BY <1>7, EndSteps DEF Steps
<1>8. CASE \/ Due
           \/ \E n \in Notes, act \in Acts : Apply(act, n)
           \/ \E n \in Notes : PreserveCopy(n)
    BY <1>8, FlushSteps DEF Steps
<1>9. CASE \/ Start \/ Step
           \/ \E n \in Notes, g \in Generations : Type(n, g) \/ RestoreDraft(n, g)
           \/ RetryPending \/ DiscardPending \/ ResolvePendingConflict
           \/ \E n \in Notes : DiscardDraft(n)
    BY <1>9 DEF Steps, Step
<1>10. QED
    BY <1>2, <1>3, <1>4, <1>5, <1>6, <1>7, <1>8, <1>9, Zenon DEF Next

LEMMA StepTyped ==
    ASSUME Typed, Phases, Open, Steps
    PROVE  Typed' /\ Counts
<1>1. ASSUME NEW n \in Notes, NEW g \in Generations, Type(n, g) \/ RestoreDraft(n, g)
      PROVE  Typed' /\ Counts
    BY <1>1, EditsScheduled, ScheduleTyped
<1>2. ASSUME NEW c \in Continuations, Flushes(c)
      PROVE  Typed' /\ Counts
    BY <1>2, FlushTyped DEF Flushes
<1>3. CASE Quiet
    BY <1>3, NothingCounts DEF Quiet, Typed, EditsTypeOK, Counts
<1>4. CASE Ends
    BY <1>4, EndTyped DEF Ends
<1>5. CASE DiscardPending
    BY <1>5, DiscardTyped DEF DiscardPending
<1>6. QED
    BY <1>1, <1>2, <1>3, <1>4, <1>5, StartTyped, CommitEditTyped, CommitTyped,
       CleanupTyped, ReturnTyped, RetryTyped, ResolveTyped, DiscardDraftTyped
    DEF Steps

-----------------------------------------------------------------------------
(* What follows from the invariant *)

LEMMA SnapshotFields ==
    ASSUME NEW lib \in Snapshots
    PROVE  /\ lib.rev \in Nat
           /\ \A n \in Notes : lib.notes[n].rev \in Nat /\ lib.notes[n].text \in Nat
BY Constants DEF Snapshots, NoteRecords

LEMMA LiveTypes ==
    ASSUME Typed
    PROVE  /\ OpenTx \subseteq Transactions /\ Live \subseteq Snapshots
           /\ held \in Live /\ Lib.now \in Live /\ Images(Lib) \subseteq Live
           /\ \A tx \in OpenTx : tx.candidate \in Live /\ tx.text \in Nat
           /\ Lib.now \in Snapshots /\ held \in Snapshots
           /\ \A lib \in Live : /\ lib.rev \in Nat
                                /\ \A n \in Notes : /\ lib.notes[n].rev \in Nat
                                                    /\ lib.notes[n].text \in Nat
<1>1. OpenTx \subseteq Transactions
    BY Fields DEF OpenTx, Typed, EditsTypeOK
<1>2. \A tx \in OpenTx : tx.candidate \in Snapshots /\ tx.text \in Nat
    BY <1>1, Constants DEF Transactions
<1>3. Live \subseteq Snapshots
    BY <1>2, Fields, FileTypes DEF Live
<1>4. QED
    BY <1>1, <1>2, <1>3, Fields, FileTypes, SnapshotFields DEF Live

\* A candidate keeps what the held snapshot keeps.
LEMMA FollowsKept ==
    ASSUME Typed, NEW n \in Notes, NEW h \in Snapshots, NEW x \in Snapshots,
           Follows(h, x), Kept(n, h)
    PROVE  Kept(n, x)
BY SnapshotFields, Fields DEF Follows, Kept

\* No revision and no text of a note goes back, and an unchanged revision means
\* an unchanged note.
LEMMA FollowsOrder ==
    ASSUME NEW n \in Notes, NEW h \in Snapshots, NEW x \in Snapshots, Follows(h, x)
    PROVE  /\ h.notes[n].rev <= x.notes[n].rev /\ h.notes[n].text <= x.notes[n].text
           /\ x.notes[n].rev = h.notes[n].rev => x.notes[n] = h.notes[n]
           /\ h.notes[n].locked => x.notes[n].locked
BY SnapshotFields DEF Follows

\* What the held library keeps, every library on the disk keeps.
LEMMA HeldKept ==
    ASSUME Typed, OnRoot, phase # "stopped", NEW n \in Notes, Kept(n, held)
    PROVE  \A lib \in Images(Lib) : Kept(n, lib)
BY LiveTypes, FollowsKept DEF OnRoot

\* Old texts stay old as generations are used up.
LEMMA OldStays ==
    ASSUME Typed, NEW t \in Nat, Old(t), sent \subseteq sent', highest \in Nat,
           highest' \in Nat, highest <= highest', phase # "stopped"
    PROVE  Old(t)'
BY Constants DEF Old

\* The rest of the invariant holds after a step; x keeps what a note had.
Rest == OnRoot /\ Open /\ Underway /\ Reviewed /\ DraftOrder /\ Aged /\ Survival /\ Faultless

(***************************************************************************)
(* A step that moves neither the library nor a draft, except that those of *)
(* the note n (if it is one) may be removed, once n is kept everywhere.    *)
(***************************************************************************)
Settles(n) ==
    /\ phase # "stopped" /\ phase' # "stopped" /\ UNCHANGED <<root, held>>
    /\ sent \subseteq sent' /\ highest' \in Nat /\ highest <= highest'
    /\ OpenTx' \subseteq OpenTx
    /\ \A tx \in OpenTx : tx \in OpenTx' \/ tx.note \notin Notes \ {n}
    /\ \A m \in Notes \ {n} : /\ drafts'[m] = drafts[m]
                              /\ recoverable'[m] = recoverable[m]
                              /\ taken'[m] = taken[m]
    /\ review' \subseteq review /\ review \subseteq review' \cup {n}
    /\ n \in Notes =>
          /\ Images(drafts'[n]) \subseteq Images(drafts[n]) \cup {NoFile}
          /\ recoverable'[n] \in {recoverable[n], NoFile}
          /\ n \in review' => recoverable'[n] = recoverable[n]
          /\ \A lib \in Live' : Kept(n, lib)'
          /\ spent'["faults"] = 0 => drafts'[n].now = NoFile /\ recoverable'[n] = NoFile
    /\ \/ pending' = pending
       \/ pending # Nothing /\ pending' # Nothing /\ ~pending'.changed
       \/ pending' = Nothing /\ spent'["discards"] > 0
    /\ call'.at # "cleanup"
    /\ scheduled' = scheduled \/ scheduled' = Nothing \/ OpenTx' = {}
    /\ scheduled' # Nothing /\ call'.edit # Nothing =>
          scheduled'.note # call'.edit.note

\* An edit that was scheduled already, or is not older than what it replaces.
Welcome(edit) ==
    \/ edit \in Scheduled
    \/ /\ edit.note \in Notes /\ edit.text \in Nat /\ NotOlder(edit.note, edit.text)
       /\ edit.note \in review => edit.text = recoverable[edit.note].text
       /\ Old(edit.text)'

LEMMA SettlesFacts ==
    ASSUME EditsInv, Counts, NEW n, Settles(n)
    PROVE  /\ Live' \subseteq Live /\ Lib' = Lib
           /\ \A t \in Nat : Old(t) => Old(t)'
           /\ \A m \in Notes \ {n}, lib \in Live : Kept(m, lib) => Kept(m, lib)'
           /\ \A m \in review' : m \in review /\ recoverable'[m] = recoverable[m]
           /\ \A m \in Notes : /\ Images(drafts'[m]) \subseteq Images(drafts[m]) \cup {NoFile}
                               /\ recoverable'[m] \in {recoverable[m], NoFile}
<1>1. Typed
    BY DEF EditsInv
<1>2. Live' \subseteq Live /\ Lib' = Lib
    BY DEF Settles, Live, Lib
<1>3. highest \in Nat
    BY <1>1, Constants DEF Typed, EditsTypeOK
<1>4. \A t \in Nat : Old(t) => Old(t)'
    BY <1>1, <1>3, OldStays DEF Settles
<1>5. spent["discards"] > 0 => spent'["discards"] > 0
    BY <1>1 DEF Counts, Typed, Counters
<1>6. \A m \in Notes \ {n}, lib \in Live : Kept(m, lib) => Kept(m, lib)'
    BY <1>5 DEF Kept, Settles
<1>7. review \subseteq Notes
    BY <1>1, Fields
<1>8. QED
    BY <1>2, <1>4, <1>6, <1>7 DEF Settles

LEMMA SettledRoot ==
    ASSUME EditsInv, Typed', Counts, NEW n, Settles(n)
    PROVE  (OnRoot /\ DraftOrder)'
<1>1. Lib' = Lib /\ held' = held
    BY SettlesFacts DEF Settles
<1>2. OnRoot'
  <2>1. spent["discards"] > 0 => spent'["discards"] > 0
      BY DEF EditsInv, Counts, Typed, Counters
  <2>2. QED
      BY <1>1, <2>1 DEF EditsInv, OnRoot, Settles
<1>3. DraftOrder'
    BY <1>1, SettlesFacts DEF EditsInv, DraftOrder
<1>4. QED
    BY <1>2, <1>3

LEMMA SettledEdits ==
    ASSUME EditsInv, Typed', Counts, NEW n, Settles(n),
           \A edit \in Scheduled' : Welcome(edit)
    PROVE  (Open /\ Underway /\ Reviewed)'
<1>1. held' = held /\ Live' \subseteq Live
    BY SettlesFacts DEF Settles
<1>2. \A m, t : NotOlder(m, t) => NotOlder(m, t)'
    BY <1>1 DEF NotOlder
<1>3. Open'
  <2>1. ASSUME NEW tx \in OpenTx'
        PROVE  Undecided(tx)'
    <3>1. tx \in OpenTx /\ Undecided(tx)
        BY DEF Settles, EditsInv, Open
    <3>2. QED
        BY <1>1, <1>2, <2>1, <3>1, SettlesFacts DEF Settles, Undecided
  <2>2. QED
      BY <2>1 DEF Open
<1>4. Underway'
    BY <1>2, SettlesFacts DEF EditsInv, Underway, Welcome, Settles
<1>5. Reviewed'
    BY <1>1, <1>2, SettlesFacts DEF EditsInv, Reviewed
<1>6. QED
    BY <1>3, <1>4, <1>5

LEMMA SettledAged ==
    ASSUME EditsInv, Typed', Counts, NEW n, Settles(n),
           \A edit \in Scheduled' : Welcome(edit)
    PROVE  Aged'
<1>1. Typed /\ Aged
    BY DEF EditsInv
<1>2. \A m \in Notes, lib \in Live' : Old(lib.notes[m].text)'
    BY <1>1, LiveTypes, SettlesFacts DEF Aged
<1>3. \A m \in Notes : \A draft \in Images(drafts'[m]) \ {NoFile} : Old(draft.text)'
  <2>1. \A m \in Notes : \A draft \in Images(drafts[m]) \ {NoFile} :
          draft.text \in Nat /\ Old(draft.text)
      BY <1>1, FileTypes, Constants DEF Aged, DraftRecords
  <2>2. QED
      BY <2>1, SettlesFacts
<1>4. (\A m \in Notes : recoverable[m] # NoFile => Old(recoverable[m].text))'
  <2>1. \A m \in Notes : recoverable[m] # NoFile =>
          recoverable[m].text \in Nat /\ Old(recoverable[m].text)
      BY <1>1, Fields, Constants DEF Aged, DraftRecords
  <2>2. QED
      BY <2>1, SettlesFacts
<1>5. \A edit \in Scheduled' : Old(edit.text)'
  <2>1. \A edit \in Scheduled : edit.text \in Nat /\ Old(edit.text)
      BY <1>1, Fields, Constants DEF Aged, Scheduled, Edits
  <2>2. QED
      BY <2>1, SettlesFacts DEF Welcome
<1>6. \A tx \in OpenTx' : Old(tx.text)'
    BY <1>1, LiveTypes, SettlesFacts DEF Aged, Settles
<1>7. QED
    BY <1>2, <1>3, <1>4, <1>5, <1>6 DEF Aged

LEMMA SettledSurvival ==
    ASSUME EditsInv, Typed', Counts, NEW n, Settles(n)
    PROVE  Survival'
<1>1. Typed /\ Typed' /\ Survival
    BY DEF EditsInv
<1>2. Images(Lib') \subseteq Live' /\ held' \in Live'
    BY <1>1, LiveTypes DEF Live, Lib
<1>3. ASSUME NEW m \in Notes \ {n}
      PROVE  Survives(m)'
  <2>1. Survives(m) /\ Images(Lib) \subseteq Live /\ held \in Live
      BY <1>1, LiveTypes DEF Survival
  <2>2. \A lib \in Live : Kept(m, lib) => Kept(m, lib)'
      BY SettlesFacts
  <2>3. /\ drafts'[m] = drafts[m] /\ recoverable'[m] = recoverable[m]
        /\ taken'[m] = taken[m] /\ (m \in review => m \in review')
        /\ phase # "stopped" /\ held' = held /\ Lib' = Lib /\ Live' \subseteq Live
        /\ \A tx \in OpenTx : tx.note = m => tx \in OpenTx'
      BY SettlesFacts DEF Settles
  <2>4. \/ \A lib \in Images(Lib') : Kept(m, lib)'
        \/ \A draft \in Images(drafts'[m]) : draft # NoFile /\ draft.text = taken'[m]
      BY <2>1, <2>2, <2>3 DEF Survives
  <2>5. /\ \A lib \in Live' : lib.notes[m].locked => Kept(m, lib)'
        /\ \A lib \in Images(Lib') : lib.notes[m].locked => Kept(m, lib)'
      BY <2>1, <2>2, <2>3 DEF Survives
  <2>6. \/ Kept(m, held)'
        \/ m \in review' /\ recoverable'[m].text = taken'[m]
        \/ \E tx \in OpenTx' : tx.note = m /\ tx.text = taken'[m]
      BY <2>1, <2>2, <2>3 DEF Survives
  <2>7. QED
      BY <2>4, <2>5, <2>6 DEF Survives
<1>4. ASSUME n \in Notes
      PROVE  Survives(n)'
    BY <1>2, <1>4 DEF Survives, Settles
<1>5. QED
    BY <1>3, <1>4 DEF Survival, Settles

LEMMA SettledFaultless ==
    ASSUME EditsInv, Typed', Counts, NEW n, Settles(n)
    PROVE  Faultless'
<1> SUFFICES ASSUME spent'["faults"] = 0
             PROVE  Clean'
    BY DEF Faultless
<1>1. Clean /\ phase # "stopped"
    BY DEF EditsInv, Faultless, Counts, Settles
<1>2. /\ pending' = Nothing /\ Lib' = Lib /\ held' = held
      /\ OpenTx' \subseteq OpenTx
    BY <1>1, SettlesFacts DEF Clean, Settles
<1>3. ASSUME NEW m \in Notes
      PROVE  /\ drafts'[m].now \in {drafts[m].now, NoFile}
             /\ recoverable'[m] # NoFile =>
                   recoverable'[m] = recoverable[m] /\ drafts'[m].now = drafts[m].now
    BY DEF Settles
<1>4. QED
    BY <1>1, <1>2, <1>3 DEF Clean

LEMMA Settled ==
    ASSUME EditsInv, Typed', Counts, NEW n, Settles(n),
           \A edit \in Scheduled' : Welcome(edit)
    PROVE  Rest'
BY SettledRoot, SettledEdits, SettledAged, SettledSurvival, SettledFaultless DEF Rest

\* The invariant beyond the types.
Beyond == Phases /\ Rest

LEMMA FlushBeyond ==
    ASSUME EditsInv, Typed', NEW c \in Continuations, Flushes(c)
    PROVE  Beyond'
<1>1. /\ Typed /\ Counts /\ phase = "ready" /\ call = Idle /\ scheduled' = Nothing
      /\ UNCHANGED <<root, drafts, phase, held, pending, highest, recoverable, review,
                     sent, taken>>
    BY DEF EditsInv, Flushes, FlushThen, window
<1>2. pending = Nothing
    BY <1>1 DEF Typed, EditsTypeOK
<1>3. /\ call'.at \in {"return", "commit_edit"} /\ call'.then = c
      /\ call'.edit = scheduled /\ call'.result = "ready"
    BY <1>1, FlushTyped DEF Flushes
<1>4. OpenTx = {} /\ OpenTx' = {}
    BY <1>1, <1>2, <1>3, IdleFields DEF OpenTx
<1>5. Scheduled' \subseteq Scheduled
    BY <1>1, <1>3 DEF Scheduled
<1>6. Settles(Nothing)
  <2>1. highest \in Nat /\ Nothing \notin Notes
      BY <1>1, Constants DEF Typed, EditsTypeOK
  <2>2. QED
      BY <1>1, <1>3, <1>4, <2>1 DEF Settles
<1>7. Rest'
    BY <1>1, <1>5, <1>6, Settled DEF Welcome
<1>8. Phases'
    BY <1>1, <1>2, <1>3 DEF Phases, Flushes
<1>9. QED
    BY <1>7, <1>8 DEF Beyond

LEMMA QuietBeyond ==
    ASSUME EditsInv, Quiet
    PROVE  Beyond'
<1>1. UNCHANGED <<root, drafts, phase, call, held, pending, scheduled, highest,
                  recoverable, review, sent, taken, spent>>
    BY DEF Quiet
<1>2. /\ Lib' = Lib /\ OpenTx' = OpenTx /\ Scheduled' = Scheduled /\ Live' = Live
    BY <1>1 DEF Lib, OpenTx, Scheduled, Live
<1>3. /\ \A n, t : NotOlder(n, t)' <=> NotOlder(n, t)
      /\ \A t : Old(t)' <=> Old(t)
      /\ \A n, lib : Kept(n, lib)' <=> Kept(n, lib)
    BY <1>1, <1>2 DEF NotOlder, Old, Kept
<1>4. Phases' /\ OnRoot'
    BY <1>1, <1>2 DEF EditsInv, Phases, OnRoot
<1>5. Open'
    BY <1>1, <1>2, <1>3 DEF EditsInv, Open, Undecided
<1>6. Underway' /\ Reviewed' /\ DraftOrder'
    BY <1>1, <1>2, <1>3 DEF EditsInv, Underway, Reviewed, DraftOrder
<1>7. Aged'
    BY <1>1, <1>2, <1>3 DEF EditsInv, Aged
<1>8. Survival'
    BY <1>1, <1>2, <1>3 DEF EditsInv, Survival, Survives
<1>9. Faultless'
    BY <1>1, <1>2 DEF EditsInv, Faultless, Clean
<1>10. QED
    BY <1>4, <1>5, <1>6, <1>7, <1>8, <1>9 DEF Beyond, Rest

\* A new text is newer than every other; the text of a draft under review is not
\* older than the note it is based on.
LEMMA ScheduleBeyond ==
    ASSUME EditsInv, Typed', NEW n \in Notes, NEW g \in Generations,
           Type(n, g) \/ RestoreDraft(n, g)
    PROVE  Beyond'
<1>1. PICK edit \in Edits :
        /\ ScheduleEdit(edit) /\ edit.note = n /\ edit.gen = g
        /\ \/ review = {} /\ edit.text = g
           \/ /\ n \in review /\ recoverable[n] # NoFile
              /\ Applicable(recoverable[n], held.notes[n])
              /\ edit.text = recoverable[n].text
    BY EditsScheduled DEF EditsInv
<1>2. Typed /\ Counts /\ edit.text \in Nat /\ g \in Nat
    BY <1>1, ScheduleCases, NothingCounts, Constants DEF EditsInv, Edits
<1>3. /\ call = Idle /\ phase # "stopped" /\ g \notin sent
      /\ sent' = sent \cup {g}
      /\ UNCHANGED <<root, drafts, phase, held, pending, recoverable, open, shown,
                     review, taken, spent>>
      /\ \/ UNCHANGED <<highest, scheduled, call>>
         \/ /\ phase = "ready" /\ g > highest
            /\ highest' = g /\ scheduled' = edit
            /\ \/ call' = Idle /\ (scheduled = Nothing \/ scheduled.note = edit.note)
               \/ /\ scheduled # Nothing /\ scheduled.note # edit.note
                  /\ call' = Flush("commit_edit", scheduled, Loop)
    BY <1>1, <1>2, ScheduleCases
<1>4. highest \in Nat /\ scheduled \in Edits \cup {Nothing} /\ Nothing \notin Edits
    BY <1>2, Constants DEF Typed, EditsTypeOK
<1>5. CASE UNCHANGED <<highest, scheduled, call>>
  <2>1. OpenTx' = OpenTx /\ Scheduled' = Scheduled
      BY <1>3, <1>5 DEF OpenTx, Scheduled
  <2>2. call.at = "idle" /\ call.edit = Nothing
      BY <1>3, IdleFields
  <2>3. Settles(Nothing)
      BY <1>3, <1>4, <1>5, <2>1, <2>2, Constants DEF Settles
  <2>4. Rest'
      BY <1>2, <2>1, <2>3, Settled DEF Welcome
  <2>5. Phases'
      BY <1>3, <1>5 DEF EditsInv, Phases
  <2>6. QED
      BY <2>4, <2>5 DEF Beyond
<1>6. CASE /\ phase = "ready" /\ g > highest /\ highest' = g /\ scheduled' = edit
           /\ \/ call' = Idle
              \/ /\ scheduled # Nothing /\ scheduled.note # edit.note
                 /\ call' = Flush("commit_edit", scheduled, Loop)
  <2>1. /\ call'.at \in {"idle", "commit_edit"} /\ call'.then = Loop
        /\ call'.result = "ready"
        /\ \/ call'.edit = Nothing
           \/ call'.edit = scheduled /\ scheduled.note # edit.note
        /\ call'.at = "idle" => call' = Idle
      BY <1>4, <1>6, FlushFields, IdleFields
  <2>2. pending = Nothing /\ pending' = Nothing
      BY <1>2, <1>3, <1>6 DEF Typed, EditsTypeOK
  <2>3. OpenTx = {} /\ OpenTx' = {} /\ Live = Images(Lib) \cup {held}
      BY <1>3, <2>1, <2>2, IdleFields DEF OpenTx, Live
  <2>4. Settles(Nothing)
      BY <1>3, <1>4, <1>6, <2>1, <2>2, <2>3, Constants, <1>2 DEF Settles
  <2>5. Welcome(edit)
    <3>1. \A lib \in Live : lib.notes[n].text \in Nat
        BY <1>2, LiveTypes
    <3>2. CASE review = {} /\ edit.text = g
      <4>1. \A lib \in Live : Old(lib.notes[n].text)
          BY DEF EditsInv, Aged
      <4>2. \A lib \in Live : lib.notes[n].text < g
          BY <1>3, <1>6, <4>1 DEF Old
      <4>3. NotOlder(n, g)
          BY <1>2, <3>1, <4>2 DEF NotOlder
      <4>4. Old(g)'
          BY <1>2, <1>3, <1>4, <1>6, Constants DEF Old
      <4>5. QED
          BY <1>1, <1>2, <3>2, <4>3, <4>4 DEF Welcome
    <3>3. CASE /\ n \in review /\ recoverable[n] # NoFile
               /\ Applicable(recoverable[n], held.notes[n])
               /\ edit.text = recoverable[n].text
      <4>1. NotOlder(n, edit.text)
          BY <3>3 DEF EditsInv, Reviewed, Applicable
      <4>2. Old(edit.text)
          BY <3>3 DEF EditsInv, Aged
      <4>3. Old(edit.text)'
          BY <1>2, <1>3, <1>4, <1>6, <4>2, OldStays
      <4>4. QED
          BY <1>1, <1>2, <3>3, <4>1, <4>3 DEF Welcome
    <3>4. QED
        BY <1>1, <3>2, <3>3
  <2>6. \A e \in Scheduled' : Welcome(e)
      BY <1>6, <2>1, <2>5 DEF Scheduled, Welcome
  <2>7. Rest'
      BY <1>2, <2>4, <2>6, Settled
  <2>8. Phases'
      BY <1>3, <1>6, <2>1, <2>2, IdleFields, EditBounds DEF Phases
  <2>9. QED
      BY <2>7, <2>8 DEF Beyond
<1>7. QED
    BY <1>3, <1>5, <1>6

\* A draft is removed, or nothing is.
LEMMA RemovedFacts ==
    ASSUME Typed, NEW n \in Notes, NEW r \in RemoveFile(drafts, n), Removed(n, r)
    PROVE  /\ Counts /\ r.ok \in BOOLEAN
           /\ Images(drafts'[n]) \subseteq Images(drafts[n]) \cup {NoFile}
           /\ r.ok => drafts'[n].now = NoFile /\ recoverable'[n] = NoFile
           /\ ~r.ok => /\ drafts' = drafts /\ recoverable' = recoverable
                       /\ spent'["faults"] # 0
           /\ recoverable'[n] \in {recoverable[n], NoFile}
           /\ \A m \in Notes \ {n} : /\ drafts'[m] = drafts[m]
                                     /\ recoverable'[m] = recoverable[m]
<1>1. Faulty(r.ok) /\ drafts' = r.dir
    BY DEF Removed
<1>2. Counts /\ (spent'["faults"] = 0 => r.ok # FALSE)
    BY <1>1, FaultyCounts
<1>3. /\ r.ok \in BOOLEAN /\ (r.ok => drafts'[n].now = NoFile)
      /\ (~r.ok => drafts' = drafts)
      /\ Images(drafts'[n]) \subseteq Images(drafts[n]) \cup {NoFile}
      /\ \A m \in Notes \ {n} : drafts'[m] = drafts[m]
    BY <1>1, DraftRemoved
<1>4. recoverable \in [Notes -> DraftRecords \cup {NoFile}]
    BY DEF Typed, EditsTypeOK
<1>5. CASE r.ok
  <2>1. recoverable' = [recoverable EXCEPT ![n] = NoFile]
      BY <1>5 DEF Removed
  <2>2. QED
      BY <1>2, <1>3, <1>4, <1>5, <2>1
<1>6. CASE ~r.ok
  <2>1. recoverable' = recoverable
      BY <1>6 DEF Removed
  <2>2. QED
      BY <1>2, <1>3, <1>6, <2>1
<1>7. QED
    BY <1>3, <1>5, <1>6

LEMMA CleanupBeyond ==
    ASSUME EditsInv, Typed', CleanupDraft
    PROVE  Beyond'
<1>1. /\ Typed /\ call.at = "cleanup" /\ call.edit = Nothing
      /\ call.tx \in Transactions /\ call' = Returns(call, "ready")
      /\ UNCHANGED <<root, phase, held, pending, scheduled, highest, sent, taken>>
    BY CleanupCases DEF EditsInv
<1>2. /\ call'.at = "return" /\ call'.edit = Nothing /\ call'.result = "ready"
      /\ call'.then = call.then
    BY <1>1, Fields, ReturnsFields
<1>3. /\ phase # "stopped" /\ pending = Nothing /\ OpenTx = {} /\ OpenTx' = {}
  <2>1. call # Idle
      BY <1>1, IdleFields
  <2>2. phase # "stopped" /\ pending = Nothing
      BY <1>1, <2>1 DEF EditsInv, Phases
  <2>3. QED
      BY <1>1, <1>2, <2>2 DEF OpenTx
<1>4. Scheduled' \subseteq Scheduled
    BY <1>1, <1>2 DEF Scheduled
<1>5. highest \in Nat /\ Nothing \notin Notes
    BY <1>1, Constants DEF Typed, EditsTypeOK
<1>6. CASE UNCHANGED <<drafts, recoverable, review, spent>>
  <2>1. Settles(Nothing)
      BY <1>1, <1>2, <1>3, <1>5, <1>6 DEF Settles
  <2>2. Counts
      BY <1>1, <1>6, NothingCounts
  <2>3. Rest'
      BY <1>4, <2>1, <2>2, Settled DEF Welcome
  <2>4. Phases'
      BY <1>1, <1>2, <1>3, <1>6 DEF EditsInv, Phases
  <2>5. QED
      BY <2>3, <2>4 DEF Beyond
<1>7. ASSUME NEW n \in Notes, n = call.tx.note, NEW r \in RemoveFile(drafts, n),
             Removed(n, r), review' = IF r.ok THEN review \ {n} ELSE review
      PROVE  Beyond'
  <2>2. /\ Counts /\ r.ok \in BOOLEAN
        /\ Images(drafts'[n]) \subseteq Images(drafts[n]) \cup {NoFile}
        /\ r.ok => drafts'[n].now = NoFile /\ recoverable'[n] = NoFile
        /\ ~r.ok => drafts' = drafts /\ recoverable' = recoverable /\ spent'["faults"] # 0
        /\ recoverable'[n] \in {recoverable[n], NoFile}
        /\ \A m \in Notes \ {n} : drafts'[m] = drafts[m] /\ recoverable'[m] = recoverable[m]
      BY <1>1, <1>7, RemovedFacts
  <2>3. \A lib \in Live' : Kept(n, lib)'
    <3>1. Kept(call.tx.note, held)
        BY <1>1, <1>5, <1>7 DEF EditsInv, Survival
    <3>2. \A lib \in Images(Lib) : Kept(n, lib)
        BY <1>1, <1>3, <1>7, <3>1, HeldKept DEF EditsInv
    <3>3. Live' = Images(Lib) \cup {held}
        BY <1>1, <1>3 DEF Live, Lib
    <3>4. spent["discards"] > 0 => spent'["discards"] > 0
        BY <1>1, <2>2 DEF Counts, Typed, Counters
    <3>5. QED
        BY <1>1, <1>7, <3>1, <3>2, <3>3, <3>4 DEF Kept
  <2>4. /\ review' \subseteq review /\ review \subseteq review' \cup {n}
        /\ n \in review' => recoverable'[n] = recoverable[n]
      BY <1>7, <2>2
  <2>5. Settles(n)
      BY <1>1, <1>2, <1>3, <1>5, <2>2, <2>3, <2>4 DEF Settles
  <2>6. Rest'
      BY <1>4, <2>2, <2>5, Settled DEF Welcome
  <2>7. Phases'
      BY <1>1, <1>2, <1>3, <2>4 DEF EditsInv, Phases
  <2>8. QED
      BY <2>6, <2>7 DEF Beyond
<1>8. QED
    BY <1>6, <1>7, CleanupCases DEF EditsInv

LEMMA LoopBeyond ==
    ASSUME EditsInv, Typed', call.at = "return", call' = Idle,
           phase' = IF call.result = "pending" THEN "pending" ELSE "ready",
           UNCHANGED <<root, held, taken, drafts, recoverable, pending, scheduled,
                       highest, window, spent>>
    PROVE  Beyond'
<1>1. Typed /\ Counts /\ call # Idle
    BY NothingCounts, IdleFields DEF EditsInv
<1>2. /\ phase # "stopped" /\ (pending # Nothing => call.result = "pending")
      /\ call.edit = Nothing
    BY <1>1 DEF EditsInv, Phases, Typed, EditsTypeOK
<1>3. OpenTx' = OpenTx /\ Scheduled' = Scheduled
    BY <1>2, IdleFields DEF OpenTx, Scheduled
<1>4. highest \in Nat /\ Nothing \notin Notes
    BY <1>1, Constants DEF Typed, EditsTypeOK
<1>5. Settles(Nothing)
    BY <1>2, <1>3, <1>4, IdleFields DEF Settles, window
<1>6. Rest'
    BY <1>1, <1>3, <1>5, Settled DEF Welcome
<1>7. Phases'
    BY <1>2, IdleFields, EditBounds DEF Phases, EditsInv
<1>8. QED
    BY <1>6, <1>7 DEF Beyond

\* A discarded text is one that the note need not have any more.
LEMMA DiscardBeyond ==
    ASSUME EditsInv, Typed', phase = "pending", call = Idle, Discard,
           UNCHANGED <<root, call, held, scheduled, highest, sent>>
    PROVE  Beyond'
<1>1. Typed /\ pending # Nothing /\ highest \in Nat
    BY Constants DEF EditsInv, Typed, EditsTypeOK
<1>2. PICK n : n = pending.tx.note
    OBVIOUS
<1>3. OpenTx = {pending.tx} /\ Scheduled' = Scheduled
    BY <1>1, IdleFields DEF OpenTx, Scheduled
<1>4. CASE Faulty(FALSE) /\ UNCHANGED <<drafts, phase, pending, taken, recoverable, review>>
  <2>1. OpenTx' = OpenTx /\ Counts /\ Nothing \notin Notes
      BY <1>1, <1>4, FailedCounts, Constants DEF OpenTx
  <2>2. Settles(Nothing)
      BY <1>1, <1>4, <2>1, IdleFields DEF Settles
  <2>3. Rest'
      BY <1>3, <2>1, <2>2, Settled DEF Welcome
  <2>4. Phases'
      BY <1>4 DEF EditsInv, Phases
  <2>5. QED
      BY <2>3, <2>4 DEF Beyond
<1>5. CASE /\ spent' = [spent EXCEPT !["discards"] = @ + 1] /\ Dropped
           /\ \/ UNCHANGED <<drafts, recoverable, review>>
              \/ /\ n \in Notes /\ review' = review \ {n}
                 /\ recoverable' = [recoverable EXCEPT ![n] = NoFile]
                 /\ \E r \in RemoveFile(drafts, n) : drafts' = r.dir
  <2>1. Counts /\ spent'["discards"] > 0 /\ spent'["faults"] = spent["faults"]
      BY <1>1, <1>5, DiscardSpends
  <2>2. phase' = "ready" /\ pending' = Nothing /\ OpenTx' = {}
      BY <1>5, IdleFields DEF Dropped, OpenTx
  <2>3. \A m \in Notes : taken'[m] = IF m = n THEN held.notes[m].text ELSE taken[m]
      BY <1>2, <1>5 DEF Dropped
  <2>4. n \in Notes => \A lib \in Live' : Kept(n, lib)'
    <3>1. SUFFICES ASSUME n \in Notes, NEW lib \in Live'
                   PROVE  lib.notes[n].text >= taken'[n]
        BY DEF Kept
    <3>2. lib = held \/ Follows(held, lib)
        BY <2>2 DEF Live, Lib, EditsInv, OnRoot
    <3>3. /\ lib \in Snapshots /\ held \in Snapshots
          /\ held.notes[n].text \in Nat
        BY <1>1, <2>2, <3>1, LiveTypes, SnapshotFields DEF Live, Lib
    <3>4. held.notes[n].text <= lib.notes[n].text
        BY <3>1, <3>2, <3>3, FollowsOrder
    <3>5. QED
        BY <2>3, <3>1, <3>3, <3>4, SnapshotFields
  <2>5. /\ n \in Notes => Images(drafts'[n]) \subseteq Images(drafts[n]) \cup {NoFile}
        /\ \A m \in Notes \ {n} : drafts'[m] = drafts[m] /\ recoverable'[m] = recoverable[m]
        /\ n \in Notes => recoverable'[n] \in {recoverable[n], NoFile}
        /\ n \in Notes /\ n \in review' => recoverable'[n] = recoverable[n]
        /\ review' \subseteq review /\ review \subseteq review' \cup {n}
    <3>1. recoverable \in [Notes -> DraftRecords \cup {NoFile}] /\ review \subseteq Notes
        BY <1>1 DEF Typed, EditsTypeOK
    <3>2. CASE UNCHANGED <<drafts, recoverable, review>>
        BY <3>1, <3>2
    <3>3. CASE /\ n \in Notes /\ review' = review \ {n}
               /\ recoverable' = [recoverable EXCEPT ![n] = NoFile]
               /\ \E r \in RemoveFile(drafts, n) : drafts' = r.dir
      <4>1. PICK r \in RemoveFile(drafts, n) : drafts' = r.dir
          BY <3>3
      <4>2. /\ Images(drafts'[n]) \subseteq Images(drafts[n]) \cup {NoFile}
            /\ \A m \in Notes \ {n} : drafts'[m] = drafts[m]
          BY <1>1, <3>3, <4>1, DraftRemoved
      <4>3. QED
          BY <3>1, <3>3, <4>2
    <3>4. QED
        BY <1>5, <3>2, <3>3
  <2>6. spent'["faults"] # 0
      BY <1>1, <2>1 DEF EditsInv, Faultless, Clean
  <2>7. Settles(n)
      BY <1>1, <1>2, <1>3, <2>1, <2>2, <2>3, <2>4, <2>5, <2>6, IdleFields DEF Settles
  <2>8. Rest'
      BY <1>3, <2>1, <2>7, Settled DEF Welcome
  <2>9. Phases'
      BY <2>2, IdleFields, EditBounds DEF Phases
  <2>10. QED
      BY <2>8, <2>9 DEF Beyond
<1>6. QED
    BY <1>1, <1>2, <1>4, <1>5, DiscardCases DEF EditsInv

LEMMA DiscardDraftBeyond ==
    ASSUME EditsInv, Typed', NEW n \in Notes, DiscardDraft(n)
    PROVE  Beyond'
<1>1. PICK r \in RemoveFile(drafts, n) :
        /\ r.ok \in BOOLEAN /\ Removed(n, r)
        /\ review' = IF r.ok THEN review \ {n} ELSE review
        /\ \/ ~r.ok /\ taken' = taken
           \/ recoverable[n].text \in held.copies /\ taken' = taken
           \/ taken' = [taken EXCEPT ![n] = held.notes[n].text]
    BY DiscardDraftCases DEF EditsInv
<1>2. /\ Typed /\ Counts /\ phase = "ready" /\ call = Idle /\ n \in review
      /\ UNCHANGED <<root, phase, call, held, pending, scheduled, highest, sent>>
    BY <1>1, DiscardDraftCases, RemovedFacts DEF EditsInv
<1>3. /\ pending = Nothing /\ OpenTx = {} /\ OpenTx' = {} /\ Scheduled' = Scheduled
      /\ highest \in Nat /\ Nothing \notin Notes /\ Live' = Images(Lib) \cup {held}
    BY <1>2, IdleFields, Constants
    DEF OpenTx, Scheduled, Live, Lib, Typed, EditsTypeOK
<1>4. /\ Images(drafts'[n]) \subseteq Images(drafts[n]) \cup {NoFile}
      /\ r.ok => drafts'[n].now = NoFile /\ recoverable'[n] = NoFile
      /\ ~r.ok => drafts' = drafts /\ recoverable' = recoverable /\ spent'["faults"] # 0
      /\ recoverable'[n] \in {recoverable[n], NoFile}
      /\ \A m \in Notes \ {n} : drafts'[m] = drafts[m] /\ recoverable'[m] = recoverable[m]
    BY <1>1, <1>2, RemovedFacts
<1>5. review' \subseteq review
    BY <1>1
<1>6. Phases'
    BY <1>2, <1>3, IdleFields, EditBounds DEF Phases
<1>7. CASE ~r.ok /\ taken' = taken
  <2>1. Settles(Nothing)
      BY <1>1, <1>2, <1>3, <1>4, <1>7, IdleFields DEF Settles
  <2>2. QED
      BY <1>2, <1>3, <1>6, <2>1, Settled DEF Welcome, Beyond
<1>8. ASSUME \/ recoverable[n].text \in held.copies /\ taken' = taken
             \/ taken' = [taken EXCEPT ![n] = held.notes[n].text]
      PROVE  Settles(n)
  <2>1. taken \in [Notes -> Texts]
      BY <1>2 DEF Typed, EditsTypeOK
  <2>2. \A m \in Notes \ {n} : taken'[m] = taken[m]
      BY <1>8, <2>1
  <2>3. \A lib \in Live' : Kept(n, lib)'
    <3>1. CASE recoverable[n].text \in held.copies /\ taken' = taken
      <4>1. Kept(n, held)
          BY <1>2, <1>3, <3>1 DEF EditsInv, Survival, Survives, Kept
      <4>2. \A lib \in Images(Lib) : Kept(n, lib)
          BY <1>2, <4>1, HeldKept DEF EditsInv
      <4>3. spent["discards"] > 0 => spent'["discards"] > 0
          BY <1>2 DEF Counts, Typed, Counters
      <4>4. QED
          BY <1>2, <1>3, <3>1, <4>1, <4>2, <4>3 DEF Kept
    <3>2. CASE taken' = [taken EXCEPT ![n] = held.notes[n].text]
      <4>1. SUFFICES ASSUME NEW lib \in Live'
                     PROVE  lib.notes[n].text >= taken'[n]
          BY DEF Kept
      <4>2. /\ lib = held \/ Follows(held, lib)
            /\ lib \in Snapshots /\ held \in Snapshots
          BY <1>2, <1>3, LiveTypes DEF EditsInv, OnRoot
      <4>3. held.notes[n].text <= lib.notes[n].text
          BY <4>2, FollowsOrder, SnapshotFields
      <4>4. taken'[n] = held.notes[n].text
          BY <2>1, <3>2
      <4>5. QED
          BY <4>2, <4>3, <4>4, SnapshotFields
    <3>3. QED
        BY <1>8, <3>1, <3>2
  <2>4. /\ review \subseteq review' \cup {n}
        /\ n \in review' => recoverable'[n] = recoverable[n]
      BY <1>1, <1>4
  <2>5. spent'["faults"] = 0 => drafts'[n].now = NoFile /\ recoverable'[n] = NoFile
      BY <1>1, <1>4
  <2>6. QED
      BY <1>2, <1>3, <1>4, <1>5, <2>2, <2>3, <2>4, <2>5, IdleFields DEF Settles
<1>9. QED
    BY <1>1, <1>2, <1>3, <1>6, <1>7, <1>8, Settled DEF Welcome, Beyond

(***************************************************************************)
(* A step that settles what the library is: the snapshot x, which the held *)
(* one is or which follows it, and nothing else is on the disk any more.   *)
(***************************************************************************)
Replaces(x) ==
    /\ phase # "stopped" /\ phase' = phase
    /\ x \in Snapshots /\ held' = x /\ Lib'.now = x /\ Images(Lib') = {x}
    /\ x \in Live /\ (x = held \/ Follows(held, x))
    /\ x \in Images(Lib) \/ held \in Images(Lib)
    /\ UNCHANGED <<drafts, scheduled, highest, recoverable, review, sent>>
    /\ call'.edit = Nothing /\ OpenTx' \subseteq OpenTx

LEMMA ReplacesFacts ==
    ASSUME EditsInv, Typed', Counts, NEW x, Replaces(x)
    PROVE  /\ Live' \subseteq Live /\ held' \in Live'
           /\ \A t : Old(t)' <=> Old(t)
           /\ \A n, t : NotOlder(n, t) => NotOlder(n, t)'
           /\ \A n \in Notes :
                 /\ held.notes[n].rev <= x.notes[n].rev
                 /\ x.notes[n].rev = held.notes[n].rev => x.notes[n] = held.notes[n]
           /\ \A n \in Notes : Kept(n, held) => Kept(n, x)
           /\ spent["discards"] > 0 => spent'["discards"] > 0
<1>1. Typed /\ held \in Snapshots /\ x \in Snapshots
    BY LiveTypes DEF EditsInv, Replaces
<1>2. Live' \subseteq Live /\ held' \in Live'
    BY DEF Replaces, Live, Lib
<1>3. \A t : Old(t)' <=> Old(t)
    BY DEF Replaces, Old
<1>4. \A n, t : NotOlder(n, t) => NotOlder(n, t)'
    BY <1>2 DEF NotOlder
<1>5. \A n \in Notes :
        /\ held.notes[n].rev <= x.notes[n].rev
        /\ x.notes[n].rev = held.notes[n].rev => x.notes[n] = held.notes[n]
    BY <1>1, FollowsOrder, SnapshotFields DEF Replaces
<1>6. \A n \in Notes : Kept(n, held) => Kept(n, x)
    BY <1>1, FollowsKept DEF Replaces
<1>7. spent["discards"] > 0 => spent'["discards"] > 0
    BY <1>1 DEF Counts, Typed, Counters
<1>8. QED
    BY <1>2, <1>3, <1>4, <1>5, <1>6, <1>7

LEMMA ReplacedRest ==
    ASSUME EditsInv, Typed', Counts, NEW x, Replaces(x)
    PROVE  (OnRoot /\ Underway /\ Reviewed /\ DraftOrder /\ Aged)'
<1>1. Typed /\ held \in Snapshots /\ x \in Snapshots /\ Live' \subseteq Live
    BY LiveTypes, ReplacesFacts DEF EditsInv, Replaces
<1>2. OnRoot'
    BY DEF Replaces, OnRoot
<1>3. Underway'
  <2>1. Scheduled' \subseteq Scheduled /\ (scheduled' # Nothing => call'.edit = Nothing)
      BY DEF Replaces, Scheduled
  <2>2. QED
      BY <2>1, ReplacesFacts DEF Underway, EditsInv, Replaces
<1>4. Reviewed'
  <2>1. \A n \in review : recoverable[n] # NoFile => recoverable[n].base \in Nat
      BY <1>1, Fields DEF DraftRecords
  <2>2. ASSUME NEW n \in review
        PROVE  /\ recoverable[n] # NoFile /\ recoverable[n].base <= x.notes[n].rev
               /\ recoverable[n].base = x.notes[n].rev =>
                     recoverable[n].base = held.notes[n].rev
    <3>1. n \in Notes
        BY <1>1, Fields
    <3>2. /\ recoverable[n] # NoFile /\ recoverable[n].base <= held.notes[n].rev
          /\ held.notes[n].rev <= x.notes[n].rev
        BY <3>1, ReplacesFacts DEF EditsInv, Reviewed
    <3>3. QED
        BY <1>1, <2>1, <3>1, <3>2, SnapshotFields
  <2>3. QED
      BY <2>2, ReplacesFacts DEF Reviewed, EditsInv, Replaces
<1>5. DraftOrder'
  <2>1. SUFFICES ASSUME NEW n \in Notes, NEW draft \in Images(drafts[n]) \ {NoFile}
                 PROVE  /\ draft.base <= x.notes[n].rev
                        /\ draft.base = x.notes[n].rev => draft.text >= x.notes[n].text
      BY DEF Replaces, DraftOrder
  <2>2. draft.base \in Nat /\ draft.text \in Nat
      BY <1>1, FileTypes, Constants DEF DraftRecords
  <2>3. CASE x \in Images(Lib)
      BY <2>3 DEF EditsInv, DraftOrder
  <2>4. CASE held \in Images(Lib)
    <3>1. /\ draft.base <= held.notes[n].rev
          /\ draft.base = held.notes[n].rev => draft.text >= held.notes[n].text
          /\ held.notes[n].rev <= x.notes[n].rev
          /\ x.notes[n].rev = held.notes[n].rev => x.notes[n] = held.notes[n]
        BY <2>4, ReplacesFacts DEF EditsInv, DraftOrder
    <3>2. QED
        BY <1>1, <2>2, <3>1, SnapshotFields
  <2>5. QED
      BY <2>3, <2>4 DEF Replaces
<1>6. Aged'
  <2>1. \A n \in Notes : \A lib \in Live' : Old(lib.notes[n].text)'
      BY <1>1, ReplacesFacts DEF EditsInv, Aged
  <2>2. \A n \in Notes : \A draft \in Images(drafts'[n]) \ {NoFile} : Old(draft.text)'
      BY ReplacesFacts DEF EditsInv, Aged, Replaces
  <2>3. (\A n \in Notes : recoverable[n] # NoFile => Old(recoverable[n].text))'
      BY ReplacesFacts DEF EditsInv, Aged, Replaces
  <2>4. \A edit \in Scheduled' : Old(edit.text)'
      BY ReplacesFacts DEF EditsInv, Aged, Replaces, Scheduled
  <2>5. \A tx \in OpenTx' : Old(tx.text)'
      BY ReplacesFacts DEF EditsInv, Aged, Replaces
  <2>6. QED
      BY <2>1, <2>2, <2>3, <2>4, <2>5 DEF Aged
<1>7. QED
    BY <1>2, <1>3, <1>4, <1>5, <1>6

LEMMA ReplacedSurvives ==
    ASSUME EditsInv, Typed', Counts, NEW x, Replaces(x), NEW n \in Notes,
           taken'[n] = taken[n], \A tx \in OpenTx : tx.note = n => tx \in OpenTx'
    PROVE  Survives(n)'
<1>1. /\ Survives(n) /\ Typed /\ Live' \subseteq Live
      /\ Kept(n, held) => Kept(n, x)
      /\ spent["discards"] > 0 => spent'["discards"] > 0
    BY ReplacesFacts DEF EditsInv, Survival
<1>2. \A lib : Kept(n, lib) => Kept(n, lib)'
    BY <1>1 DEF Kept
<1>3. \/ \A lib \in Images(Lib') : Kept(n, lib)'
      \/ \A draft \in Images(drafts'[n]) : draft # NoFile /\ draft.text = taken'[n]
    BY <1>1, <1>2 DEF Survives, Replaces
<1>4. \A lib \in Live' : lib.notes[n].locked => Kept(n, lib)'
    BY <1>1, <1>2 DEF Survives, Replaces
<1>5. \A lib \in Images(Lib') : lib.notes[n].locked => Kept(n, lib)'
    BY <1>1, <1>2 DEF Survives, Replaces
<1>6. \/ Kept(n, held)'
      \/ n \in review' /\ recoverable'[n].text = taken'[n]
      \/ \E tx \in OpenTx' : tx.note = n /\ tx.text = taken'[n]
  <2>1. CASE Kept(n, held)
    <3>1. Kept(n, x)'
        BY <1>1, <1>2, <2>1
    <3>2. QED
        BY <3>1 DEF Kept, Replaces
  <2>2. QED
      BY <1>1, <2>1 DEF Survives, Replaces
<1>7. QED
    BY <1>3, <1>4, <1>5, <1>6 DEF Survives

\* The transaction tx is accepted: what it was for is kept.
LEMMA AcceptedBeyond ==
    ASSUME EditsInv, Typed', Counts, NEW tx \in Transactions, OpenTx = {tx},
           Replaces(tx.candidate), call'.at = "cleanup", call'.tx = tx,
           call'.then \in {call.then, Loop}, pending' = Nothing,
           \A n \in Notes : taken'[n] = IF n = tx.note THEN tx.text ELSE taken[n]
    PROVE  Beyond'
<1> DEFINE x == tx.candidate
<1>1. Typed /\ x \in Snapshots /\ x \in Live /\ held' = x /\ phase # "stopped"
    BY DEF EditsInv, Replaces
<1>2. OpenTx' = {} /\ Live' = {x} /\ Lib'.now = x
    BY <1>1 DEF OpenTx, Live, Lib, Replaces
<1>3. Open'
    BY <1>2 DEF Open
<1>4. ASSUME tx.note \in Notes
      PROVE  Kept(tx.note, x)'
  <2>1. Undecided(tx) /\ tx.note # Nothing
      BY <1>4, Constants DEF EditsInv, Open
  <2>2. x.notes[tx.note].text = tx.text \/ tx.text \in x.copies
      BY <2>1 DEF Undecided
  <2>3. taken'[tx.note] = tx.text /\ tx.text \in Nat
      BY <1>4, Constants DEF Transactions
  <2>4. QED
      BY <2>2, <2>3 DEF Kept
<1>5. Survival'
  <2>1. ASSUME NEW n \in Notes
        PROVE  Survives(n)'
    <3>1. CASE n = tx.note
      <4>1. Kept(n, x)'
          BY <1>4, <3>1
      <4>2. Images(Lib') = {x} /\ Live' = {x} /\ held' = x
          BY <1>2 DEF Replaces
      <4>3. Kept(n, held)'
          BY <4>1, <4>2 DEF Kept
      <4>4. QED
          BY <4>1, <4>2, <4>3 DEF Survives
    <3>2. CASE n # tx.note
        BY <3>2, ReplacedSurvives
    <3>3. QED
        BY <3>1, <3>2
  <2>2. tx.note \in Notes \cup {Nothing}
      BY DEF Transactions
  <2>3. tx.note # Nothing => Kept(tx.note, held)'
      BY <1>1, <1>4, <2>2 DEF Kept
  <2>4. QED
      BY <1>1, <2>1, <2>3 DEF Survival
<1>6. Faultless'
  <2>1. SUFFICES ASSUME spent'["faults"] = 0
                 PROVE  Clean'
      BY DEF Faultless
  <2>2. Clean
      BY <2>1 DEF EditsInv, Faultless, Counts
  <2>3. QED
      BY <1>1, <1>2, <2>2 DEF Clean, Replaces
<1>7. Phases'
    BY <1>1, IdleFields, EditBounds DEF Phases, EditsInv, Replaces
<1>8. QED
    BY <1>3, <1>5, <1>6, <1>7, ReplacedRest DEF Beyond, Rest

\* A retry finds what is on the disk to be the held snapshot or a newer one.
LEMMA ResyncBeyond ==
    ASSUME EditsInv, Typed', Counts, Replaces(Lib.now), pending # Nothing,
           OpenTx' = OpenTx, UNCHANGED taken,
           \/ call' = Idle /\ pending' # Nothing /\ phase = "pending"
           \/ call'.at = "commit" /\ call'.then = Loop /\ pending' = Nothing
    PROVE  Beyond'
<1>0. PICK x : x = Lib.now
    OBVIOUS
<1>1. Typed /\ x \in Snapshots /\ held' = x /\ phase # "stopped" /\ Replaces(x)
    BY <1>0 DEF EditsInv, Replaces
<1>2. Open'
  <2>1. ASSUME NEW tx \in OpenTx
        PROVE  Undecided(tx)'
    <3>1. Undecided(tx) /\ tx \in Transactions
        BY <1>1, LiveTypes DEF EditsInv, Open
    <3>2. tx.candidate.rev <= x.rev \/ Follows(x, tx.candidate)
      <4>1. tx.candidate.rev \in Nat /\ held.rev \in Nat /\ x.rev \in Nat
          BY <1>1, LiveTypes, SnapshotFields DEF Transactions
      <4>2. tx.candidate.rev <= held.rev \/ Follows(held, tx.candidate)
          BY <3>1 DEF Undecided
      <4>3. x = held \/ x.rev = held.rev + 1
          BY <1>1 DEF Replaces, Follows
      <4>4. Follows(held, tx.candidate) => tx.candidate.rev = held.rev + 1
          BY DEF Follows
      <4>5. QED
          BY <4>1, <4>2, <4>3, <4>4
    <3>3. QED
        BY <1>1, <3>1, <3>2, ReplacesFacts DEF Undecided, Replaces
  <2>2. QED
      BY <2>1 DEF Open
<1>3. Survival'
  <2>1. \A n \in Notes : Survives(n)'
      BY <1>1, ReplacedSurvives
  <2>2. call'.at # "cleanup"
      BY IdleFields
  <2>3. QED
      BY <2>1, <2>2 DEF Survival
<1>4. Faultless'
    BY <1>1 DEF EditsInv, Faultless, Clean, Counts
<1>5. Phases'
    BY <1>1, IdleFields, EditBounds DEF Phases, EditsInv, Replaces
<1>6. QED
    BY <1>1, <1>2, <1>3, <1>4, <1>5, ReplacedRest DEF Beyond, Rest

\* A commit fails: its transaction is retained, its candidate perhaps on the disk.
LEMMA FailedBeyond ==
    ASSUME EditsInv, Typed', Counts, NEW tx \in Transactions, OpenTx = {tx},
           OpenTx' = {tx}, phase # "stopped", pending' # Nothing, pending'.changed = FALSE,
           call'.at = "return",
           call'.result = "pending", call'.then = call.then, call'.edit = Nothing,
           UNCHANGED <<held, taken, drafts, phase, scheduled, highest, recoverable,
                       review, sent>>,
           Images(Lib') \subseteq Images(Lib) \cup {tx.candidate},
           \/ Lib' = Lib
           \/ /\ Lib'.now = tx.candidate /\ Lib.now = held
              /\ tx.candidate.rev = held.rev + 1,
           spent'["faults"] # 0
    PROVE  Beyond'
<1> DEFINE x == tx.candidate
<1>1. /\ Typed /\ x \in Live /\ x \in Snapshots /\ held \in Snapshots
      /\ Images(Lib) \subseteq Live /\ x.rev \in Nat /\ held.rev \in Nat
      /\ Lib.now \in Images(Lib)
    BY LiveTypes, SnapshotFields, FileTypes DEF EditsInv, Transactions
<1>2. Live' \subseteq Live
    BY <1>1 DEF Live, Lib
<1>3. \/ Lib' = Lib
      \/ Lib'.now = x /\ Lib.now = held /\ Follows(held, x)
  <2>1. x.rev <= held.rev \/ Follows(held, x)
      BY DEF EditsInv, Open, Undecided
  <2>2. QED
      BY <1>1, <2>1
<1>4. /\ \A t : Old(t)' <=> Old(t)
      /\ \A n, t : NotOlder(n, t) => NotOlder(n, t)'
      /\ spent["discards"] > 0 => spent'["discards"] > 0
    BY <1>1, <1>2 DEF Old, NotOlder, Counts, Typed, Counters
<1>5. \A n, lib : Kept(n, lib) => Kept(n, lib)'
    BY <1>4 DEF Kept
<1>6. OnRoot'
    BY <1>1, <1>3, <1>4 DEF OnRoot, EditsInv
<1>7. Open'
    BY <1>4 DEF Open, Undecided, EditsInv
<1>8. Underway'
    BY <1>4 DEF Underway, Scheduled, EditsInv
<1>9. Reviewed'
    BY <1>4 DEF Reviewed, EditsInv
<1>10. DraftOrder'
  <2>1. CASE Lib' = Lib
      BY <2>1 DEF DraftOrder, EditsInv
  <2>2. CASE Lib'.now = x /\ Lib.now = held /\ Follows(held, x)
    <3>1. SUFFICES ASSUME NEW n \in Notes, NEW draft \in Images(drafts[n]) \ {NoFile}
                   PROVE  /\ draft.base <= x.notes[n].rev
                          /\ draft.base = x.notes[n].rev => draft.text >= x.notes[n].text
        BY DEF EditsInv, DraftOrder
    <3>2. draft.base \in Nat /\ draft.text \in Nat
        BY <1>1, FileTypes, Constants DEF DraftRecords
    <3>3. /\ draft.base <= held.notes[n].rev
          /\ draft.base = held.notes[n].rev => draft.text >= held.notes[n].text
        BY <1>1, <2>2 DEF EditsInv, DraftOrder
    <3>4. /\ held.notes[n].rev <= x.notes[n].rev
          /\ x.notes[n].rev = held.notes[n].rev => x.notes[n] = held.notes[n]
        BY <1>1, <2>2, FollowsOrder
    <3>5. QED
        BY <1>1, <3>2, <3>3, <3>4, SnapshotFields
  <2>3. QED
      BY <1>3, <2>1, <2>2
<1>11. Aged'
  <2>1. \A n \in Notes : \A lib \in Live' : Old(lib.notes[n].text)'
      BY <1>2, <1>4 DEF EditsInv, Aged
  <2>2. QED
      BY <1>4, <2>1 DEF EditsInv, Aged, Scheduled
<1>12. Survival'
  <2>1. ASSUME NEW n \in Notes
        PROVE  Survives(n)'
    <3>1. Survives(n)
        BY DEF EditsInv, Survival
    <3>2. \/ \A lib \in Images(Lib') : Kept(n, lib)'
          \/ \A draft \in Images(drafts'[n]) : draft # NoFile /\ draft.text = taken'[n]
      <4>1. CASE \A lib \in Images(Lib) : Kept(n, lib)
        <5>1. Lib' = Lib \/ Kept(n, x)
            BY <1>1, <1>3, <4>1, FollowsKept
        <5>2. QED
            BY <1>5, <4>1, <5>1
      <4>2. QED
          BY <3>1, <4>1 DEF Survives
    <3>3. \A lib \in Live' : lib.notes[n].locked => Kept(n, lib)'
        BY <1>2, <1>5, <3>1 DEF Survives
    <3>4. Images(Lib') \subseteq Live'
        BY DEF Live, Lib
    <3>5. Kept(n, held) => Kept(n, held)'
        BY <1>4 DEF Kept
    <3>6. QED
        BY <3>1, <3>2, <3>3, <3>4, <3>5 DEF Survives
  <2>2. QED
      BY <2>1 DEF Survival
<1>13. Faultless'
    BY DEF Faultless
<1>14. Phases'
    BY DEF EditsInv, Phases
<1>15. QED
    BY <1>6, <1>7, <1>8, <1>9, <1>10, <1>11, <1>12, <1>13, <1>14 DEF Beyond, Rest

LEMMA CommitBeyond ==
    ASSUME EditsInv, Typed', CommitTransaction
    PROVE  Beyond'
<1>1. PICK tx : tx = call.tx
    OBVIOUS
<1>2. /\ Typed /\ call.at = "commit" /\ tx \in Transactions /\ call.edit = Nothing
      /\ UNCHANGED <<drafts, phase, scheduled, highest, recoverable, review, sent>>
      /\ call \in Calls
    BY <1>1, CommitCases, Fields DEF EditsInv, window
<1>3. phase # "stopped" /\ pending = Nothing /\ OpenTx = {tx}
  <2>1. call # Idle
      BY <1>2, IdleFields
  <2>2. QED
      BY <1>1, <1>2, <2>1 DEF EditsInv, Phases, OpenTx
<1>4. /\ tx \in OpenTx /\ tx.candidate \in Live /\ tx.candidate \in Snapshots
      /\ held \in Snapshots /\ held.rev \in Nat /\ tx.candidate.rev \in Nat
      /\ tx.candidate.rev <= held.rev \/ Follows(held, tx.candidate)
    BY <1>2, <1>3, LiveTypes, SnapshotFields DEF EditsInv, Open, Undecided, Transactions
<1>5. PICK r \in SaveResults(tx.candidate) :
        /\ r.ok \in BOOLEAN
        /\ Faulty(r.ok \/ Unsavable(tx.candidate))
        /\ root' = r.dir
        /\ \/ r.ok /\ Accepted(tx) /\ pending' = pending
           \/ /\ ~r.ok /\ pending' = [tx |-> tx, changed |-> FALSE]
              /\ call' = Returns(call, "pending")
              /\ UNCHANGED <<held, taken>>
    BY <1>1, <1>2, CommitCases
<1>6. Counts /\ (spent'["faults"] = 0 => (r.ok \/ Unsavable(tx.candidate)) # FALSE)
    BY <1>2, <1>5, FaultyCounts
<1>7. /\ r.dir = root \/ r.dir["library"].now = tx.candidate
      /\ Images(r.dir["library"]) \subseteq Images(Lib) \cup {tx.candidate}
      /\ r.ok => /\ r.dir["library"].now = tx.candidate
                 /\ Images(r.dir["library"]) = {tx.candidate}
      /\ r.ok \/ r.dir # root => Lib.now = held /\ tx.candidate.rev = held.rev + 1
      /\ Unsavable(tx.candidate) <=> Lib.now # held \/ tx.candidate.rev # held.rev + 1
    BY <1>2, <1>4, SaveImages
<1>8. CASE r.ok /\ Accepted(tx) /\ pending' = pending
  <2>1. /\ held' = tx.candidate /\ call'.at = "cleanup" /\ call'.tx = tx
        /\ call'.edit = Nothing /\ call'.then = call.then
        /\ \A n \in Notes : taken'[n] = IF n = tx.note THEN tx.text ELSE taken[n]
      BY <1>2, <1>8, AcceptedFields
  <2>2. Follows(held, tx.candidate) /\ held \in Images(Lib)
      BY <1>4, <1>7, <1>8, <1>2, FileTypes
  <2>3. OpenTx' = {}
      BY <1>3, <1>8, <2>1 DEF OpenTx
  <2>4. Replaces(tx.candidate)
      BY <1>2, <1>3, <1>4, <1>5, <1>7, <1>8, <2>1, <2>2, <2>3 DEF Replaces, Lib
  <2>5. QED
      BY <1>2, <1>3, <1>6, <1>8, <2>1, <2>4, AcceptedBeyond
<1>9. CASE /\ ~r.ok /\ pending' = [tx |-> tx, changed |-> FALSE]
           /\ call' = Returns(call, "pending") /\ UNCHANGED <<held, taken>>
  <2>1. /\ call'.at = "return" /\ call'.result = "pending" /\ call'.then = call.then
        /\ call'.edit = Nothing
      BY <1>2, <1>9, ReturnsFields
  <2>2. pending' # Nothing /\ pending'.changed = FALSE /\ OpenTx' = {tx}
    <3>1. /\ pending' \in [tx : Transactions, changed : BOOLEAN]
          /\ pending'.tx = tx /\ pending'.changed = FALSE
        BY <1>2, <1>9
    <3>2. QED
        BY <2>1, <3>1, NothingIsNone DEF OpenTx
  <2>3. spent'["faults"] # 0
    <3>1. SUFFICES ASSUME spent'["faults"] = 0
                   PROVE  FALSE
        OBVIOUS
    <3>2. Lib.now = held /\ Follows(held, tx.candidate)
        BY <1>3, <1>6, <3>1 DEF EditsInv, Faultless, Clean, Counts, Phases
    <3>3. ~Unsavable(tx.candidate)
        BY <1>7, <3>2 DEF Follows
    <3>4. QED
        BY <1>6, <1>9, <3>1, <3>3
  <2>4. /\ Images(Lib') \subseteq Images(Lib) \cup {tx.candidate}
        /\ \/ Lib' = Lib
           \/ /\ Lib'.now = tx.candidate /\ Lib.now = held
              /\ tx.candidate.rev = held.rev + 1
      BY <1>5, <1>7 DEF Lib
  <2>5. QED
      BY <1>2, <1>3, <1>6, <1>9, <2>1, <2>2, <2>3, <2>4, FailedBeyond
<1>10. QED
    BY <1>5, <1>8, <1>9

LEMMA RetryBeyond ==
    ASSUME EditsInv, Typed', RetryPending
    PROVE  Beyond'
<1>1. PICK tx : tx = pending.tx
    OBVIOUS
<1>2. /\ Typed /\ phase = "pending" /\ call = Idle /\ pending # Nothing
      /\ UNCHANGED <<drafts, phase, scheduled, highest, recoverable, review, sent>>
      /\ highest \in Nat /\ Nothing \notin Notes
  <2>1. /\ Typed /\ phase = "pending" /\ call = Idle
        /\ UNCHANGED <<drafts, phase, scheduled, highest, recoverable, review, sent>>
      BY RetryCases DEF EditsInv, window
  <2>2. pending # Nothing /\ highest \in Nat
      BY <2>1, Constants DEF Typed, EditsTypeOK
  <2>3. QED
      BY <2>1, <2>2, Constants
<1>3. OpenTx = {tx} /\ tx \in Transactions
    BY <1>1, <1>2, IdleFields, Fields DEF OpenTx
<1>4. CASE /\ Faulty(FALSE) /\ pending' = [pending EXCEPT !.changed = FALSE]
           /\ UNCHANGED <<root, held, call, taken>>
  <2>0. /\ pending \in [tx : Transactions, changed : BOOLEAN]
        /\ pending' # Nothing /\ pending'.changed = FALSE /\ pending'.tx = tx
    <3>1. pending \in [tx : Transactions, changed : BOOLEAN]
        BY <1>2 DEF Typed, EditsTypeOK
    <3>2. /\ pending' \in [tx : Transactions, changed : BOOLEAN]
          /\ pending'.changed = FALSE /\ pending'.tx = tx
        BY <1>1, <1>4, <3>1
    <3>3. QED
        BY <3>1, <3>2, NothingIsNone
  <2>1. OpenTx' = OpenTx /\ Counts /\ Scheduled' = Scheduled
      BY <1>1, <1>2, <1>4, <2>0, FailedCounts DEF OpenTx, Scheduled
  <2>2. Settles(Nothing)
      BY <1>2, <1>4, <2>0, <2>1, IdleFields DEF Settles
  <2>3. Rest'
      BY <2>1, <2>2, Settled DEF Welcome
  <2>4. Phases'
      BY <1>2, <1>4, <2>0 DEF EditsInv, Phases
  <2>5. QED
      BY <2>3, <2>4 DEF Beyond
<1>5. ASSUME root' = Sync(root), held' = Lib.now, OpenTx' \subseteq OpenTx,
             call'.edit = Nothing
      PROVE  Replaces(Lib.now)
  <2>1. Lib'.now = Lib.now /\ Images(Lib') = {Lib.now}
      BY <1>2, <1>5, FileTypes, SyncImages DEF Lib
  <2>2. /\ Lib.now \in Live /\ Lib.now \in Snapshots /\ Lib.now \in Images(Lib)
        /\ Lib.now = held \/ Follows(held, Lib.now)
      BY <1>2, LiveTypes, FileTypes DEF EditsInv, OnRoot
  <2>3. QED
      BY <1>2, <1>5, <2>1, <2>2 DEF Replaces
<1>6. CASE /\ Lib.now = tx.candidate
           /\ root' = Sync(root) /\ pending' = Nothing
           /\ Accepted(tx) /\ spent' = spent
  <2>1. /\ held' = tx.candidate /\ call'.at = "cleanup" /\ call'.tx = tx
        /\ call'.edit = Nothing /\ call'.then = Loop
        /\ \A n \in Notes : taken'[n] = IF n = tx.note THEN tx.text ELSE taken[n]
      BY <1>2, <1>3, <1>6, AcceptedFields, IdleFields
  <2>2. OpenTx' = {} /\ Counts
      BY <1>2, <1>6, <2>1, NothingCounts DEF OpenTx
  <2>3. Replaces(tx.candidate)
      BY <1>5, <1>6, <2>1, <2>2
  <2>4. QED
      BY <1>2, <1>3, <1>6, <2>1, <2>2, <2>3, AcceptedBeyond
<1>7. CASE /\ root' = Sync(root) /\ held' = Lib.now
           /\ pending' = [pending EXCEPT !.changed = TRUE]
           /\ UNCHANGED <<call, taken, spent>>
  <2>1. /\ pending \in [tx : Transactions, changed : BOOLEAN]
        /\ pending' \in [tx : Transactions, changed : BOOLEAN]
        /\ pending'.tx = pending.tx
      BY <1>2, <1>7 DEF Typed, EditsTypeOK
  <2>2. pending' # Nothing
      BY <2>1, NothingIsNone
  <2>3. OpenTx' = OpenTx /\ Counts /\ call'.edit = Nothing
      BY <1>2, <1>7, <2>1, <2>2, NothingCounts, IdleFields DEF OpenTx
  <2>4. QED
      BY <1>2, <1>5, <1>7, <2>2, <2>3, ResyncBeyond
<1>8. CASE /\ Lib.now = held /\ root' = Sync(root) /\ pending' = Nothing
           /\ call' = Commits(Idle, tx) /\ UNCHANGED <<held, taken, spent>>
  <2>1. /\ call'.at = "commit" /\ call'.edit = Nothing /\ call'.tx = tx
        /\ call'.then = Loop
      BY <1>3, <1>8, CommitsFields, IdleFields
  <2>2. OpenTx' = OpenTx /\ Counts
      BY <1>2, <1>3, <1>8, <2>1, NothingCounts DEF OpenTx
  <2>3. QED
      BY <1>2, <1>5, <1>8, <2>1, <2>2, ResyncBeyond
<1>9. QED
    BY <1>1, <1>4, <1>6, <1>7, <1>8, RetryCases DEF EditsInv

(***************************************************************************)
(* A step after which the transaction t, whose candidate follows the held  *)
(* snapshot, is the only one open.  Its texts are the held ones, except    *)
(* for the one it is about; it takes the place of a transaction about the  *)
(* same text; and drafts are removed of notes that are kept.               *)
(***************************************************************************)
Proposes(t) ==
    /\ phase # "stopped" /\ phase' # "stopped"
    /\ t \in Transactions /\ OpenTx' = {t} /\ pending' = Nothing
    /\ call'.at = "commit" /\ call'.then = Loop /\ call'.edit = Nothing
    /\ UNCHANGED <<root, held, scheduled, highest, review, sent, taken>>
    /\ Follows(held, t.candidate)
    /\ Lib.now = held \/ spent'["discards"] > 0
    /\ \A n \in Notes :
          /\ \/ t.candidate.notes[n].text = held.notes[n].text
             \/ n = t.note /\ t.candidate.notes[n].text = t.text
          /\ t.candidate.notes[n].locked => held.notes[n].locked \/ Kept(n, held)
          /\ Images(drafts'[n]) \subseteq Images(drafts[n]) \cup {NoFile}
          /\ recoverable'[n] \in {recoverable[n], NoFile}
          /\ n \in review => recoverable'[n] = recoverable[n]
          /\ drafts'[n] = drafts[n] \/ Kept(n, held)
          /\ spent'["faults"] = 0 =>
                /\ drafts'[n].now \in {drafts[n].now, NoFile}
                /\ recoverable'[n] # NoFile => drafts'[n].now = drafts[n].now
                /\ t.candidate.notes[n].locked =>
                      held.notes[n].locked \/ drafts'[n].now = NoFile
    /\ t.persisted => t.note # Nothing
    /\ t.note # Nothing =>
          /\ \/ t.candidate.notes[t.note].text = t.text
             \/ t.text \in t.candidate.copies
          /\ NotOlder(t.note, t.text)
          /\ t.note \in review => t.text = recoverable[t.note].text
          /\ scheduled # Nothing => scheduled.note # t.note
    /\ Old(t.text)
    /\ \A tx \in OpenTx : tx.note = Nothing \/ (tx.note = t.note /\ tx.text = t.text)

LEMMA ProposedFacts ==
    ASSUME EditsInv, Typed', Counts, NEW t, Proposes(t)
    PROVE  /\ Typed /\ held \in Snapshots /\ t.candidate \in Snapshots /\ t.text \in Nat
           /\ Live' \subseteq Live \cup {t.candidate} /\ Lib' = Lib /\ held' = held
           /\ \A s : Old(s)' <=> Old(s)
           /\ \A n, lib : Kept(n, lib) => Kept(n, lib)'
           /\ \A n \in Notes : Kept(n, held) => Kept(n, t.candidate)
           /\ \A n \in Notes, s \in Nat : n # t.note \/ s = t.text =>
                 (NotOlder(n, s) => NotOlder(n, s)')
<1>1. Typed /\ held \in Snapshots /\ t.candidate \in Snapshots /\ t.text \in Nat
    BY LiveTypes, Constants DEF EditsInv, Proposes, Transactions
<1>2. Live' \subseteq Live \cup {t.candidate} /\ Lib' = Lib /\ held' = held
    BY DEF Proposes, Live, Lib
<1>3. \A s : Old(s)' <=> Old(s)
    BY DEF Proposes, Old
<1>4. spent["discards"] > 0 => spent'["discards"] > 0
    BY <1>1 DEF Counts, Typed, Counters
<1>5. \A n, lib : Kept(n, lib) => Kept(n, lib)'
    BY <1>4 DEF Kept, Proposes
<1>6. \A n \in Notes : Kept(n, held) => Kept(n, t.candidate)
    BY <1>1, FollowsKept DEF Proposes
<1>7. ASSUME NEW n \in Notes, NEW s \in Nat, n # t.note \/ s = t.text, NotOlder(n, s)
      PROVE  NotOlder(n, s)'
  <2>1. held.notes[n].text <= s
      BY <1>1, <1>7, LiveTypes DEF NotOlder
  <2>2. t.candidate.notes[n].text <= s
      BY <1>1, <1>7, <2>1 DEF Proposes
  <2>3. QED
      BY <1>2, <1>7, <2>2 DEF NotOlder
<1>8. QED
    BY <1>1, <1>2, <1>3, <1>5, <1>6, <1>7

LEMMA ProposedBeyond ==
    ASSUME EditsInv, Typed', Counts, NEW t, Proposes(t)
    PROVE  Beyond'
<1> DEFINE x == t.candidate
<1>1. /\ Typed /\ held \in Snapshots /\ x \in Snapshots /\ t.text \in Nat
      /\ Live' \subseteq Live \cup {x} /\ Lib' = Lib /\ held' = held
    BY ProposedFacts
<1>2. OnRoot'
    BY <1>1 DEF EditsInv, OnRoot, Proposes
<1>3. Open'
  <2>1. NotOlder(t.note, t.text) /\ t.note # Nothing => NotOlder(t.note, t.text)'
      BY <1>1, ProposedFacts DEF Proposes, Transactions
  <2>2. t.note # Nothing => t.note \in Notes
      BY DEF Proposes, Transactions
  <2>3. Follows(held, t.candidate)'
      BY <1>1 DEF Proposes, Follows
  <2>4. /\ t.persisted => t.note # Nothing
        /\ t.note # Nothing =>
              /\ x.notes[t.note].text = t.text \/ t.text \in x.copies
              /\ t.note \in review' => t.text = recoverable'[t.note].text
              /\ scheduled' # Nothing => scheduled'.note # t.note
      BY <2>2 DEF Proposes
  <2>5. Undecided(t)'
      BY <2>1, <2>3, <2>4 DEF Undecided, Proposes
  <2>6. QED
      BY <2>5 DEF Open, Proposes
<1>4. Underway'
  <2>1. Scheduled' \subseteq {scheduled} \ {Nothing}
      BY DEF Scheduled, Proposes
  <2>2. ASSUME NEW edit \in Scheduled'
        PROVE  /\ NotOlder(edit.note, edit.text)'
               /\ edit.note \in review' => edit.text = recoverable'[edit.note].text
    <3>1. /\ edit = scheduled /\ edit # Nothing /\ edit \in Scheduled
          /\ edit.note \in Notes /\ edit.text \in Nat
        BY <1>1, <2>1, Fields, Constants DEF Edits, Scheduled
    <3>2. /\ NotOlder(edit.note, edit.text)
          /\ edit.note \in review => edit.text = recoverable[edit.note].text
        BY <3>1 DEF EditsInv, Underway
    <3>3. edit.note # t.note
        BY <3>1, Constants DEF Proposes
    <3>4. QED
        BY <3>1, <3>2, <3>3, ProposedFacts DEF Proposes
  <2>3. scheduled' # Nothing => call'.edit = Nothing
      BY DEF Proposes
  <2>4. QED
      BY <2>2, <2>3 DEF Underway
<1>5. Reviewed'
  <2>1. ASSUME NEW n \in review
        PROVE  /\ recoverable'[n] # NoFile
               /\ recoverable'[n].base <= held.notes[n].rev
               /\ recoverable'[n].base = held.notes[n].rev =>
                     NotOlder(n, recoverable[n].text)'
    <3>1. n \in Notes /\ recoverable'[n] = recoverable[n]
        BY <1>1, Fields DEF Proposes
    <3>2. /\ recoverable[n] # NoFile /\ recoverable[n].base <= held.notes[n].rev
          /\ recoverable[n].base = held.notes[n].rev => NotOlder(n, recoverable[n].text)
        BY DEF EditsInv, Reviewed
    <3>3. PICK s : s = recoverable[n].text
        OBVIOUS
    <3>4. s \in Nat
        BY <1>1, <3>1, <3>2, <3>3, Fields, Constants DEF DraftRecords
    <3>5. n = t.note => s = t.text
        BY <3>1, <3>3, Constants DEF Proposes
    <3>6. NotOlder(n, s) => NotOlder(n, s)'
        BY <3>1, <3>4, <3>5, ProposedFacts
    <3>7. s = recoverable'[n].text
        BY <3>1, <3>3
    <3>8. QED
        BY <3>1, <3>2, <3>3, <3>6, <3>7 DEF NotOlder
  <2>2. review' = review
      BY DEF Proposes
  <2>3. QED
      BY <1>1, <2>1, <2>2 DEF Reviewed
<1>6. DraftOrder'
    BY <1>1 DEF EditsInv, DraftOrder, Proposes
<1>7. Aged'
  <2>1. \A n \in Notes : \A lib \in Live' : Old(lib.notes[n].text)'
    <3>1. \A n \in Notes : Old(x.notes[n].text)
        BY <1>1, LiveTypes DEF EditsInv, Aged, Proposes
    <3>2. QED
        BY <1>1, <3>1, ProposedFacts DEF EditsInv, Aged
  <2>2. \A n \in Notes : \A draft \in Images(drafts'[n]) \ {NoFile} : Old(draft.text)'
      BY ProposedFacts DEF EditsInv, Aged, Proposes
  <2>3. (\A n \in Notes : recoverable[n] # NoFile => Old(recoverable[n].text))'
      BY ProposedFacts DEF EditsInv, Aged, Proposes
  <2>4. \A edit \in Scheduled' : Old(edit.text)'
      BY ProposedFacts DEF EditsInv, Aged, Proposes, Scheduled
  <2>5. \A tx \in OpenTx' : Old(tx.text)'
      BY ProposedFacts DEF Proposes
  <2>6. QED
      BY <2>1, <2>2, <2>3, <2>4, <2>5 DEF Aged
<1>8. Survival'
  <2>1. ASSUME NEW n \in Notes
        PROVE  Survives(n)'
    <3>1. /\ Survives(n) /\ taken'[n] = taken[n]
          /\ Images(Lib) \subseteq Live /\ held \in Live
        BY <1>1, LiveTypes DEF EditsInv, Survival, Proposes
    <3>2. \A lib : Kept(n, lib) => Kept(n, lib)'
        BY ProposedFacts
    <3>3. \/ \A lib \in Images(Lib') : Kept(n, lib)'
          \/ \A draft \in Images(drafts'[n]) : draft # NoFile /\ draft.text = taken'[n]
      <4>1. CASE Kept(n, held)
        <5>1. \A lib \in Images(Lib) : Kept(n, lib)
            BY <1>1, <4>1, HeldKept DEF EditsInv, Proposes
        <5>2. QED
            BY <1>1, <3>2, <5>1
      <4>2. CASE drafts'[n] = drafts[n]
          BY <1>1, <3>1, <3>2, <4>2 DEF Survives
      <4>3. QED
          BY <4>1, <4>2 DEF Proposes
    <3>4. \A lib \in Live' : lib.notes[n].locked => Kept(n, lib)'
      <4>1. x.notes[n].locked => Kept(n, x)
          BY <3>1, ProposedFacts DEF Survives, Proposes
      <4>2. QED
          BY <1>1, <3>1, <3>2, <4>1 DEF Survives, Proposes
    <3>5. Images(Lib') \subseteq Live'
        BY DEF Live, Lib
    <3>6. \/ Kept(n, held)'
          \/ n \in review' /\ recoverable'[n].text = taken'[n]
          \/ \E tx \in OpenTx' : tx.note = n /\ tx.text = taken'[n]
      <4>1. Kept(n, held) => Kept(n, held)'
          BY <1>1, <3>2 DEF Kept
      <4>2. n # Nothing
          BY Constants
      <4>3. QED
          BY <3>1, <4>1, <4>2 DEF Survives, Proposes
    <3>7. QED
        BY <3>3, <3>4, <3>5, <3>6 DEF Survives
  <2>2. QED
      BY <2>1 DEF Survival, Proposes
<1>9. Faultless'
  <2>1. SUFFICES ASSUME spent'["faults"] = 0
                 PROVE  Clean'
      BY DEF Faultless
  <2>2. Clean
      BY <2>1 DEF EditsInv, Faultless, Counts
  <2>3. QED
      BY <1>1, <2>1, <2>2 DEF Clean, Proposes
<1>10. Phases'
    BY IdleFields, EditBounds DEF Phases, Proposes
<1>11. QED
    BY <1>2, <1>3, <1>4, <1>5, <1>6, <1>7, <1>8, <1>9, <1>10 DEF Beyond, Rest

LEMMA ResolveBeyond ==
    ASSUME EditsInv, Typed', ResolvePendingConflict
    PROVE  Beyond'
<1>1. PICK tx : tx = pending.tx
    OBVIOUS
<1>2. /\ Typed /\ phase = "pending" /\ call = Idle /\ pending # Nothing
      /\ pending.changed = TRUE /\ tx \in Transactions /\ tx.note \in Notes
      /\ UNCHANGED <<root, held, scheduled, highest, sent>>
    BY <1>1, ResolveCases DEF EditsInv
<1>3. OpenTx = {tx} /\ tx \in OpenTx /\ tx.note # Nothing
    BY <1>1, <1>2, IdleFields, Constants DEF OpenTx
<1>4. Undecided(tx) /\ Old(tx.text) /\ Lib.now = held
    BY <1>2, <1>3 DEF EditsInv, Open, Aged, OnRoot
<1>5. held \in Snapshots /\ tx.text \in Texts /\ held \in Live
    BY <1>2, LiveTypes DEF Transactions
<1>6. CASE Discard /\ call' = call
    BY <1>2, <1>6, DiscardBeyond
<1>7. CASE /\ pending' = Nothing
           /\ \E lib \in {Preserved(held, tx.text), Edited(held, tx.note, tx.text)} :
                call' = Commits(Idle, Recommitted(tx, lib))
           /\ UNCHANGED <<drafts, phase, recoverable, review, taken, spent>>
  <2>1. PICK lib \in {Preserved(held, tx.text), Edited(held, tx.note, tx.text)} :
          call' = Commits(Idle, Recommitted(tx, lib))
      BY <1>7
  <2>2. PICK t : t = Recommitted(tx, lib)
      OBVIOUS
  <2>3. /\ lib \in Snapshots /\ t \in Transactions /\ t.candidate = lib
        /\ t.note = tx.note /\ t.text = tx.text /\ t.persisted = tx.persisted
        /\ call'.at = "commit" /\ call'.edit = Nothing /\ call'.tx = t
        /\ call'.then = Loop
      BY <1>2, <2>1, <2>2, RecommitTyped, RecommittedFields
  <2>4. /\ Follows(held, lib)
        /\ lib.notes[tx.note].text = tx.text \/ tx.text \in lib.copies
        /\ \A n \in Notes :
              /\ \/ lib.notes[n].text = held.notes[n].text
                 \/ n = tx.note /\ lib.notes[n].text = tx.text
              /\ lib.notes[n].locked = held.notes[n].locked
    <3>1. CASE lib = Preserved(held, tx.text)
        BY <1>5, <3>1, PreservedFields
    <3>2. CASE lib = Edited(held, tx.note, tx.text)
      <4>1. tx.text >= held.notes[tx.note].text
          BY <1>2, <1>3, <1>4, <1>5, SnapshotFields, Constants DEF Undecided, NotOlder
      <4>2. QED
          BY <1>2, <1>5, <3>2, <4>1, EditedFields
    <3>3. QED
        BY <2>1, <3>1, <3>2
  <2>5. OpenTx' = {t} /\ Counts
      BY <1>2, <1>7, <2>3, NothingCounts DEF OpenTx
  <2>6. spent'["faults"] # 0
      BY <1>2, <1>7 DEF EditsInv, Faultless, Clean
  <2>7. Proposes(t)
      BY <1>2, <1>3, <1>4, <1>7, <2>3, <2>4, <2>5, <2>6 DEF Proposes, Undecided
  <2>8. QED
      BY <2>5, <2>7, ProposedBeyond
<1>8. QED
    BY <1>1, <1>2, <1>6, <1>7, ResolveCases DEF EditsInv

LEMMA ActBeyond ==
    ASSUME EditsInv, Typed', call.at = "return", UNCHANGED <<root, held, taken>>,
           call.then.do \in Acts \cup {"copy"}, call.result = "ready",
           call' = Acting(call), UNCHANGED <<phase, pending, scheduled, highest, window>>,
           \/ /\ call.then.do # "lock"
              /\ UNCHANGED <<drafts, recoverable, open, spent>>
           \/ /\ call.then.do = "lock" /\ open' = TRUE
              /\ \E r \in RemoveFile(drafts, call.then.note) :
                    r.ok \in BOOLEAN /\ Removed(call.then.note, r)
    PROVE  Beyond'
<1>1. PICK t : t = ActTx(call)
    OBVIOUS
<1>2. /\ Typed /\ call # Idle /\ pending = Nothing /\ phase # "stopped"
      /\ call.then.do # "copy" => review = {} /\ call.then.note \in Notes
    BY IdleFields DEF EditsInv, Phases
<1>3. /\ t \in Transactions /\ t.candidate = Acted(held, call.then)
      /\ t.note = Nothing /\ t.persisted = FALSE /\ t.text = 0
      /\ call'.at = "commit" /\ call'.edit = Nothing /\ call'.tx = t /\ call'.then = Loop
    BY <1>1, <1>2, ActingFields
<1>4. OpenTx = {} /\ OpenTx' = {t}
    BY <1>2, <1>3 DEF OpenTx
<1>5. /\ Follows(held, t.candidate)
      /\ \A n \in Notes :
            /\ t.candidate.notes[n].text = held.notes[n].text
            /\ t.candidate.notes[n].locked =>
                  held.notes[n].locked \/ (call.then.do = "lock" /\ n = call.then.note)
    BY <1>2, <1>3, ActedFields, Fields
<1>6. ASSUME call.then.do = "lock", NEW n \in Notes
      PROVE  Kept(n, held)
  <2>1. review = {}
      BY <1>2, <1>6
  <2>2. QED
      BY <1>2, <1>4, <2>1 DEF EditsInv, Survival, Survives
<1>7. Lib.now = held \/ spent["discards"] > 0
    BY <1>2 DEF EditsInv, OnRoot
<1>8. Old(t.text)
    BY <1>3, Constants DEF Old, Generations
<1>9. /\ Counts
      /\ \A n \in Notes :
            /\ Images(drafts'[n]) \subseteq Images(drafts[n]) \cup {NoFile}
            /\ recoverable'[n] \in {recoverable[n], NoFile}
            /\ n \in review => recoverable'[n] = recoverable[n]
            /\ drafts'[n] = drafts[n] \/ call.then.do = "lock"
            /\ spent'["faults"] = 0 =>
                 /\ drafts'[n].now \in {drafts[n].now, NoFile}
                 /\ recoverable'[n] # NoFile => drafts'[n].now = drafts[n].now
                 /\ call.then.do = "lock" /\ n = call.then.note =>
                       drafts'[n].now = NoFile
  <2>1. CASE call.then.do # "lock" /\ UNCHANGED <<drafts, recoverable, open, spent>>
      BY <1>2, <2>1, NothingCounts
  <2>2. CASE /\ call.then.do = "lock"
             /\ \E r \in RemoveFile(drafts, call.then.note) :
                   r.ok \in BOOLEAN /\ Removed(call.then.note, r)
    <3>1. PICK m \in Notes : m = call.then.note
        BY <1>2, <2>2
    <3>2. PICK r \in RemoveFile(drafts, m) : Removed(m, r)
        BY <2>2, <3>1
    <3>3. /\ Counts /\ r.ok \in BOOLEAN
          /\ Images(drafts'[m]) \subseteq Images(drafts[m]) \cup {NoFile}
          /\ r.ok => drafts'[m].now = NoFile /\ recoverable'[m] = NoFile
          /\ ~r.ok => /\ drafts' = drafts /\ recoverable' = recoverable
                      /\ spent'["faults"] # 0
          /\ recoverable'[m] \in {recoverable[m], NoFile}
          /\ \A n \in Notes \ {m} : /\ drafts'[n] = drafts[n]
                                    /\ recoverable'[n] = recoverable[n]
        BY <1>2, <3>2, RemovedFacts
    <3>4. review = {}
        BY <1>2, <2>2
    <3>5. QED
        BY <2>2, <3>1, <3>3, <3>4
  <2>3. QED
      BY <2>1, <2>2
<1>10. spent["discards"] > 0 => spent'["discards"] > 0
    BY <1>2, <1>9 DEF Counts, Typed, Counters
<1>11. UNCHANGED <<review, sent>> /\ phase' # "stopped" /\ pending' = Nothing
    BY <1>2 DEF window
<1>12. Proposes(t)
    BY <1>2, <1>3, <1>4, <1>5, <1>6, <1>7, <1>8, <1>9, <1>10, <1>11 DEF Proposes
<1>13. QED
    BY <1>9, <1>12, ProposedBeyond

(***************************************************************************)
(* A step that decides the edit: its text may become the draft of its note *)
(* and the transaction t, which is then the only one open.                 *)
(***************************************************************************)
Decides(edit, draft, t) ==
    LET n == edit.note
        x == t.candidate
    IN
    /\ phase # "stopped" /\ pending = Nothing /\ OpenTx = {}
    /\ edit \in Edits /\ edit \in Scheduled /\ edit = call.edit
    /\ UNCHANGED <<root, phase, held, pending, scheduled, highest, review, sent>>
    /\ call'.at \in {"return", "commit"} /\ call'.then = call.then
    /\ call'.edit = Nothing
    /\ call'.result # "pending" \/ call'.at = "commit"
    /\ OpenTx' \subseteq {t} /\ t \in Transactions /\ Follows(held, x)
    /\ \A m \in Notes \ {n} : x.notes[m] = held.notes[m]
    /\ x.notes[n].text = edit.text /\ x.notes[n].locked = held.notes[n].locked
    /\ t.text = edit.text
    /\ t.note = IF held.notes[n].locked THEN Nothing ELSE n
    /\ t.persisted => ~held.notes[n].locked
    /\ draft \in DraftRecords /\ draft.base = held.notes[n].rev
    /\ draft.text = edit.text
    /\ \A m \in Notes \ {n} :
          /\ drafts'[m].now = drafts[m].now
          /\ Images(drafts'[m]) \subseteq Images(drafts[m])
          /\ recoverable'[m] = recoverable[m] /\ taken'[m] = taken[m]
    /\ Images(drafts'[n]) \subseteq Images(drafts[n]) \cup {draft}
    /\ recoverable'[n] \in {recoverable[n], draft}
    /\ \/ taken'[n] = taken[n]
       \/ /\ taken'[n] = edit.text /\ Images(drafts'[n]) = {draft}
          /\ ~held.notes[n].locked /\ t \in OpenTx'
    /\ spent'["faults"] = 0 =>
          \/ drafts' = drafts /\ recoverable' = recoverable
          \/ /\ ~held.notes[n].locked
             /\ drafts'[n].now = draft /\ recoverable'[n] = draft

LEMMA CommitEditDecides ==
    ASSUME EditsInv, CommitEdit
    PROVE  \E edit, draft, t : Decides(edit, draft, t)
<1>1. PICK edit : edit = call.edit
    OBVIOUS
<1>2. PICK n : n = edit.note
    OBVIOUS
<1>3. /\ Typed /\ call.at = "commit_edit" /\ edit \in Edits /\ n \in Notes
      /\ edit.text \in Texts /\ edit # Nothing
      /\ UNCHANGED <<root, phase, held, pending, scheduled, highest, review, sent>>
    BY <1>1, <1>2, CommitEditCases, EditFields, Constants DEF EditsInv, window
<1>4. phase # "stopped" /\ pending = Nothing /\ OpenTx = {} /\ edit \in Scheduled
  <2>1. call # Idle
      BY <1>3, IdleFields
  <2>2. QED
      BY <1>1, <1>3, <2>1 DEF EditsInv, Phases, OpenTx, Scheduled
<1>5. PICK draft : draft = EditDraft(edit)
    OBVIOUS
<1>6. /\ draft \in DraftRecords /\ draft.base = held.notes[n].rev
      /\ draft.text = edit.text
    BY <1>2, <1>3, <1>5, EditFields
<1>7. /\ held \in Snapshots /\ held \in Live /\ call \in Calls
      /\ recoverable \in [Notes -> DraftRecords \cup {NoFile}]
      /\ taken \in [Notes -> Texts] /\ held.notes[n].text \in Nat
    BY <1>3, LiveTypes, Fields DEF Typed, EditsTypeOK
<1>8. PICK x : x = Edited(held, n, edit.text)
    OBVIOUS
<1>9. /\ Follows(held, x) /\ x.notes[n].text = edit.text
      /\ x.notes[n].locked = held.notes[n].locked
      /\ \A m \in Notes \ {n} : x.notes[m] = held.notes[m]
  <2>1. edit.text >= held.notes[n].text
      BY <1>2, <1>3, <1>4, <1>7, Constants DEF EditsInv, Underway, NotOlder
  <2>2. QED
      BY <1>3, <1>7, <1>8, <2>1, EditedFields
<1>10. ASSUME NEW done \in BOOLEAN, NEW t, t = EditTx(edit, done)
       PROVE  /\ t \in Transactions /\ t.candidate = x /\ t.text = edit.text
              /\ t.persisted = done
              /\ t.note = IF held.notes[n].locked THEN Nothing ELSE n
    BY <1>2, <1>3, <1>8, <1>10, EditFields
<1>11. ASSUME NEW done \in BOOLEAN, NEW t, t = EditTx(edit, done),
              \/ call' = AfterEdit(edit, done)
              \/ call' = Returns(call, "rejected")
       PROVE  /\ call'.at \in {"return", "commit"} /\ call'.then = call.then
              /\ call'.edit = Nothing /\ OpenTx' \subseteq {t}
              /\ call'.result # "pending" \/ call'.at = "commit"
              /\ call' = AfterEdit(edit, done) /\ edit.text # held.notes[n].text =>
                    t \in OpenTx'
  <2>1. CASE call' = AfterEdit(edit, done)
      BY <1>2, <1>3, <1>4, <1>11, <2>1, AfterEditFields DEF OpenTx
  <2>2. CASE call' = Returns(call, "rejected") /\ call' # AfterEdit(edit, done)
      BY <1>3, <1>4, <1>7, <2>2, ReturnsFields DEF OpenTx
  <2>3. QED
      BY <1>11, <2>1, <2>2
<1>12. CASE /\ UNCHANGED <<drafts, recoverable, taken, spent>>
            /\ \/ call' = AfterEdit(edit, FALSE)
               \/ call' = Returns(call, "rejected")
  <2>1. PICK done \in BOOLEAN : done = FALSE
      OBVIOUS
  <2>2. PICK t : t = EditTx(edit, done)
      OBVIOUS
  <2>3. /\ t \in Transactions /\ t.candidate = x /\ t.text = edit.text
        /\ t.persisted = FALSE
        /\ t.note = IF held.notes[n].locked THEN Nothing ELSE n
      BY <1>10, <2>1, <2>2
  <2>4. /\ call'.at \in {"return", "commit"} /\ call'.then = call.then
        /\ call'.edit = Nothing /\ OpenTx' \subseteq {t}
        /\ call'.result # "pending" \/ call'.at = "commit"
      BY <1>11, <1>12, <2>1, <2>2
  <2>5. Decides(edit, draft, t)
      BY <1>1, <1>2, <1>3, <1>4, <1>6, <1>9, <1>12, <2>3, <2>4, Zenon DEF Decides
  <2>6. QED
      BY <2>5
<1>13. ASSUME ~held.notes[n].locked, NEW r \in WriteVerified(drafts, n, draft),
              r.ok \in BOOLEAN, Drafted(edit, r)
       PROVE  \E t : Decides(edit, draft, t)
  <2>1. PICK done \in BOOLEAN : done = r.ok
      BY <1>13
  <2>2. PICK t : t = EditTx(edit, done)
      OBVIOUS
  <2>3. /\ Faulty(r.ok) /\ drafts' = r.dir /\ call' = AfterEdit(edit, done)
        /\ recoverable' = IF r.ok THEN [recoverable EXCEPT ![n] = draft] ELSE recoverable
        /\ taken' = IF r.ok /\ edit.text # held.notes[n].text
                    THEN [taken EXCEPT ![n] = edit.text] ELSE taken
      BY <1>2, <1>5, <1>13, <2>1 DEF Drafted
  <2>4. spent'["faults"] = 0 => r.ok # FALSE
      BY <1>3, <2>3, FaultyCounts
  <2>5. /\ Images(drafts'[n]) \subseteq Images(drafts[n]) \cup {draft}
        /\ r.ok => drafts'[n].now = draft /\ Images(drafts'[n]) = {draft}
        /\ \A m \in Notes \ {n} : /\ drafts'[m].now = drafts[m].now
                                  /\ Images(drafts'[m]) \subseteq Images(drafts[m])
    <3>1. /\ Images(r.dir[n]) \subseteq Images(drafts[n]) \cup {draft}
          /\ r.ok => r.dir[n].now = draft /\ Images(r.dir[n]) = {draft}
          /\ \A m \in Notes \ {n} : /\ r.dir[m].now = drafts[m].now
                                    /\ Images(r.dir[m]) \subseteq Images(drafts[m])
        BY <1>3, <1>6, DraftWritten
    <3>2. QED
        BY <2>3, <3>1
  <2>6. /\ \A m \in Notes \ {n} : recoverable'[m] = recoverable[m] /\ taken'[m] = taken[m]
        /\ recoverable'[n] \in {recoverable[n], draft}
        /\ r.ok => recoverable'[n] = draft
        /\ \/ taken'[n] = taken[n]
           \/ r.ok /\ edit.text # held.notes[n].text /\ taken'[n] = edit.text
      BY <1>3, <1>7, <1>13, <2>3
  <2>7. /\ t \in Transactions /\ t.candidate = x /\ t.text = edit.text
        /\ t.note = IF held.notes[n].locked THEN Nothing ELSE n
      BY <1>10, <2>1, <2>2
  <2>8. /\ call'.at \in {"return", "commit"} /\ call'.then = call.then
        /\ call'.edit = Nothing /\ OpenTx' \subseteq {t}
        /\ call'.result # "pending" \/ call'.at = "commit"
        /\ edit.text # held.notes[n].text => t \in OpenTx'
      BY <1>11, <2>1, <2>2, <2>3
  <2>9. \/ taken'[n] = taken[n]
        \/ /\ taken'[n] = edit.text /\ Images(drafts'[n]) = {draft}
           /\ t \in OpenTx'
      BY <2>5, <2>6, <2>8
  <2>10. spent'["faults"] = 0 => drafts'[n].now = draft /\ recoverable'[n] = draft
      BY <1>13, <2>4, <2>5, <2>6
  <2>11. Decides(edit, draft, t)
      BY <1>1, <1>2, <1>3, <1>4, <1>6, <1>9, <1>13, <2>5, <2>6, <2>7, <2>8, <2>9, <2>10
      DEF Decides
  <2>12. QED
      BY <2>11
<1>14. QED
    BY <1>1, <1>2, <1>5, <1>12, <1>13, CommitEditCases DEF EditsInv

LEMMA DecidedFacts ==
    ASSUME EditsInv, Typed', Counts, NEW edit, NEW draft, NEW t, Decides(edit, draft, t)
    PROVE  /\ edit.note \in Notes /\ edit.text \in Nat /\ edit # Nothing
           /\ t.candidate \in Snapshots /\ held \in Snapshots /\ held \in Live
           /\ Lib' = Lib /\ Live' \subseteq Live \cup {t.candidate}
           /\ Live = Images(Lib) \cup {held}
           /\ NotOlder(edit.note, edit.text) /\ NotOlder(edit.note, edit.text)'
           /\ \A m \in Notes \ {edit.note} : \A s : NotOlder(m, s) => NotOlder(m, s)'
           /\ edit.note \in review => edit.text = recoverable[edit.note].text
           /\ scheduled # Nothing => scheduled.note # edit.note
           /\ spent["discards"] > 0 => spent'["discards"] > 0
<1>1. Typed /\ Underway
    BY DEF EditsInv
<1>2. /\ edit \in Edits /\ edit \in Scheduled /\ edit = call.edit /\ edit # Nothing
      /\ UNCHANGED <<root, held>> /\ OpenTx = {} /\ OpenTx' \subseteq {t}
      /\ t \in Transactions
      /\ \A m \in Notes \ {edit.note} : t.candidate.notes[m] = held.notes[m]
      /\ t.candidate.notes[edit.note].text = edit.text
    BY Constants DEF Decides
<1>3. edit.note \in Notes /\ edit.text \in Nat /\ t.candidate \in Snapshots
    BY <1>2, Constants DEF Edits, Transactions
<1>4. held \in Snapshots /\ held \in Live
    BY <1>1, LiveTypes
<1>5. /\ Lib' = Lib /\ Live' \subseteq Live \cup {t.candidate}
      /\ Live = Images(Lib) \cup {held}
    BY <1>2 DEF Live, Lib
<1>6. /\ NotOlder(edit.note, edit.text)
      /\ edit.note \in review => edit.text = recoverable[edit.note].text
      /\ scheduled # Nothing => scheduled.note # edit.note
    BY <1>1, <1>2 DEF Underway
<1>7. NotOlder(edit.note, edit.text)'
    BY <1>2, <1>3, <1>5, <1>6 DEF NotOlder
<1>8. \A m \in Notes \ {edit.note} : \A s : NotOlder(m, s) => NotOlder(m, s)'
    BY <1>2, <1>4, <1>5 DEF NotOlder
<1>9. spent["discards"] > 0 => spent'["discards"] > 0
    BY <1>1 DEF Counts, Typed, Counters
<1>10. QED
    BY <1>2, <1>3, <1>4, <1>5, <1>6, <1>7, <1>8, <1>9

LEMMA DecidedEdits ==
    ASSUME EditsInv, Typed', Counts, NEW edit, NEW draft, NEW t, Decides(edit, draft, t)
    PROVE  (OnRoot /\ Open /\ Underway /\ Reviewed /\ DraftOrder /\ Aged)'
<1>1. PICK n : n = edit.note
    OBVIOUS
<1>2. /\ n \in Notes /\ edit.text \in Nat /\ edit # Nothing
      /\ t.candidate \in Snapshots /\ held \in Snapshots /\ held \in Live
      /\ Lib' = Lib /\ Live' \subseteq Live \cup {t.candidate}
      /\ Live = Images(Lib) \cup {held}
      /\ NotOlder(n, edit.text) /\ NotOlder(n, edit.text)'
      /\ \A m \in Notes \ {n} : \A s : NotOlder(m, s) => NotOlder(m, s)'
      /\ n \in review => edit.text = recoverable[n].text
      /\ scheduled # Nothing => scheduled.note # n
      /\ spent["discards"] > 0 => spent'["discards"] > 0
    BY <1>1, DecidedFacts
<1>3. /\ phase # "stopped" /\ pending = Nothing /\ OpenTx = {}
      /\ edit \in Edits /\ edit \in Scheduled
      /\ UNCHANGED <<root, phase, held, pending, scheduled, highest, review, sent>>
      /\ call'.edit = Nothing
      /\ OpenTx' \subseteq {t} /\ t \in Transactions /\ Follows(held, t.candidate)
      /\ t.text = edit.text
      /\ t.note \in {Nothing, n} /\ (t.persisted => t.note # Nothing)
      /\ t.candidate.notes[n].text = edit.text
      /\ \A m \in Notes \ {n} : t.candidate.notes[m] = held.notes[m]
    BY <1>1, <1>2, Constants DEF Decides
<1>4. /\ draft \in DraftRecords /\ draft.base = held.notes[n].rev
      /\ draft.text = edit.text /\ draft # NoFile
      /\ \A m \in Notes \ {n} :
            /\ Images(drafts'[m]) \subseteq Images(drafts[m])
            /\ recoverable'[m] = recoverable[m]
      /\ Images(drafts'[n]) \subseteq Images(drafts[n]) \cup {draft}
      /\ recoverable'[n] \in {recoverable[n], draft}
    BY <1>1, Constants DEF Decides
<1>5. /\ Typed /\ OnRoot /\ Underway /\ Reviewed /\ DraftOrder /\ Aged
    BY DEF EditsInv
<1>6. OnRoot'
    BY <1>2, <1>3, <1>5 DEF OnRoot
<1>7. n \in review' => edit.text = recoverable'[n].text
    BY <1>2, <1>3, <1>4
<1>8. Open'
  <2>1. t.note # Nothing => t.note = n
      BY <1>3
  <2>2. Follows(held', t.candidate)
      BY <1>3
  <2>3. t.note # Nothing =>
          /\ t.candidate.notes[t.note].text = t.text
          /\ NotOlder(t.note, t.text)'
          /\ t.note \in review' => t.text = recoverable'[t.note].text
          /\ scheduled' # Nothing => scheduled'.note # t.note
    <3>1. SUFFICES ASSUME t.note = n
                   PROVE  /\ t.candidate.notes[n].text = t.text
                          /\ NotOlder(n, edit.text)'
                          /\ n \in review' => t.text = recoverable'[n].text
                          /\ scheduled' # Nothing => scheduled'.note # n
        BY <2>1, <1>3
    <3>2. QED
        BY <1>2, <1>3, <1>7
  <2>4. Undecided(t)'
      BY <1>3, <2>2, <2>3 DEF Undecided
  <2>5. QED
      BY <1>3, <2>4 DEF Open
<1>9. Underway'
  <2>1. Scheduled' = {scheduled} \ {Nothing}
      BY <1>3 DEF Scheduled
  <2>2. scheduled # Nothing =>
          /\ scheduled.note \in Notes \ {n}
          /\ NotOlder(scheduled.note, scheduled.text)
          /\ scheduled.note \in review => scheduled.text = recoverable[scheduled.note].text
      BY <1>2, <1>5, Fields DEF Underway, Scheduled, Typed, EditsTypeOK, Edits
  <2>3. scheduled # Nothing => NotOlder(scheduled.note, scheduled.text)'
      BY <1>2, <1>3, <2>2
  <2>4. scheduled # Nothing =>
          (scheduled.note \in review' => scheduled.text = recoverable'[scheduled.note].text)
      BY <1>3, <1>4, <2>2
  <2>5. QED
      BY <1>3, <2>1, <2>3, <2>4 DEF Underway
<1>10. Reviewed'
  <2>1. ASSUME NEW m \in review', NEW s, s = recoverable'[m].text
        PROVE  /\ recoverable'[m] # NoFile
               /\ recoverable'[m].base <= held'.notes[m].rev
               /\ recoverable'[m].base = held'.notes[m].rev => NotOlder(m, s)'
    <3>1. /\ m \in review /\ m \in Notes
          /\ recoverable[m] # NoFile
          /\ recoverable[m].base <= held.notes[m].rev
          /\ recoverable[m].base = held.notes[m].rev => NotOlder(m, recoverable[m].text)
        BY <1>3, <1>5, <2>1, Fields DEF Reviewed, Typed, EditsTypeOK
    <3>2. CASE m # n
      <4>1. recoverable'[m] = recoverable[m] /\ held' = held
          BY <1>3, <1>4, <3>1, <3>2
      <4>2. NotOlder(m, s) => NotOlder(m, s)'
          BY <1>2, <3>1, <3>2
      <4>3. QED
          BY <2>1, <3>1, <4>1, <4>2
    <3>3. CASE m = n
      <4>1. NotOlder(n, s)'
          BY <1>2, <1>7, <2>1, <3>3
      <4>2. held.notes[n].rev \in Nat
          BY <1>2, SnapshotFields
      <4>3. QED
          BY <1>3, <1>4, <3>1, <3>3, <4>1, <4>2
    <3>4. QED
        BY <3>2, <3>3
  <2>2. ASSUME NEW m \in review'
        PROVE  (/\ recoverable[m] # NoFile
                /\ recoverable[m].base <= held.notes[m].rev
                /\ recoverable[m].base = held.notes[m].rev => NotOlder(m, recoverable[m].text))'
    <3>1. PICK s : s = recoverable'[m].text
        OBVIOUS
    <3>2. QED
        BY <2>1, <3>1 DEF NotOlder
  <2>3. QED
      BY <2>2 DEF Reviewed
<1>11. DraftOrder'
  <2>1. \A lib \in Images(Lib) : /\ draft.base <= lib.notes[n].rev
                                 /\ draft.text >= lib.notes[n].text
    <3>1. SUFFICES ASSUME NEW lib \in Images(Lib)
                   PROVE  /\ draft.base <= lib.notes[n].rev
                          /\ draft.text >= lib.notes[n].text
        OBVIOUS
    <3>2. lib \in Snapshots /\ lib \in Live /\ (lib = held \/ Follows(held, lib))
        BY <1>3, <1>5, LiveTypes DEF OnRoot
    <3>3. held.notes[n].rev <= lib.notes[n].rev
        BY <1>2, <3>2, FollowsOrder, SnapshotFields
    <3>4. lib.notes[n].text <= edit.text /\ lib.notes[n].text \in Nat
        BY <1>2, <3>2, SnapshotFields DEF NotOlder
    <3>5. QED
        BY <1>2, <1>4, <3>3, <3>4
  <2>2. \A m \in Notes : \/ Images(drafts'[m]) \subseteq Images(drafts[m])
                         \/ m = n /\ Images(drafts'[m]) \subseteq Images(drafts[m]) \cup {draft}
      BY <1>4
  <2>3. QED
      BY <1>2, <1>5, <2>1, <2>2 DEF DraftOrder
<1>12. Aged'
  <2>1. \A s : Old(s) => Old(s)'
      BY <1>3 DEF Old
  <2>2. Old(edit.text)
      BY <1>3, <1>5 DEF Aged
  <2>3. \A m \in Notes, lib \in Live' : Old(lib.notes[m].text)'
    <3>1. \A m \in Notes, lib \in Live : Old(lib.notes[m].text)
        BY <1>5 DEF Aged
    <3>2. \A m \in Notes : t.candidate.notes[m].text = held.notes[m].text
                           \/ t.candidate.notes[m].text = edit.text
        BY <1>3
    <3>3. QED
        BY <1>2, <2>1, <2>2, <3>1, <3>2
  <2>4. \A m \in Notes : \A d \in Images(drafts'[m]) \ {NoFile} : Old(d.text)'
    <3>1. \A m \in Notes : Images(drafts'[m]) \subseteq Images(drafts[m]) \cup {draft}
        BY <1>4
    <3>2. QED
        BY <1>4, <1>5, <2>1, <2>2, <3>1 DEF Aged
  <2>5. (\A m \in Notes : recoverable[m] # NoFile => Old(recoverable[m].text))'
    <3>1. \A m \in Notes : recoverable'[m] \in {recoverable[m], draft}
        BY <1>4
    <3>2. QED
        BY <1>4, <1>5, <2>1, <2>2, <3>1 DEF Aged
  <2>6. (\A e \in Scheduled : Old(e.text))'
    <3>1. Scheduled' \subseteq Scheduled
        BY <1>3 DEF Scheduled
    <3>2. QED
        BY <1>5, <2>1, <3>1 DEF Aged
  <2>7. (\A tx \in OpenTx : Old(tx.text))'
      BY <1>3, <2>1, <2>2
  <2>8. QED
      BY <2>3, <2>4, <2>5, <2>6, <2>7 DEF Aged
<1>13. QED
    BY <1>6, <1>8, <1>9, <1>10, <1>11, <1>12

LEMMA DecidedSurvival ==
    ASSUME EditsInv, Typed', Counts, NEW edit, NEW draft, NEW t, Decides(edit, draft, t)
    PROVE  Survival'
<1>1. PICK n : n = edit.note
    OBVIOUS
<1>2. /\ n \in Notes /\ edit.text \in Nat
      /\ t.candidate \in Snapshots /\ held \in Snapshots /\ held \in Live
      /\ Lib' = Lib /\ Live' \subseteq Live \cup {t.candidate}
      /\ Live = Images(Lib) \cup {held}
      /\ NotOlder(n, edit.text)
      /\ n \in review => edit.text = recoverable[n].text
      /\ spent["discards"] > 0 => spent'["discards"] > 0
    BY <1>1, DecidedFacts
<1>3. /\ phase # "stopped" /\ pending = Nothing /\ OpenTx = {}
      /\ UNCHANGED <<root, phase, held, review>> /\ call'.at # "cleanup"
      /\ Follows(held, t.candidate) /\ t.text = edit.text
      /\ t.note = IF held.notes[n].locked THEN Nothing ELSE n
      /\ \A m \in Notes \ {n} : t.candidate.notes[m] = held.notes[m]
      /\ t.candidate.notes[n].text = edit.text
      /\ t.candidate.notes[n].locked = held.notes[n].locked
    BY <1>1 DEF Decides
<1>4. /\ draft \in DraftRecords /\ draft.text = edit.text /\ draft # NoFile
      /\ \A m \in Notes \ {n} :
            /\ Images(drafts'[m]) \subseteq Images(drafts[m])
            /\ recoverable'[m] = recoverable[m] /\ taken'[m] = taken[m]
      /\ Images(drafts'[n]) \subseteq Images(drafts[n]) \cup {draft}
      /\ recoverable'[n] \in {recoverable[n], draft}
      /\ \/ taken'[n] = taken[n]
         \/ /\ taken'[n] = edit.text /\ Images(drafts'[n]) = {draft}
            /\ ~held.notes[n].locked /\ t \in OpenTx'
    BY <1>1, Constants DEF Decides
<1>5. Typed /\ OnRoot /\ Survival
    BY DEF EditsInv
<1>6. \A m \in Notes : \A lib : taken'[m] = taken[m] /\ Kept(m, lib) => Kept(m, lib)'
    BY <1>2 DEF Kept
<1>7. ASSUME NEW m \in Notes, taken'[m] = taken[m]
      PROVE  Survives(m)'
  <2>1. Survives(m)
      BY <1>5 DEF Survival
  <2>2. /\ Kept(m, held) => \A lib \in Images(Lib) : Kept(m, lib)
        /\ Kept(m, held) => Kept(m, t.candidate)
      BY <1>2, <1>3, <1>5, HeldKept, FollowsKept
  <2>3. /\ Kept(m, held) \/ (m \in review /\ recoverable[m].text = taken[m])
        /\ \A lib \in Live : lib.notes[m].locked => Kept(m, lib)
        /\ \A lib \in Images(Lib) : lib.notes[m].locked => Kept(m, lib)
      BY <1>3, <2>1 DEF Survives
  <2>4. \A lib \in Live \cup {t.candidate} : lib.notes[m].locked => Kept(m, lib)
    <3>1. t.candidate.notes[m].locked => held.notes[m].locked
        BY <1>3
    <3>2. QED
        BY <1>2, <2>2, <2>3, <3>1
  <2>5. m \in review /\ recoverable[m].text = taken[m] => recoverable'[m].text = taken[m]
      BY <1>2, <1>4
  <2>6. \/ \A lib \in Images(Lib) : Kept(m, lib)
        \/ \A d \in Images(drafts'[m]) : d # NoFile /\ d.text = taken[m]
    <3>1. CASE m # n
        BY <1>4, <2>1, <3>1 DEF Survives
    <3>2. CASE m = n
        BY <1>2, <1>4, <2>1, <2>2, <2>3, <3>2 DEF Survives
    <3>3. QED
        BY <3>1, <3>2
  <2>7. QED
      BY <1>2, <1>3, <1>6, <1>7, <2>3, <2>4, <2>5, <2>6 DEF Survives
<1>8. ASSUME taken'[n] # taken[n]
      PROVE  Survives(n)'
  <2>1. /\ taken'[n] = edit.text /\ Images(drafts'[n]) = {draft}
        /\ ~held.notes[n].locked /\ t \in OpenTx' /\ t.note = n
      BY <1>3, <1>4, <1>8
  <2>2. \A d \in Images(drafts'[n]) : d # NoFile /\ d.text = taken'[n]
      BY <1>4, <2>1
  <2>3. \A lib \in Live \cup {t.candidate} : lib.notes[n].locked => spent["discards"] > 0
    <3>1. ~t.candidate.notes[n].locked
        BY <1>3, <2>1
    <3>2. \A lib \in Live : lib = held \/ lib = Lib.now
        BY <1>2, <1>3, <1>5 DEF OnRoot
    <3>3. Lib.now = held \/ spent["discards"] > 0
        BY <1>3, <1>5 DEF OnRoot
    <3>4. QED
        BY <2>1, <3>1, <3>2, <3>3
  <2>4. \A lib \in Live \cup {t.candidate} : lib.notes[n].locked => Kept(n, lib)'
      BY <1>2, <2>3 DEF Kept
  <2>5. QED
      BY <1>2, <1>3, <2>1, <2>2, <2>4 DEF Survives
<1>9. \A m \in Notes : Survives(m)'
    BY <1>4, <1>7, <1>8
<1>10. QED
    BY <1>3, <1>9 DEF Survival

LEMMA DecidedBeyond ==
    ASSUME EditsInv, Typed', Counts, NEW edit, NEW draft, NEW t, Decides(edit, draft, t)
    PROVE  Beyond'
<1>1. Phases'
  <2>1. /\ phase' # "stopped" /\ pending' = Nothing /\ review' = review
        /\ call'.at \in {"return", "commit"} /\ call'.then = call.then
        /\ call'.result # "pending" \/ call'.at = "commit"
      BY DEF Decides
  <2>2. call'.at = "return" => call'.result # "pending"
      BY <2>1
  <2>3. QED
      BY <2>1, <2>2 DEF EditsInv, Phases
<1>2. Faultless'
  <2>1. SUFFICES ASSUME spent'["faults"] = 0
                 PROVE  Clean'
      BY DEF Faultless
  <2>2. Clean /\ phase # "stopped"
      BY <2>1 DEF EditsInv, Faultless, Counts, Decides
  <2>3. PICK n \in Notes : n = edit.note
      BY DecidedFacts
  <2>4. /\ UNCHANGED <<root, held>> /\ pending' = Nothing /\ OpenTx' \subseteq {t}
        /\ Follows(held, t.candidate)
        /\ \A m \in Notes \ {n} : t.candidate.notes[m] = held.notes[m]
        /\ t.candidate.notes[n].locked = held.notes[n].locked
        /\ \A m \in Notes \ {n} : /\ drafts'[m].now = drafts[m].now
                                  /\ recoverable'[m] = recoverable[m]
      BY <2>3 DEF Decides
  <2>5. \/ drafts' = drafts /\ recoverable' = recoverable
        \/ /\ ~held.notes[n].locked
           /\ drafts'[n].now = draft /\ recoverable'[n] = draft
      BY <2>1, <2>3 DEF Decides
  <2>6. \A m \in Notes : t.candidate.notes[m].locked = held.notes[m].locked
      BY <2>4
  <2>7. \A m \in Notes :
          /\ held.notes[m].locked => drafts'[m].now = NoFile
          /\ recoverable'[m] # NoFile => drafts'[m].now = recoverable'[m]
      BY <2>2, <2>4, <2>5 DEF Clean
  <2>8. QED
      BY <2>2, <2>4, <2>6, <2>7 DEF Clean, Lib
<1>3. QED
    BY <1>1, <1>2, DecidedEdits, DecidedSurvival DEF Beyond, Rest

LEMMA CommitEditBeyond ==
    ASSUME EditsInv, Typed', CommitEdit
    PROVE  Beyond'
<1>1. Counts
    BY CommitEditTyped DEF EditsInv
<1>2. QED
    BY <1>1, CommitEditDecides, DecidedBeyond

\* Startup finds one library and offers every draft that it does not prune.
LEMMA StartBeyond ==
    ASSUME EditsInv, Typed', Start
    PROVE  Beyond'
<1>1. PICK K \in SUBSET Pruned :
        /\ Spend("faults", Cardinality(K))
        /\ drafts' = [n \in Notes |-> IF n \in Pruned \ K
                                      THEN Put(drafts, n, NoFile)[n] ELSE drafts[n]]
    BY StartCases DEF EditsInv
<1>2. /\ Typed /\ phase = "stopped" /\ phase' = "ready" /\ root' = Sync(root)
      /\ held' = Lib.now /\ review' = Found \ Pruned
      /\ sent' = {g \in Generations : \E h \in sent : g <= h}
      /\ UNCHANGED <<call, pending, scheduled, highest, taken>>
      /\ recoverable' = [n \in Notes |-> IF n \in Found \ Pruned
                                         THEN drafts[n].now ELSE NoFile]
    BY StartCases DEF EditsInv
<1>3. /\ Counts /\ (spent'["faults"] = 0 => K = {})
      /\ spent["discards"] > 0 => spent'["discards"] > 0
    BY <1>1, <1>2, SpendFaults DEF Pruned, Found, Counts, Typed, Counters
<1>4. call' = Idle /\ pending' = Nothing /\ scheduled' = Nothing
    BY <1>2 DEF EditsInv, Phases
<1>5. /\ Lib'.now = Lib.now /\ Images(Lib') = {Lib.now} /\ Lib.now \in Images(Lib)
      /\ Lib.now \in Snapshots /\ Lib.now \in Live
    BY <1>2, FileTypes, SyncImages, LiveTypes DEF Lib
<1>6. OpenTx' = {} /\ Scheduled' = {} /\ Live' = {Lib.now}
    BY <1>2, <1>4, <1>5, IdleFields DEF OpenTx, Scheduled, Live
<1>7. \A n \in Notes :
        /\ Images(drafts'[n]) \subseteq Images(drafts[n]) \cup {NoFile}
        /\ n \in Pruned \ K => drafts'[n].now = NoFile
        /\ n \notin Pruned \ K => drafts'[n] = drafts[n]
    BY <1>1, <1>2, PutImages, FileTypes
<1>8. \A n \in Notes :
        /\ n \in review' => /\ drafts[n].now # NoFile /\ recoverable'[n] = drafts[n].now
                            /\ drafts'[n] = drafts[n]
        /\ n \notin review' => recoverable'[n] = NoFile
    BY <1>1, <1>2, <1>7 DEF Found
<1>9. \A n \in Notes : drafts[n].now \in Images(drafts[n])
    BY <1>2, FileTypes
<1>10. \A t \in Nat : Old(t) => Old(t)'
  <2>1. sent \subseteq Generations
      BY <1>2 DEF Typed, EditsTypeOK
  <2>2. SUFFICES ASSUME NEW t \in Nat, t = 0 \/ t \in sent
                 PROVE  Old(t)'
      BY DEF Old
  <2>3. t = 0 \/ t \in sent'
      BY <1>2, <2>1, <2>2, Constants
  <2>4. \A g \in Generations \ sent' : t < g
      BY <1>2, <2>2, Constants DEF Generations
  <2>5. QED
      BY <2>3, <2>4 DEF Old
<1>11. OnRoot' /\ Open' /\ Underway'
    BY <1>2, <1>4, <1>5, <1>6 DEF OnRoot, Open, Underway
<1>12. DraftOrder'
    BY <1>5, <1>7 DEF EditsInv, DraftOrder
<1>13. Reviewed'
  <2>1. ASSUME NEW n \in review'
        PROVE  (/\ recoverable[n] # NoFile
                /\ recoverable[n].base <= held.notes[n].rev
                /\ recoverable[n].base = held.notes[n].rev => NotOlder(n, recoverable[n].text))'
    <3>1. n \in Notes
        BY <1>2, <2>1 DEF Found
    <3>2. drafts[n].now \in Images(drafts[n]) \ {NoFile} /\ drafts[n].now \in DraftRecords
        BY <1>2, <1>8, <1>9, <2>1, <3>1, FileTypes
    <3>3. /\ drafts[n].now.base <= Lib.now.notes[n].rev
          /\ drafts[n].now.base = Lib.now.notes[n].rev =>
                drafts[n].now.text >= Lib.now.notes[n].text
        BY <1>5, <3>1, <3>2 DEF EditsInv, DraftOrder
    <3>4. drafts[n].now.text \in Nat /\ Lib.now.notes[n].text \in Nat
        BY <1>5, <3>1, <3>2, SnapshotFields, Constants DEF DraftRecords
    <3>5. QED
        BY <1>2, <1>6, <1>8, <2>1, <3>1, <3>3, <3>4 DEF NotOlder
  <2>2. QED
      BY <2>1 DEF Reviewed
<1>14. Aged'
  <2>1. \A n \in Notes, lib \in Live' : Old(lib.notes[n].text)'
      BY <1>2, <1>5, <1>6, <1>10, LiveTypes DEF EditsInv, Aged
  <2>2. \A n \in Notes : \A draft \in Images(drafts[n]) \ {NoFile} :
          draft.text \in Nat /\ Old(draft.text)
      BY <1>2, FileTypes, Constants DEF EditsInv, Aged, DraftRecords
  <2>3. \A n \in Notes : \A draft \in Images(drafts'[n]) \ {NoFile} : Old(draft.text)'
      BY <1>7, <1>10, <2>2
  <2>4. (\A n \in Notes : recoverable[n] # NoFile => Old(recoverable[n].text))'
      BY <1>8, <1>9, <1>10, <2>2
  <2>5. QED
      BY <1>6, <2>1, <2>3, <2>4 DEF Aged
<1>15. Survival'
  <2>1. \A n : \A lib : Kept(n, lib) => Kept(n, lib)'
      BY <1>2, <1>3 DEF Kept
  <2>2. ASSUME NEW n \in Notes
        PROVE  Survives(n)'
    <3>1. Survives(n)
        BY DEF EditsInv, Survival
    <3>2. CASE Kept(n, Lib.now)
        BY <1>2, <1>5, <1>6, <2>1, <3>2 DEF Survives
    <3>3. CASE ~Kept(n, Lib.now)
      <4>1. /\ \A draft \in Images(drafts[n]) : draft # NoFile /\ draft.text = taken[n]
            /\ ~Lib.now.notes[n].locked
          BY <1>5, <3>1, <3>3 DEF Survives
      <4>2. drafts[n].now # NoFile /\ drafts[n].now.text = taken[n]
          BY <1>9, <4>1
      <4>3. taken[n] \in Nat
          BY <1>2, Constants DEF Typed, EditsTypeOK
      <4>4. n \in Found \ Pruned
          BY <3>3, <4>1, <4>2, <4>3 DEF Found, Pruned, Prunable, Kept
      <4>5. /\ drafts'[n] = drafts[n] /\ n \in review' /\ recoverable'[n].text = taken'[n]
          BY <1>2, <1>8, <4>2, <4>4
      <4>6. QED
          BY <1>2, <1>5, <1>6, <4>1, <4>5 DEF Survives
    <3>4. QED
        BY <3>2, <3>3
  <2>3. QED
      BY <1>4, <2>2, IdleFields DEF Survival
<1>16. Faultless'
  <2>1. SUFFICES ASSUME K = {}
                 PROVE  Clean'
      BY <1>3 DEF Faultless
  <2>2. \A n \in Notes : Lib.now.notes[n].locked => drafts'[n].now = NoFile
      BY <1>7, <2>1 DEF Found, Pruned, Prunable
  <2>3. QED
      BY <1>2, <1>4, <1>5, <1>6, <1>8, <2>2 DEF Clean
<1>17. Phases'
    BY <1>2, <1>4, IdleFields, EditBounds DEF Phases
<1>18. QED
    BY <1>11, <1>12, <1>13, <1>14, <1>15, <1>16, <1>17 DEF Beyond, Rest

\* What a killed process or a power loss leaves of the draft being written.
LEMMA EndDraftFacts ==
    ASSUME EditsInv, Ends, NEW n \in Notes,
           ~(Images(drafts'[n]) \subseteq Images(drafts[n]))
    PROVE  \E draft \in DraftRecords :
              /\ phase # "stopped" /\ Images(Lib') \subseteq Images(Lib)
              /\ OpenTx = {}
              /\ Images(drafts'[n]) \subseteq Images(drafts[n]) \cup {draft}
              /\ draft.base = held.notes[n].rev
              /\ NotOlder(n, draft.text) /\ Old(draft.text)
              /\ n \in review => draft.text = recoverable[n].text
<1>1. PICK edit : edit = call.edit
    OBVIOUS
<1>2. PICK draft : draft = EditDraft(edit)
    OBVIOUS
<1>3. Typed /\ EndDrafts
    BY EndDisk DEF EditsInv
<1>4. /\ call.at = "commit_edit" /\ n = edit.note
      /\ Images(Lib') \subseteq Images(Lib)
      /\ Images(drafts'[n]) \subseteq Images(drafts[n]) \cup {draft}
    BY <1>1, <1>2, <1>3 DEF EndDrafts
<1>5. edit \in Edits /\ edit \in Scheduled
    BY <1>1, <1>3, <1>4, Constants DEF Typed, EditsTypeOK, Calls, Scheduled
<1>6. phase # "stopped" /\ OpenTx = {}
    BY <1>4, IdleFields DEF EditsInv, Phases, OpenTx
<1>7. /\ draft \in DraftRecords /\ draft.base = held.notes[n].rev
      /\ draft.text = edit.text
    BY <1>2, <1>3, <1>4, <1>5, EditFields
<1>8. /\ NotOlder(n, edit.text) /\ Old(edit.text)
      /\ n \in review => edit.text = recoverable[n].text
    BY <1>4, <1>5 DEF EditsInv, Underway, Aged
<1>9. QED
    BY <1>4, <1>6, <1>7, <1>8

\* What it leaves of the library.
LEMMA EndRootFacts ==
    ASSUME EditsInv, Ends, ~(Images(Lib') \subseteq Images(Lib))
    PROVE  \E x \in Live :
              /\ phase # "stopped" /\ Lib.now = held /\ Follows(held, x)
              /\ Images(Lib') \subseteq Images(Lib) \cup {x}
<1>1. PICK tx : tx = call.tx
    OBVIOUS
<1>2. Typed /\ EndRoot
    BY EndDisk DEF EditsInv
<1>3. /\ call.at = "commit" /\ Lib.now = held
      /\ tx.candidate.rev = held.rev + 1
      /\ Images(Lib') \subseteq Images(Lib) \cup {tx.candidate}
    BY <1>1, <1>2 DEF EndRoot
<1>4. tx \in OpenTx
    BY <1>1, <1>3 DEF OpenTx
<1>5. tx.candidate \in Live /\ held.rev \in Nat
    BY <1>2, <1>4, LiveTypes
<1>6. Undecided(tx)
    BY <1>4 DEF EditsInv, Open
<1>7. Follows(held, tx.candidate)
    BY <1>3, <1>5, <1>6 DEF Undecided
<1>8. phase # "stopped"
    BY <1>3, IdleFields DEF EditsInv, Phases
<1>9. QED
    BY <1>3, <1>5, <1>7, <1>8

LEMMA EndBeyond ==
    ASSUME EditsInv, Typed', Ends
    PROVE  Beyond'
<1>1. /\ Typed /\ Counts /\ UNCHANGED <<held, sent, taken>>
      /\ phase' = "stopped" /\ call' = Idle /\ pending' = Nothing
      /\ scheduled' = Nothing /\ review' = {}
      /\ recoverable' = [n \in Notes |-> NoFile]
    BY DEF EditsInv, Ends, Forgotten
<1>2. OpenTx' = {} /\ Scheduled' = {} /\ Live' = Images(Lib') \cup {held}
    BY <1>1, IdleFields DEF OpenTx, Scheduled, Live, Lib
<1>3. Live' \subseteq Live
    BY <1>1, <1>2, EndRootFacts, LiveTypes
<1>4. \A t : Old(t) => Old(t)'
    BY <1>1 DEF Old
<1>5. \A n : \A lib : Kept(n, lib) => Kept(n, lib)'
  <2>1. spent["discards"] > 0 => spent'["discards"] > 0
      BY <1>1 DEF Counts, Typed, Counters
  <2>2. QED
      BY <1>1, <2>1 DEF Kept
<1>6. /\ Live \subseteq Snapshots /\ held \in Snapshots /\ Lib.now \in Images(Lib)
      /\ Images(Lib) \subseteq Live
    BY <1>1, LiveTypes, FileTypes
<1>7. DraftOrder'
  <2>1. SUFFICES ASSUME NEW n \in Notes, NEW lib \in Images(Lib'),
                        NEW draft \in Images(drafts'[n]) \ {NoFile}
                 PROVE  /\ draft.base <= lib.notes[n].rev
                        /\ draft.base = lib.notes[n].rev => draft.text >= lib.notes[n].text
      BY DEF DraftOrder
  <2>2. CASE lib \in Images(Lib) /\ draft \in Images(drafts[n])
      BY <2>1, <2>2 DEF EditsInv, DraftOrder
  <2>3. CASE lib \notin Images(Lib)
    <3>1. Lib.now = held /\ Follows(held, lib) /\ lib \in Snapshots
        BY <1>6, <2>1, <2>3, EndRootFacts
    <3>2. draft \in Images(drafts[n]) /\ draft \in DraftRecords
        BY <1>1, <2>1, <2>3, EndDraftFacts, FileTypes
    <3>3. /\ draft.base <= held.notes[n].rev
          /\ draft.base = held.notes[n].rev => draft.text >= held.notes[n].text
        BY <1>6, <2>1, <3>1, <3>2 DEF EditsInv, DraftOrder
    <3>4. \/ lib.notes[n] = held.notes[n]
          \/ lib.notes[n].rev = held.notes[n].rev + 1
        BY <3>1 DEF Follows
    <3>5. held.notes[n].rev \in Nat /\ draft.base \in Nat
        BY <1>6, <3>2, SnapshotFields DEF DraftRecords
    <3>6. QED
        BY <3>3, <3>4, <3>5
  <2>4. CASE draft \notin Images(drafts[n])
    <3>1. /\ phase # "stopped" /\ lib \in Images(Lib)
          /\ draft.base = held.notes[n].rev /\ NotOlder(n, draft.text)
          /\ draft.text \in Nat
        BY <2>1, <2>4, EndDraftFacts, Constants DEF DraftRecords
    <3>2. lib \in Live /\ lib \in Snapshots /\ (lib = held \/ Follows(held, lib))
        BY <1>6, <3>1 DEF EditsInv, OnRoot
    <3>3. held.notes[n].rev <= lib.notes[n].rev
        BY <1>6, <3>2, FollowsOrder, SnapshotFields
    <3>4. lib.notes[n].text <= draft.text /\ lib.notes[n].text \in Nat
        BY <3>1, <3>2, SnapshotFields DEF NotOlder
    <3>5. QED
        BY <3>1, <3>3, <3>4
  <2>5. QED
      BY <2>2, <2>3, <2>4
<1>8. Aged'
  <2>1. \A n \in Notes, lib \in Live' : Old(lib.notes[n].text)'
      BY <1>3, <1>4 DEF EditsInv, Aged
  <2>2. \A n \in Notes : \A draft \in Images(drafts'[n]) \ {NoFile} : Old(draft.text)'
      BY <1>4, EndDraftFacts DEF EditsInv, Aged
  <2>3. QED
      BY <1>1, <1>2, <2>1, <2>2 DEF Aged
<1>9. ASSUME NEW n \in Notes
      PROVE  Survives(n)'
  <2>1. Survives(n)
      BY DEF EditsInv, Survival
  <2>2. \A lib \in Images(Lib') : lib.notes[n].locked => Kept(n, lib)
      BY <2>1, EndRootFacts DEF Survives
  <2>3. \/ \A lib \in Images(Lib') : Kept(n, lib)
        \/ \A draft \in Images(drafts'[n]) : draft # NoFile /\ draft.text = taken[n]
    <3>1. CASE Images(Lib') \subseteq Images(Lib) /\ Images(drafts'[n]) \subseteq Images(drafts[n])
        BY <2>1, <3>1 DEF Survives
    <3>2. CASE ~(Images(Lib') \subseteq Images(Lib))
      <4>1. PICK x \in Live : /\ Lib.now = held /\ Follows(held, x)
                              /\ Images(Lib') \subseteq Images(Lib) \cup {x}
          BY <3>2, EndRootFacts
      <4>2. Kept(n, held) => Kept(n, x)
          BY <1>1, <1>6, <4>1, FollowsKept
      <4>3. Images(drafts'[n]) \subseteq Images(drafts[n])
          BY <3>2, EndDraftFacts
      <4>4. QED
          BY <1>6, <2>1, <4>1, <4>2, <4>3 DEF Survives
    <3>3. CASE ~(Images(drafts'[n]) \subseteq Images(drafts[n]))
      <4>1. PICK draft \in DraftRecords :
              /\ phase # "stopped" /\ Images(Lib') \subseteq Images(Lib)
              /\ OpenTx = {}
              /\ Images(drafts'[n]) \subseteq Images(drafts[n]) \cup {draft}
              /\ n \in review => draft.text = recoverable[n].text
          BY <3>3, EndDraftFacts
      <4>2. Kept(n, held) => \A lib \in Images(Lib) : Kept(n, lib)
          BY <1>1, <4>1, HeldKept DEF EditsInv
      <4>3. Kept(n, held) \/ draft.text = taken[n]
          BY <2>1, <4>1 DEF Survives
      <4>4. QED
          BY <2>1, <4>1, <4>2, <4>3, Constants DEF Survives
    <3>4. QED
        BY <3>1, <3>2, <3>3
  <2>4. QED
      BY <1>1, <1>5, <2>2, <2>3 DEF Survives
<1>10. Survival'
    BY <1>1, <1>9, IdleFields DEF Survival
<1>11. OnRoot' /\ Open' /\ Underway' /\ Reviewed' /\ Faultless' /\ Phases'
  <2>1. OnRoot' /\ Open' /\ Underway' /\ Reviewed' /\ Faultless'
      BY <1>1, <1>2, IdleFields DEF OnRoot, Open, Underway, Reviewed, Faultless, Clean
  <2>2. Phases'
      BY <1>1, IdleFields, EditBounds DEF Phases
  <2>3. QED
      BY <2>1, <2>2
<1>12. QED
    BY <1>7, <1>8, <1>10, <1>11 DEF Beyond, Rest

LEMMA ReturnBeyond ==
    ASSUME EditsInv, Typed', Return
    PROVE  Beyond'
<1>1. Typed /\ call.at = "return" /\ UNCHANGED <<root, held, taken>>
    BY ReturnCases DEF EditsInv
<1>2. CASE Forgotten /\ UNCHANGED <<drafts, sent, spent>>
  <2>1. Ends
      BY <1>1, <1>2, EndSteps
  <2>2. QED
      BY <2>1, EndBeyond
<1>3. CASE /\ phase' = IF call.result = "pending" THEN "pending" ELSE "ready"
           /\ call' = Idle /\ open' \in BOOLEAN
           /\ UNCHANGED <<drafts, recoverable, pending, scheduled, highest, window, spent>>
    BY <1>1, <1>3, LoopBeyond
<1>4. CASE /\ call.then.do \in Acts \cup {"copy"} /\ call.result = "ready"
           /\ Allowed(held, call.then) /\ call' = Acting(call)
           /\ UNCHANGED <<phase, pending, scheduled, highest, window>>
           /\ \/ /\ call.then.do # "lock"
                 /\ UNCHANGED <<drafts, recoverable, open, spent>>
              \/ /\ call.then.do = "lock" /\ open' = TRUE
                 /\ \E r \in RemoveFile(drafts, call.then.note) :
                      r.ok \in BOOLEAN /\ Removed(call.then.note, r)
    BY <1>1, <1>4, ActBeyond
<1>5. QED
    BY <1>1, <1>2, <1>3, <1>4, ReturnCases

-----------------------------------------------------------------------------
(* The invariant is inductive *)

LEMMA InitInv ==
    ASSUME Init
    PROVE  EditsInv
<1> DEFINE note == [rev |-> 1, text |-> 0, deleted |-> FALSE, locked |-> FALSE]
<1>1. /\ Installed \in Snapshots /\ \A n \in Notes : Installed.notes[n] = note
      /\ note.rev = 1 /\ note.text = 0 /\ note.locked = FALSE
    BY Constants DEF Installed, Snapshots, NoteRecords
<1> HIDE DEF note
<1>2. /\ root = [p \in {"library"} |-> OnDisk(Installed)]
      /\ drafts = [n \in Notes |-> OnDisk(NoFile)]
      /\ phase = "stopped" /\ call = Idle /\ pending = Nothing
      /\ held = Installed /\ scheduled = Nothing /\ highest = 0
      /\ recoverable = [n \in Notes |-> NoFile] /\ open = FALSE
      /\ shown = "ready" /\ review = {} /\ sent = {}
      /\ taken = [n \in Notes |-> 0]
      /\ spent = [w \in Counters |-> 0]
    BY DEF Init, Counters
<1>3. /\ Lib.now = Installed /\ Images(Lib) = {Installed}
      /\ \A n \in Notes : drafts[n].now = NoFile /\ Images(drafts[n]) = {NoFile}
    BY <1>2 DEF Lib, OnDisk, Images
<1>4. OpenTx = {} /\ Scheduled = {} /\ Live = {Installed}
    BY <1>2, <1>3, IdleFields DEF OpenTx, Scheduled, Live
<1>5. Typed
  <2>1. /\ IsDirectory(root, [p \in {"library"} |-> Snapshots])
        /\ IsDirectory(drafts, [n \in Notes |-> DraftRecords \cup {NoFile}])
      BY <1>1, <1>2 DEF IsDirectory, OnDisk
  <2>2. /\ highest \in 0 .. MaxEdits /\ taken \in [Notes -> Texts]
        /\ recoverable \in [Notes -> DraftRecords \cup {NoFile}]
        /\ spent \in [Counters -> Nat]
      BY <1>2, Constants
  <2>3. /\ call \in Calls /\ held \in Snapshots /\ review \subseteq Notes
        /\ sent \subseteq Generations /\ open \in BOOLEAN
        /\ call.at = "idle" /\ call.edit = Nothing /\ call.tx = Nothing
      BY <1>1, <1>2, IdleFields
  <2>4. QED
      BY <1>2, <2>1, <2>2, <2>3 DEF Typed, EditsTypeOK
<1>6. Phases
    BY <1>2, IdleFields, EditBounds DEF Phases
<1>7. OnRoot /\ Open /\ Underway /\ Reviewed /\ DraftOrder
    BY <1>2, <1>3, <1>4 DEF OnRoot, Open, Underway, Reviewed, DraftOrder
<1>8. Aged
    BY <1>1, <1>2, <1>3, <1>4 DEF Aged, Old
<1>9. Survival
    BY <1>1, <1>2, <1>3, <1>4, IdleFields DEF Survival, Survives, Kept
<1>10. Faultless
    BY <1>2 DEF Faultless, Clean
<1>11. QED
    BY <1>5, <1>6, <1>7, <1>8, <1>9, <1>10 DEF EditsInv

LEMMA NextInv ==
    ASSUME EditsInv, [Next]_vars
    PROVE  EditsInv'
<1>1. Steps /\ Typed' /\ Counts
    BY NextSteps, StepTyped DEF EditsInv
<1> SUFFICES Beyond'
    BY <1>1 DEF EditsInv, Beyond, Rest
<1>2. ASSUME NEW n \in Notes, NEW g \in Generations, Type(n, g) \/ RestoreDraft(n, g)
      PROVE  Beyond'
    BY <1>1, <1>2, ScheduleBeyond
<1>3. ASSUME NEW c \in Continuations, Flushes(c)
      PROVE  Beyond'
    BY <1>1, <1>3, FlushBeyond
<1>4. ASSUME NEW n \in Notes, DiscardDraft(n)
      PROVE  Beyond'
    BY <1>1, <1>4, DiscardDraftBeyond
<1>5. CASE DiscardPending
  <2>1. /\ phase = "pending" /\ call = Idle /\ Discard
        /\ UNCHANGED <<root, call, held, scheduled, highest, sent>>
      BY <1>5 DEF DiscardPending
  <2>2. QED
      BY <1>1, <2>1, DiscardBeyond
<1>6. CASE Start
    BY <1>1, <1>6, StartBeyond
<1>7. CASE CommitEdit
    BY <1>1, <1>7, CommitEditBeyond
<1>8. CASE CommitTransaction
    BY <1>1, <1>8, CommitBeyond
<1>9. CASE CleanupDraft
    BY <1>1, <1>9, CleanupBeyond
<1>10. CASE Return
    BY <1>1, <1>10, ReturnBeyond
<1>11. CASE Quiet
    BY <1>1, <1>11, QuietBeyond
<1>12. CASE Ends
    BY <1>1, <1>12, EndBeyond
<1>13. CASE RetryPending
    BY <1>1, <1>13, RetryBeyond
<1>14. CASE ResolvePendingConflict
    BY <1>1, <1>14, ResolveBeyond
<1>15. QED
    BY <1>1, <1>2, <1>3, <1>4, <1>5, <1>6, <1>7, <1>8, <1>9, <1>10, <1>11, <1>12, <1>13,
       <1>14 DEF Steps

LEMMA EditsInvariant == Spec => []EditsInv
<1>1. Init => EditsInv
    BY InitInv
<1>2. EditsInv /\ [Next]_vars => EditsInv'
    BY NextInv
<1>3. QED
    BY <1>1, <1>2, PTL DEF Spec

-----------------------------------------------------------------------------
(* What follows for every set of notes and every bound *)

\* Every variable of the worker, the window and the disk has its type, and a
\* transaction is retained in the Pending phase and in no other (PendingState,
\* worker.rs).
THEOREM EditsTypeCorrect == Spec => []EditsTypeOK
<1>1. EditsInv => EditsTypeOK
    BY DEF EditsInv, Typed
<1>2. QED
    BY <1>1, EditsInvariant, PTL

\* The text of an edit whose draft was persisted, or whose commit was accepted,
\* survives every failure, kill and power loss until the user discards it: it
\* is in every library or in every draft that the disk may hold (commit_edit
\* writes the draft first; cleanup_draft removes it after the commit).
THEOREM EditsSurvive == Spec => []EditSurvives
<1>1. EditsInv => EditSurvives
  <2> SUFFICES ASSUME EditsInv
               PROVE  EditSurvives
      OBVIOUS
  <2>1. ASSUME NEW n \in Notes,
               NEW lib \in Images(root["library"]), NEW draft \in Images(drafts[n])
        PROVE  \/ lib.notes[n].locked /\ spent["discards"] > 0
               \/ lib.notes[n].text >= taken[n]
               \/ taken[n] \in lib.copies
               \/ draft # NoFile /\ draft.text >= taken[n]
    <3>1. Survives(n) /\ taken[n] \in Nat
        BY Fields DEF EditsInv, Survival
    <3>2. Kept(n, lib) \/ (draft # NoFile /\ draft.text = taken[n])
        BY <2>1, <3>1 DEF Survives, Lib
    <3>3. QED
        BY <3>1, <3>2 DEF Kept
  <2>2. QED
      BY <2>1, Zenon DEF EditSurvives
<1>2. QED
    BY <1>1, EditsInvariant, PTL

\* A draft on the disk is offered for restoring only when it is newer than its
\* note: one that a power loss brought back is identical or of an earlier
\* revision (ReadyState::new, DraftRecoveryKind).
THEOREM StaleNeverAppliesHolds == Spec => []StaleNeverApplies
<1>1. EditsInv => StaleNeverApplies
  <2> SUFFICES ASSUME EditsInv
               PROVE  StaleNeverApplies
      OBVIOUS
  <2>1. ASSUME NEW n \in Notes,
               NEW lib \in Images(Lib), NEW draft \in Images(drafts[n]) \ {NoFile},
               ~Prunable(draft, lib.notes[n]), Applicable(draft, lib.notes[n])
        PROVE  draft.text > lib.notes[n].text
    <3>1. /\ draft.base = lib.notes[n].rev => draft.text >= lib.notes[n].text
        BY DEF EditsInv, DraftOrder
    <3>2. draft.text \in Nat /\ lib.notes[n].text \in Nat
      <4>1. Typed
          BY DEF EditsInv
      <4>2. lib \in Snapshots /\ draft \in DraftRecords
          BY <2>1, <4>1, FileTypes
      <4>3. QED
          BY <4>2, SnapshotFields, Constants DEF DraftRecords
    <3>3. QED
        BY <2>1, <3>1, <3>2 DEF Prunable, Applicable
  <2>2. QED
      BY <2>1 DEF StaleNeverApplies, Lib
<1>2. QED
    BY <1>1, EditsInvariant, PTL

\* While no file operation has failed, a locked note has no plaintext draft in
\* the Ready phase: lock_note removes it, and startup prunes what a power loss
\* brought back.
THEOREM LockedHasNoDraftHolds == Spec => []LockedHasNoDraft
<1>1. EditsInv => LockedHasNoDraft
    BY DEF EditsInv, Faultless, Clean, LockedHasNoDraft
<1>2. QED
    BY <1>1, EditsInvariant, PTL

\* While no file operation has failed, the drafts the worker lists for the
\* review are those on the disk (recoverable_drafts follows persist_draft and
\* cleanup_draft).
THEOREM ReviewMatchesDiskHolds == Spec => []ReviewMatchesDisk
<1>1. EditsInv => ReviewMatchesDisk
    BY DEF EditsInv, Faultless, Clean, ReviewMatchesDisk
<1>2. QED
    BY <1>1, EditsInvariant, PTL

\* What a step other than a power loss may make of the library file.
LEMMA NewestStep ==
    ASSUME EditsInv, Steps, spent'["losses"] = spent["losses"]
    PROVE  Lib'.now = Lib.now \/ (Lib.now = held /\ Follows(held, Lib'.now) /\ Lib'.now \in Live)
<1>1. Typed
    BY DEF EditsInv
<1>2. ASSUME NEW tx \in OpenTx, tx.candidate.rev = held.rev + 1
      PROVE  Follows(held, tx.candidate) /\ tx.candidate \in Live
  <2>1. Undecided(tx) /\ held.rev \in Nat /\ tx.candidate \in Live
      BY <1>1, LiveTypes DEF EditsInv, Open
  <2>2. QED
      BY <1>2, <2>1 DEF Undecided
<1>3. CASE CommitTransaction
  <2>1. PICK x : x = call.tx.candidate
      OBVIOUS
  <2>2. /\ call.at = "commit" /\ x \in Snapshots
        /\ \E r \in SaveResults(x) : root' = r.dir
      BY <1>1, <1>3, <2>1, CommitCases DEF Transactions
  <2>3. \/ root' = root
        \/ Lib'.now = x /\ Lib.now = held /\ x.rev = held.rev + 1
      BY <1>1, <2>2, SaveImages DEF Lib
  <2>4. call.tx \in OpenTx
      BY <2>2 DEF OpenTx
  <2>5. QED
      BY <1>2, <2>1, <2>3, <2>4 DEF Lib
<1>4. CASE Ends
  <2>1. \/ Lib'.now = Lib.now
        \/ /\ call.at = "commit" /\ Lib.now = held
           /\ call.tx.candidate.rev = held.rev + 1 /\ Lib'.now = call.tx.candidate
      BY <1>1, <1>4, EndDisk DEF EndNow
  <2>2. call.at = "commit" => call.tx \in OpenTx
      BY DEF OpenTx
  <2>3. QED
      BY <1>2, <2>1, <2>2
<1>5. CASE Start
    BY <1>1, <1>5, StartCases, FileTypes, SyncImages DEF Lib
<1>6. CASE RetryPending
  <2>1. root' = root \/ root' = Sync(root)
      BY <1>1, <1>6, RetryCases
  <2>2. QED
      BY <1>1, <2>1, FileTypes, SyncImages DEF Lib
<1>7. ASSUME NEW n \in Notes, NEW g \in Generations, Type(n, g) \/ RestoreDraft(n, g)
      PROVE  root' = root
    BY <1>1, <1>7, EditsScheduled, ScheduleCases
<1>8. CASE \/ Quiet \/ CommitEdit \/ CleanupDraft \/ Return
           \/ \E c \in Continuations : Flushes(c)
  <2>1. CASE CommitEdit
      BY <1>1, <2>1, CommitEditCases, Zenon DEF Lib
  <2>2. CASE CleanupDraft
      BY <1>1, <2>2, CleanupCases, Zenon DEF Lib
  <2>3. CASE Return
      BY <1>1, <2>3, ReturnCases, Zenon DEF Lib
  <2>4. CASE Quiet
      BY <2>4, Zenon DEF Quiet, Lib
  <2>5. ASSUME NEW c \in Continuations, Flushes(c)
        PROVE  root' = root
      BY <2>5, Zenon DEF Flushes, FlushThen
  <2>6. QED
      BY <1>8, <2>1, <2>2, <2>3, <2>4, <2>5 DEF Lib
<1>9. CASE DiscardPending \/ ResolvePendingConflict \/ \E n \in Notes : DiscardDraft(n)
  <2>1. root' = root
      BY <1>1, <1>9, ResolveCases, DiscardDraftCases DEF DiscardPending
  <2>2. QED
      BY <2>1 DEF Lib
<1>10. QED
    BY <1>3, <1>4, <1>5, <1>6, <1>7, <1>8, <1>9 DEF Steps, Lib

\* Short of a power loss the library file never goes back to an older text of
\* a note, whatever the order of edits, restored drafts, retries and conflicts
\* (EditScheduler's generations, note_mut's expected revision, save_locked's
\* check of the held snapshot).
THEOREM NewestAlwaysWins == Spec => NewestWins
<1>1. ASSUME EditsInv, [Next]_vars
      PROVE  spent'["losses"] = spent["losses"] =>
               \A n \in Notes :
                 root'["library"].now.notes[n].text >= root["library"].now.notes[n].text
  <2> SUFFICES ASSUME spent'["losses"] = spent["losses"], NEW n \in Notes
               PROVE  Lib'.now.notes[n].text >= Lib.now.notes[n].text
      BY DEF Lib
  <2>1. Typed /\ Steps
      BY <1>1, NextSteps DEF EditsInv
  <2>2. \/ Lib'.now = Lib.now
        \/ Lib.now = held /\ Follows(held, Lib'.now) /\ Lib'.now \in Live
      BY <1>1, <2>1, NewestStep
  <2>3. /\ Lib.now \in Snapshots /\ held \in Snapshots /\ Live \subseteq Snapshots
        /\ Lib.now.notes[n].text \in Nat
      BY <2>1, LiveTypes, SnapshotFields
  <2>4. QED
      BY <2>2, <2>3, FollowsOrder, SnapshotFields
<1>2. QED
    BY <1>1, EditsInvariant, PTL DEF Spec, NewestWins
=============================================================================
