-------------------------- MODULE FinderTrashProofs --------------------------
(***************************************************************************)
(* Theorems about FinderTrash, for every number of names, receipts, calls, *)
(* changes by other programs and failures: its types, that a hidden delete *)
(* stage always has its record, that an item in the Trash always has its   *)
(* metadata, and that no item is lost.                                     *)
(***************************************************************************)
EXTENDS FinderTrash, WellFoundedInduction, TLAPS

(* The inductive invariant *)

Calls == {"none", "trash", "restore", "delete", "undo", "list", "review", "resolve"}
Runs == [ pc : Pcs, phase : {"none", "recover", "main"}, op : Calls,
          cur : Record \cup {NoFile}, rid : Ids \cup {0}, made : Nat ]
Items == [slot : Slots, tree : Tree, ino : Nat, body : {"ours", "other"}]
Reviews == [ rec : Record, src : Tree \cup {NoFile}, data : Tree \cup {NoFile},
             del : Tree \cup {NoFile}, info : Info \cup {NoFile} ]
Budgets == [calls : Nat, outside : Nat, faults : Nat, fresh : Nat]
Ghosts == [removed : SUBSET Nat, condemned : SUBSET Nat, touched : SUBSET Places]

Typed ==
    /\ disk \in Disk /\ stable \in Disk
    /\ run \in Runs
    /\ seen \in Items \cup {NoFile}
    /\ review \in Reviews \cup {NoFile}
    /\ budget \in Budgets
    /\ ghost \in Ghosts

\* What the record of disk d may be: it validates, its deletion was confirmed,
\* it rebuilds readable metadata, and only under a name others touched.
Journaled(d) ==
    d.journal # NoFile =>
        /\ Valid(d.journal) /\ d.journal.stage \in Stages[d.journal.op]
        /\ d.journal.op = "delete" => d.journal.tree.obj \in ghost.condemned
        /\ d.journal.intent \in {"RebuildMetadata", "ReturnAndRebuild"} =>
              d.journal.slot \in ghost.touched /\ d.journal.rbody # "torn"
        /\ d.journal.intent = "PreserveConflicting" => d.journal.rbody # "torn"
        /\ d.journal.intent = "RebuildMetadata" => d.tree[Stage] = NoFile

Complete(d, s) ==
    s \in ghost.touched \/ (d.info[s] # NoFile /\ d.info[s].body # "torn")
Vacant(d, s) == s \in ghost.touched \/ d.tree[s] = NoFile

\* The staged item has its record, and its metadata under its name.
Owned(d) ==
    d.tree[Stage] # NoFile =>
        /\ d.journal # NoFile /\ d.journal.op = "delete"
        /\ d.journal.stage \in {"DeletePrepared", "DeleteDataStaged"}
        /\ Complete(d, d.journal.slot)

Listed(d) == \A s \in Slots : d.tree[s] # NoFile => Complete(d, s)

Consistent(d) == Journaled(d) /\ Owned(d) /\ Listed(d)

\* The steps that work on the record of a trash, of a put-back, of a deletion,
\* and on an accepted resolution.
TrashPcs == {"info", "fill", "publish", "adopt", "recheck", "move", "moved",
             "unpublish", "unpublishagain", "dropagain"}
RestorePcs == {"restorecheck", "putback", "putbackcheck", "restored",
               "restoreinfo", "restoreunlink", "restoreend"}
PreparedPcs == {"deletecheck", "stage", "stagecheck", "staged"}
StagedPcs == {"erase", "erasepartial", "remove", "erased"}
ErasedPcs == {"forget", "forgetdrop", "deleteinfo", "deleteend"}
ReturnPcs == {"returned", "return", "returncheck"}
RebuiltPcs == {"rebuildinfo", "rebuildcreate", "rebuildfill", "rebuildsave",
               "rebuilt", "rebuiltall"}
RebuildPcs == {"rebuild", "rebuildmove"} \cup RebuiltPcs
KeepPcs == {"keep", "keepcreate", "keepfill", "keepsave", "keepcheck",
            "keepinfo", "keepnew", "keepnewfill", "keepbind", "keepmove",
            "keepwithdraw", "keepverify"}
RecordPcs == TrashPcs \cup RestorePcs \cup PreparedPcs \cup StagedPcs
             \cup ErasedPcs \cup ReturnPcs \cup RebuildPcs \cup KeepPcs
             \cup {"pending", "drop", "archive", "finish"}
UndoPcs == {"infer", "undocheck", "undoinfo", "undofill", "undopublish",
            "undomove", "undomoved", "undounlink", "undofinish"}

\* The record that run r works on is the one on disk d, of the kind it expects.
OnRecord(d, r) ==
    /\ r.pc \in RecordPcs => d.journal # NoFile /\ r.cur = d.journal
    /\ r.pc \in {"go", "activate"} \cup UndoPcs => d.journal = NoFile
    /\ r.pc \in TrashPcs => r.cur.op = "trash" /\ r.cur.intent = "none"
    /\ r.pc \in RestorePcs => r.cur.op = "restore" /\ r.cur.intent = "none"
    /\ r.pc \in PreparedPcs \cup StagedPcs \cup ErasedPcs =>
          r.cur.op = "delete" /\ r.cur.intent = "none"
    /\ r.pc \in PreparedPcs => r.cur.stage = "DeletePrepared"
    /\ r.pc \in StagedPcs => r.cur.stage = "DeleteDataStaged"
    /\ r.pc \in ErasedPcs => r.cur.stage \in {"DeleteDataRemoved", "DeleteInfoRemoved"}
    /\ r.pc \in {"archive", "finish"} => r.cur.op \in {"trash", "restore"}
    /\ r.pc \in ReturnPcs => r.cur.intent = "ReturnDeleteStage"
    /\ r.pc \in RebuildPcs => r.cur.intent \in {"RebuildMetadata", "ReturnAndRebuild"}
    /\ r.pc = "rebuiltall" => r.cur.op = "trash"
    /\ r.pc \in KeepPcs => r.cur.intent = "PreserveConflicting"

\* What run r, its user and its review know of each other.
OnCall(d, r) ==
    /\ r.op \in {"restore", "delete"} /\ r.pc # "idle" => seen # NoFile
    /\ r.op = "delete" /\ r.pc # "idle" => seen.tree.obj \in ghost.condemned
    /\ r.pc = "validate" => review # NoFile
    /\ r.pc \in UndoPcs => r.rid \in Ids /\ d.undo[r.rid] # NoFile

Made(d, r, s) ==
    s \in ghost.touched \/ (d.info[s] # NoFile /\ d.info[s].ino = r.made)

\* What run r has found of the files, or made of them, and relies on.
OnFiles(d, r) ==
    /\ r.pc \in {"drop", "deletecheck", "returncheck"} \cup RebuiltPcs =>
          d.tree[Stage] = NoFile
    /\ r.pc \in TrashPcs \ {"moved", "dropagain"} => Vacant(d, r.cur.slot)
    /\ r.pc = "fill" => Made(d, r, r.cur.slot)
    /\ r.pc \in {"publish", "adopt", "recheck", "move"} => Complete(d, r.cur.slot)
    /\ r.pc \in {"putbackcheck", "restored", "restoreinfo", "restoreunlink",
                 "forget", "deleteinfo"} => Vacant(d, r.cur.slot)
    /\ r.pc \in {"keepinfo", "keepnew", "keepnewfill", "keepbind", "keepmove"} =>
          d.tree[Stage] = NoFile \/ Vacant(d, r.cur.rslot)
    /\ r.pc = "keepnewfill" => Made(d, r, r.cur.rslot)
    /\ r.pc \in {"keepbind", "keepmove"} => Complete(d, r.cur.rslot)
    /\ r.pc = "undomove" /\ d.undo[r.rid].kind = "restore" =>
          Complete(d, d.undo[r.rid].slot)
    /\ r.pc = "undomoved" /\ d.undo[r.rid].kind = "trash" =>
          Vacant(d, d.undo[r.rid].slot)
    /\ r.pc = "undounlink" => Vacant(d, d.undo[r.rid].slot)

Goes(d, r) == OnRecord(d, r) /\ OnCall(d, r) /\ OnFiles(d, r)

TrashInv == Typed /\ Consistent(disk) /\ Consistent(stable) /\ Goes(disk, run)

\* What NothingLost says of one step.
NoneLost ==
    \A o \in 1 .. budget.fresh :
        (Holds(disk, o) /\ Holds(stable, o)) =>
           \/ Holds(disk', o) /\ Holds(stable', o)
           \/ o \in ghost'.removed \cup ghost'.condemned

-----------------------------------------------------------------------------
(* A step leaves the disk as d and goes on as run r *)

Kept(d) == \A o \in Nat : Holds(disk, o) => Holds(d, o) \/ o \in ghost.condemned

Safe(d, r) == d \in Disk /\ Consistent(d) /\ Kept(d) /\ r \in Runs /\ Goes(d, r)

Good == TrashInv' /\ NoneLost

LEMMA IdleGoes == Idle \in Runs /\ \A d : Goes(d, Idle)
BY DEF Idle, Runs, Pcs, Calls, Goes, OnRecord, OnCall, OnFiles, RecordPcs, TrashPcs,
       RestorePcs, PreparedPcs, StagedPcs, ErasedPcs, ReturnPcs, RebuildPcs,
       RebuiltPcs, KeepPcs, UndoPcs

LEMMA CommitSafe ==
    ASSUME TrashInv, NEW d, NEW r, Safe(d, r), Commit(d, r)
    PROVE  Good
<1>1. disk' = d /\ (stable' = d \/ stable' = stable) /\ run' \in {r, Idle}
    BY DEF Commit
<1>2. /\ seen' = seen /\ review' = review /\ ghost' = ghost
      /\ budget' \in Budgets /\ budget'.fresh = budget.fresh
    BY DEF Commit, held, TrashInv, Typed, Budgets
<1>3. Typed'
    BY <1>1, <1>2, IdleGoes DEF Typed, TrashInv, Safe
<1>4. Consistent(disk)' /\ Consistent(stable)'
    BY <1>1, <1>2 DEF TrashInv, Safe, Consistent, Journaled, Owned, Listed, Complete
<1>5. Goes(disk, run)'
  <2>1. run' \in {r, Idle} /\ Goes(d, r) /\ Goes(d, Idle) /\ disk' = d
      BY <1>1, IdleGoes DEF Safe
  <2>2. OnRecord(disk, run)'
      BY <2>1 DEF Goes, OnRecord
  <2>3. OnCall(disk, run)'
      BY <1>2, <2>1 DEF Goes, OnCall
  <2>4. OnFiles(disk, run)'
      BY <1>2, <2>1 DEF Goes, OnFiles, Made, Complete, Vacant
  <2>5. QED
      BY <2>2, <2>3, <2>4 DEF Goes
<1>6. NoneLost
    BY <1>1, <1>2 DEF NoneLost, Safe, Kept, TrashInv, Typed, Budgets
<1>7. QED
    BY <1>3, <1>4, <1>5, <1>6 DEF Good, TrashInv

LEMMA DecideSafe ==
    ASSUME TrashInv, NEW r, r \in Runs, Goes(disk, r), Decide(r)
    PROVE  Good
<1>1. /\ disk' = disk /\ stable' = stable /\ run' = r
      /\ seen' = seen /\ review' = review /\ ghost' = ghost /\ budget' = budget
    BY DEF Decide, held
<1>2. Typed' /\ NoneLost
    BY <1>1 DEF Typed, TrashInv, NoneLost, Holds
<1>3. Consistent(disk)' /\ Consistent(stable)'
    BY <1>1 DEF TrashInv, Consistent, Journaled, Owned, Listed, Complete
<1>4. Goes(disk, run)'
    BY <1>1 DEF Goes, OnRecord, OnCall, OnFiles, Made, Complete, Vacant
<1>5. QED
    BY <1>2, <1>3, <1>4 DEF Good, TrashInv

-----------------------------------------------------------------------------
(* The changes that calls make to the disk *)

LEMMA PlaceFacts ==
    /\ Stage \in Nat /\ Source \in Nat /\ Stage \in Places /\ Source \in Places
    /\ Slots \subseteq Places /\ Stage \notin Slots /\ Source \notin Slots
    /\ Stage # Source /\ NSlots \in Nat
BY TrashAssumption DEF Stage, Source, Places, Slots

\* The record is replaced or removed; the files stay.
LEMMA JournalKeeps ==
    ASSUME NEW d \in Disk, Consistent(d), NEW rec \in Record \cup {NoFile},
           Journaled([d EXCEPT !.journal = rec]),
           d.tree[Stage] # NoFile =>
              /\ rec # NoFile /\ rec.op = "delete" /\ rec.slot = d.journal.slot
              /\ rec.stage \in {"DeletePrepared", "DeleteDataStaged"}
    PROVE  [d EXCEPT !.journal = rec] \in Disk /\ Consistent([d EXCEPT !.journal = rec])
<1> DEFINE e == [d EXCEPT !.journal = rec]
<1>1. e \in Disk /\ e.tree = d.tree /\ e.info = d.info /\ e.journal = rec
    BY DEF Disk
<1>2. Owned(e)
    BY <1>1 DEF Consistent, Owned, Complete
<1>3. Listed(e)
    BY <1>1 DEF Consistent, Listed, Complete
<1>4. QED
    BY <1>1, <1>2, <1>3 DEF Consistent

\* A metadata file is changed.  It stays readable, or neither an item under
\* its name nor the staged one needs it.
LEMMA InfoKeeps ==
    ASSUME NEW d \in Disk, Consistent(d), NEW s \in Slots, NEW i \in Info \cup {NoFile},
           \/ s \in ghost.touched
           \/ i # NoFile /\ i.body # "torn"
           \/ d.tree[s] = NoFile /\ (d.tree[Stage] = NoFile \/ d.journal.slot # s)
    PROVE  [d EXCEPT !.info[s] = i] \in Disk /\ Consistent([d EXCEPT !.info[s] = i])
<1> DEFINE e == [d EXCEPT !.info[s] = i]
<1>1. /\ e \in Disk /\ e.tree = d.tree /\ e.journal = d.journal
      /\ \A t \in Slots : e.info[t] = IF t = s THEN i ELSE d.info[t]
    BY DEF Disk
<1>2. \A t \in Slots \ {s} : Complete(d, t) <=> Complete(e, t)
    BY <1>1 DEF Complete
<1>3. s \in ghost.touched \/ (i # NoFile /\ i.body # "torn") => Complete(e, s)
    BY <1>1 DEF Complete
<1>4. d.journal # NoFile => d.journal.slot \in Slots
    BY DEF Disk, Record
<1>5. Journaled(e)
    BY <1>1 DEF Consistent, Journaled
<1>6. Owned(e)
    BY <1>1, <1>2, <1>3, <1>4 DEF Consistent, Owned
<1>7. Listed(e)
    BY <1>1, <1>2, <1>3 DEF Consistent, Listed
<1>8. QED
    BY <1>1, <1>5, <1>6, <1>7 DEF Consistent

\* A metadata file is created where there is none: whoever would need it lost
\* it to others.
LEMMA CreateKeeps ==
    ASSUME NEW d \in Disk, Consistent(d), NEW s \in Slots, NEW i \in Info, d.info[s] = NoFile
    PROVE  [d EXCEPT !.info[s] = i] \in Disk /\ Consistent([d EXCEPT !.info[s] = i])
<1>1. ~Complete(d, s) \/ s \in ghost.touched
    BY DEF Complete
<1>2. s \in ghost.touched \/ d.tree[s] = NoFile
    BY <1>1 DEF Consistent, Listed
<1>3. s \in ghost.touched \/ d.tree[Stage] = NoFile \/ d.journal.slot # s
    BY <1>1 DEF Consistent, Owned
<1>4. QED
    BY <1>2, <1>3, InfoKeeps

\* Receipts are about finished operations and do not matter to the files.
LEMMA UndoKeeps ==
    ASSUME NEW d \in Disk, Consistent(d), NEW u \in [Ids -> Receipt \cup {NoFile}]
    PROVE  [d EXCEPT !.undo = u] \in Disk /\ Consistent([d EXCEPT !.undo = u])
<1> DEFINE e == [d EXCEPT !.undo = u]
<1>1. e \in Disk /\ e.tree = d.tree /\ e.info = d.info /\ e.journal = d.journal
    BY DEF Disk
<1>2. QED
    BY <1>1 DEF Consistent, Journaled, Owned, Listed, Complete

LEMMA Moved ==
    ASSUME NEW d \in Disk, NEW p \in Places, NEW q \in Places, p # q, d.tree[p] # NoFile
    PROVE  LET e == Move(d, p, q)
           IN /\ e \in Disk /\ e.info = d.info /\ e.journal = d.journal /\ e.undo = d.undo
              /\ e.tree[q] # NoFile /\ e.tree[q].obj = d.tree[p].obj
              /\ e.tree[p] = NoFile
              /\ \A x \in Places \ {p, q} : e.tree[x] = d.tree[x]
<1> DEFINE t == [d.tree[p] EXCEPT !.at = @ + 1]
           e == Move(d, p, q)
<1>1. d.tree[p] \in Tree /\ d.tree \in [Places -> Tree \cup {NoFile}]
    BY DEF Disk
<1>2. t \in Tree /\ t.obj = d.tree[p].obj /\ t # NoFile
    BY <1>1, NothingIsAFile DEF Tree
<1> DEFINE m == [d.tree EXCEPT ![q] = t, ![p] = NoFile]
           h == IF Source \in {p, q} THEN d.home + 1 ELSE d.home
<1>3. e = [d EXCEPT !.tree = m, !.home = h]
    BY DEF Move
<1>4. m \in [Places -> Tree \cup {NoFile}] /\ h \in Nat
    BY <1>1, <1>2 DEF Disk
<1>5. /\ m[q] # NoFile /\ m[q].obj = d.tree[p].obj /\ m[p] = NoFile
      /\ \A x \in Places \ {p, q} : m[x] = d.tree[x]
    BY <1>1, <1>2
<1> HIDE DEF m, h, t
<1>6. /\ e.tree = m /\ e \in Disk /\ e.info = d.info /\ e.journal = d.journal
      /\ e.undo = d.undo
    BY <1>3, <1>4 DEF Disk
<1>7. QED
    BY <1>5, <1>6

\* An item is renamed: into the Trash next to its metadata, out of it, or to
\* the stage by the record that owns it.
LEMMA MoveKeeps ==
    ASSUME NEW d \in Disk, Consistent(d), NEW p \in Places, NEW q \in Places, p # q,
           d.tree[p] # NoFile, d.tree[q] = NoFile,
           q \in Slots => Complete(d, q),
           q = Stage => /\ d.journal # NoFile /\ d.journal.op = "delete"
                        /\ d.journal.stage = "DeletePrepared"
                        /\ d.journal.intent = "none" /\ d.journal.slot = p /\ p \in Slots
    PROVE  Move(d, p, q) \in Disk /\ Consistent(Move(d, p, q))
<1> DEFINE e == Move(d, p, q)
<1> HIDE DEF e
<1>1. /\ e \in Disk /\ e.info = d.info /\ e.journal = d.journal
      /\ e.tree[p] = NoFile /\ \A x \in Places \ {p, q} : e.tree[x] = d.tree[x]
    BY Moved DEF e
<1>2. \A s \in Slots : Complete(e, s) <=> Complete(d, s)
    BY <1>1 DEF Complete
<1>3. Journaled(e)
  <2>1. d.journal.intent = "RebuildMetadata" /\ d.journal # NoFile => e.tree[Stage] = NoFile
      BY <1>1, PlaceFacts DEF Consistent, Journaled
  <2>2. QED
      BY <1>1, <2>1 DEF Consistent, Journaled
<1>4. d.journal # NoFile => d.journal.slot \in Slots
    BY DEF Disk, Record
<1>5. Owned(e)
  <2>1. CASE q = Stage
      BY <1>1, <1>2, <1>4, <2>1, PlaceFacts DEF Owned, Consistent, Listed
  <2>2. CASE q # Stage
      BY <1>1, <1>2, <1>4, <2>2, PlaceFacts DEF Owned, Consistent
  <2>3. QED
      BY <2>1, <2>2
<1>6. Listed(e)
    BY <1>1, <1>2, PlaceFacts DEF Listed, Consistent
<1>7. QED
    BY <1>1, <1>3, <1>5, <1>6 DEF Consistent, e

LEMMA MoveHolds ==
    ASSUME disk \in Disk, NEW p \in Places, NEW q \in Places, p # q,
           disk.tree[p] # NoFile, disk.tree[q] = NoFile
    PROVE  Kept(Move(disk, p, q))
<1> DEFINE e == Move(disk, p, q)
<1> HIDE DEF e
<1>1. /\ e.tree[q] # NoFile /\ e.tree[q].obj = disk.tree[p].obj
      /\ \A x \in Places \ {p, q} : e.tree[x] = disk.tree[x]
    BY Moved DEF e
<1>2. QED
    BY <1>1 DEF Kept, Holds, e

LEMMA TreeHolds == ASSUME NEW d, d.tree = disk.tree PROVE Kept(d)
BY DEF Kept, Holds
-----------------------------------------------------------------------------
(* Where a call goes on *)

\* A run at a step that relies on nothing.
LEMMA FreeGoes ==
    ASSUME NEW d, NEW r, OnCall(d, r),
           r.pc \in {"recover", "capture", "validate", "idle"}
    PROVE  Goes(d, r)
BY DEF Goes, OnRecord, OnFiles, RecordPcs, TrashPcs, RestorePcs, PreparedPcs, StagedPcs,
       ErasedPcs, ReturnPcs, RebuildPcs, RebuiltPcs, KeepPcs, UndoPcs

LEMMA PendingGoes ==
    ASSUME run \in Runs, NEW d, Goes(d, run), ~At("idle")
    PROVE  Pending \in Runs /\ Goes(d, Pending)
<1>1. Pending \in Runs
    BY IdleGoes DEF Pending, Runs, Pcs
<1>2. CASE Pending = Idle
    BY <1>1, <1>2, IdleGoes
<1>3. CASE Pending # Idle
  <2>1. Pending.pc = "capture" /\ Pending.op = run.op
      BY <1>3 DEF Pending, Runs
  <2>2. OnCall(d, Pending)
      BY <2>1 DEF OnCall, Goes, At, UndoPcs
  <2>3. QED
      BY <1>1, <2>1, <2>2, FreeGoes
<1>4. QED
    BY <1>2, <1>3

LEMMA FinishedGoes ==
    ASSUME run \in Runs, Goes(disk, run), ~At("idle"), NEW d
    PROVE  Finished \in Runs /\ Goes(d, Finished)
<1>1. Finished \in Runs
  <2>1. [run EXCEPT !.pc = "recover", !.cur = NoFile] \in Runs
      BY DEF Runs, Pcs
  <2>2. [Idle EXCEPT !.pc = "recover", !.phase = "recover", !.op = "review"] \in Runs
    <3>1. "recover" \in Pcs /\ "review" \in Calls
        BY DEF Pcs, Calls
    <3> QED BY <3>1, IdleGoes DEF Runs
  <2>4. QED
      BY <2>1, <2>2, IdleGoes DEF Finished
<1>2. CASE Finished = Idle
    BY <1>1, <1>2, IdleGoes
<1>3. CASE Finished # Idle
  <2>1. Finished.pc = "recover" /\ Finished.op \in {run.op, "review"}
      BY <1>3 DEF Finished, Runs, Idle
  <2>2. OnCall(d, Finished)
      BY <2>1 DEF OnCall, Goes, At, UndoPcs
  <2>3. QED
      BY <1>1, <2>1, <2>2, FreeGoes
<1>4. QED
    BY <1>2, <1>3

\* The step of a run that only moves on.
LEMMA GoRuns ==
    ASSUME run \in Runs, NEW pc \in Pcs
    PROVE  /\ Go(pc) \in Runs /\ Go(pc).pc = pc /\ Go(pc).cur = run.cur
           /\ Go(pc).op = run.op /\ Go(pc).rid = run.rid /\ Go(pc).made = run.made
BY DEF Go, Runs

\* The record that the call works on.
LEMMA Working ==
    ASSUME TrashInv, run.pc \in RecordPcs
    PROVE  /\ disk.journal = R /\ R \in Record /\ R # NoFile
           /\ R.slot \in Slots /\ R.slot \in Places /\ R.slot # Stage /\ R.slot # Source
           /\ R.tree \in Tree
           /\ Valid(R) /\ R.stage \in Stages[R.op] /\ R.op \in Operations
<1>1. disk.journal = R /\ R # NoFile /\ R \in Record
    BY DEF TrashInv, Typed, Goes, OnRecord, Disk, R
<1>2. QED
    BY <1>1, PlaceFacts DEF TrashInv, Consistent, Journaled, Record

LEMMA ValidNone ==
    ASSUME NEW rec, rec.intent = "none"
    PROVE  Valid(rec) <=> rec.rtree = NoFile /\ rec.ptree = NoFile
                          /\ rec.pino = 0 /\ rec.rslot = 0
BY DEF Valid, HasConflictState

\* Persisting a record at a step of the call.
LEMMA PersistSafe ==
    ASSUME TrashInv, NEW rec \in Record, NEW next \in Pcs,
           Valid(rec) /\ rec.stage \in Stages[rec.op],
           rec.op = "delete" => rec.tree.obj \in ghost.condemned,
           rec.intent \in {"RebuildMetadata", "ReturnAndRebuild"} =>
              rec.slot \in ghost.touched /\ rec.rbody # "torn",
           rec.intent = "PreserveConflicting" => rec.rbody # "torn",
           rec.intent = "RebuildMetadata" => ~Exists(Stage),
           Exists(Stage) => /\ rec.op = "delete" /\ rec.slot = disk.journal.slot
                            /\ rec.stage \in {"DeletePrepared", "DeleteDataStaged"},
           \A d, r : /\ d.journal = rec /\ d.tree = disk.tree /\ d.info = disk.info
                     /\ d.undo = disk.undo
                     /\ r.pc = next /\ r.cur = rec /\ r.op = run.op /\ r.rid = run.rid
                     /\ r.made = run.made
                     => Goes(d, r),
           Persist(rec, next)
    PROVE  Good
<1> DEFINE d == [disk EXCEPT !.journal = rec]
           r == [run EXCEPT !.cur = rec, !.pc = next]
<1>1. disk \in Disk /\ run \in Runs /\ Consistent(disk)
    BY DEF TrashInv, Typed
<1>2. /\ d.journal = rec /\ d.tree = disk.tree /\ d.info = disk.info
      /\ d.undo = disk.undo
    BY <1>1 DEF Disk
<1>3. /\ r.pc = next /\ r.cur = rec /\ r.op = run.op /\ r.rid = run.rid
      /\ r.made = run.made /\ r \in Runs
    BY <1>1 DEF Runs
<1>4. Journaled(d)
    BY <1>2 DEF Journaled, Exists
<1>5. d \in Disk /\ Consistent(d)
    BY <1>1, <1>4, JournalKeeps, NothingIsAFile DEF Exists
<1>6. Commit(d, r)
    BY DEF Persist
<1> HIDE DEF d, r
<1>7. Goes(d, r) /\ Kept(d)
    BY <1>2, <1>3, TreeHolds
<1>8. QED
    BY <1>3, <1>5, <1>6, <1>7, CommitSafe DEF Safe

-----------------------------------------------------------------------------
(* Recovery *)

USE DEF RecordPcs, TrashPcs, RestorePcs, PreparedPcs, StagedPcs, ErasedPcs, ReturnPcs,
        RebuildPcs, RebuiltPcs, KeepPcs, UndoPcs

\* Only the record of a deletion has a staged item.
LEMMA StageFacts ==
    ASSUME TrashInv, disk.journal = NoFile \/ disk.journal.op # "delete"
                     \/ disk.journal.stage \notin {"DeletePrepared", "DeleteDataStaged"}
    PROVE  ~Exists(Stage)
BY DEF TrashInv, Consistent, Owned, Exists

\* The metadata that a record matches is readable.
LEMMA MatchComplete ==
    ASSUME NEW rec \in Record, InfoMatches(rec)
    PROVE  Complete(disk, rec.slot) /\ disk.info[rec.slot] # NoFile
BY DEF InfoMatches, InfoExists, Complete, Record

LEMMA RecoverTrashGoes ==
    ASSUME TrashInv, NEW rec \in Record, disk.journal = rec, rec # NoFile,
           rec.op = "trash", rec.intent = "none",
           NEW r, OnCall(disk, r), r.cur = rec, r.pc = RecoverTrash(rec)
    PROVE  r.pc \in Pcs /\ Goes(disk, r)
<1>1. ~Exists(Stage)
    BY StageFacts
<1>2. \/ r.pc \in {"adopt", "move"} /\ ~Exists(rec.slot) /\ InfoMatches(rec)
      \/ r.pc \in {"drop", "archive", "pending"}
    BY DEF RecoverTrash
<1>3. CASE r.pc \in {"adopt", "move"} /\ ~Exists(rec.slot) /\ InfoMatches(rec)
    BY <1>3, MatchComplete DEF Goes, OnRecord, OnFiles, Vacant, Exists, Pcs
<1>4. CASE r.pc \in {"drop", "archive", "pending"}
    BY <1>1, <1>4 DEF Goes, OnRecord, OnFiles, Exists, Pcs
<1>5. QED
    BY <1>2, <1>3, <1>4

LEMMA RecoverRestoreGoes ==
    ASSUME TrashInv, NEW rec \in Record, disk.journal = rec, rec # NoFile,
           rec.op = "restore", rec.intent = "none",
           NEW r, OnCall(disk, r), r.cur = rec, r.pc = RecoverRestore(rec)
    PROVE  r.pc \in Pcs /\ Goes(disk, r)
<1>1. \/ r.pc \in {"restored", "restoreinfo"} /\ ~Exists(rec.slot)
      \/ r.pc \in {"putback", "archive", "pending"}
    BY DEF RecoverRestore
<1>2. CASE r.pc \in {"restored", "restoreinfo"} /\ ~Exists(rec.slot)
    BY <1>2 DEF Goes, OnRecord, OnFiles, Vacant, Exists, Pcs
<1>3. CASE r.pc \in {"putback", "archive", "pending"}
    BY <1>3 DEF Goes, OnRecord, OnFiles, Pcs
<1>4. QED
    BY <1>1, <1>2, <1>3

LEMMA RecoverDeleteGoes ==
    ASSUME TrashInv, NEW rec \in Record, disk.journal = rec, rec # NoFile,
           rec.op = "delete", rec.intent = "none",
           NEW r, OnCall(disk, r), r.cur = rec, r.pc = RecoverDelete(rec)
    PROVE  r.pc \in Pcs /\ Goes(disk, r)
<1>1. \/ r.pc \in {"stage", "staged"} /\ rec.stage = "DeletePrepared"
      \/ r.pc = "erasepartial" /\ rec.stage = "DeleteDataStaged"
      \/ r.pc = "forget" /\ rec.stage = "DeleteDataRemoved" /\ ~Exists(rec.slot)
      \/ r.pc = "forgetdrop" /\ rec.stage = "DeleteInfoRemoved"
      \/ r.pc = "pending"
    BY DEF RecoverDelete
<1>2. CASE r.pc \in {"stage", "staged"} /\ rec.stage = "DeletePrepared"
    BY <1>2 DEF Goes, OnRecord, OnFiles, Pcs
<1>3. CASE r.pc = "erasepartial" /\ rec.stage = "DeleteDataStaged"
    BY <1>3 DEF Goes, OnRecord, OnFiles, Pcs
<1>4. CASE r.pc = "forget" /\ rec.stage = "DeleteDataRemoved" /\ ~Exists(rec.slot)
    BY <1>4 DEF Goes, OnRecord, OnFiles, Vacant, Exists, Pcs
<1>5. CASE r.pc = "forgetdrop" /\ rec.stage = "DeleteInfoRemoved"
    BY <1>5 DEF Goes, OnRecord, OnFiles, Pcs
<1>6. CASE r.pc = "pending"
    BY <1>6 DEF Goes, OnRecord, OnFiles, Pcs
<1>7. QED
    BY <1>1, <1>2, <1>3, <1>4, <1>5, <1>6

LEMMA RecoverReturnedGoes ==
    ASSUME TrashInv, NEW rec \in Record, disk.journal = rec, rec # NoFile,
           rec.intent = "ReturnDeleteStage",
           NEW r, OnCall(disk, r), r.cur = rec, r.pc = RecoverReturned(rec)
    PROVE  r.pc \in Pcs /\ Goes(disk, r)
<1>1. \/ r.pc \in {"return", "pending"}
      \/ r.pc = "drop" /\ ~Exists(Stage)
    BY DEF RecoverReturned
<1>2. QED
    BY <1>1 DEF Goes, OnRecord, OnFiles, Exists, Pcs

\* recover_locked goes on as the record on disk allows.
LEMMA RecoverLockedSafe == TrashInv /\ RecoverLocked => Good
<1> SUFFICES ASSUME TrashInv, RecoverLocked PROVE Good
    OBVIOUS
<1>1. run \in Runs /\ run.pc = "recover" /\ Goes(disk, run)
    BY DEF RecoverLocked, At, TrashInv, Typed
<1>2. CASE disk.journal = NoFile
  <2> DEFINE r == [run EXCEPT !.phase = "main", !.pc = "go", !.cur = NoFile]
  <2> "go" \in Pcs
      BY DEF Pcs
  <2>1. r \in Runs /\ r.pc = "go" /\ r.op = run.op
      BY <1>1 DEF Runs
  <2>2. Goes(disk, r)
      BY <1>1, <1>2, <2>1 DEF Goes, OnRecord, OnCall, OnFiles
  <2>3. QED
      BY <1>2, <2>1, <2>2, DecideSafe DEF RecoverLocked
<1>3. CASE disk.journal # NoFile
  <2> DEFINE rec == disk.journal
             r == [run EXCEPT !.cur = rec, !.pc = Recovery(rec)]
  <2>1. rec \in Record /\ rec # NoFile /\ rec.op \in Operations /\ rec.intent \in Intents
      BY <1>3 DEF TrashInv, Typed, Disk, Record
  <2>2. r.pc = Recovery(rec) /\ r.cur = rec /\ r.op = run.op /\ r.rid = run.rid
      BY <1>1 DEF Runs
  <2>3. r.pc = "validate" \/ r.pc \in UndoPcs => FALSE
      BY <2>1, <2>2 DEF Recovery, RecoverTrash, RecoverRestore, RecoverDelete, RecoverReturned,
                        Operations, Intents
  <2>4. OnCall(disk, r)
      BY <1>1, <2>2, <2>3 DEF Goes, OnCall
  <2>5. r.pc \in Pcs /\ Goes(disk, r)
    <3> HIDE DEF rec, r
    <3>1. CASE rec.intent \in {"RebuildMetadata", "ReturnAndRebuild"}
      <4>1. r.pc = "rebuild"
          BY <2>2, <3>1 DEF Recovery
      <4>2. QED
          BY <2>1, <2>2, <2>4, <3>1, <4>1 DEF Goes, OnRecord, OnFiles, Pcs, rec
    <3>2. CASE rec.intent = "PreserveConflicting"
      <4>1. r.pc = "keep"
          BY <2>2, <3>2 DEF Recovery
      <4>2. QED
          BY <2>1, <2>2, <2>4, <3>2, <4>1 DEF Goes, OnRecord, OnFiles, Pcs, rec
    <3>3. CASE rec.intent = "ReturnDeleteStage"
        BY <2>1, <2>2, <2>4, <3>3, RecoverReturnedGoes DEF Recovery, rec
    <3>4. CASE rec.intent = "none"
        BY <2>1, <2>2, <2>4, <3>4, RecoverTrashGoes, RecoverRestoreGoes, RecoverDeleteGoes
           DEF Recovery, rec, Operations
    <3>5. QED
        BY <2>1, <3>1, <3>2, <3>3, <3>4 DEF Intents
  <2>6. r \in Runs
      BY <1>1, <2>1, <2>5 DEF Runs
  <2>7. Decide(r)
      BY <1>3 DEF RecoverLocked
  <2>8. QED
      BY <2>5, <2>6, <2>7, DecideSafe
<1>4. QED
    BY <1>2, <1>3

LEMMA StaysPendingSafe == TrashInv /\ StaysPending => Good
<1> SUFFICES ASSUME TrashInv, StaysPending PROVE Good
    OBVIOUS
<1>1. Pending \in Runs /\ Goes(disk, Pending)
    BY PendingGoes DEF StaysPending, At, TrashInv, Typed
<1>2. QED
    BY <1>1, DecideSafe DEF StaysPending

-----------------------------------------------------------------------------
(* The first free name and the latest receipt *)

LEMMA Smallest ==
    ASSUME NEW S \in SUBSET Nat, S # {}
    PROVE  \E s \in S : \A t \in S : s <= t
<1>1. PICK s \in S : \A t \in S : <<t, s>> \notin OpToRel(<, Nat)
    BY WFMin, NatLessThanWellFounded
<1>2. \A t \in S : ~(t < s)
    BY <1>1 DEF OpToRel
<1>3. QED
    BY <1>2

LEMMA LeastIn ==
    ASSUME NEW S \in SUBSET Slots, S # {}
    PROVE  Least(S) \in S
<1>1. S \in SUBSET Nat
    BY DEF Slots
<1>2. \E s \in S : \A t \in S : s <= t
    BY <1>1, Smallest
<1>3. QED
    BY <1>2 DEF Least

LEMMA LatestIn ==
    ASSUME NEW undo, Latest(undo) # 0
    PROVE  Latest(undo) \in Ids /\ undo[Latest(undo)] # NoFile
<1> DEFINE live == {i \in Ids : undo[i] # NoFile /\ undo[i].stage # "ForwardPending"}
           begun == {i \in live : undo[i].stage # "Ready"}
           from == IF begun # {} THEN begun ELSE live
           down == {MaxCalls - i : i \in from}
<1>1. from \in SUBSET live /\ live \in SUBSET Ids /\ \A i \in live : undo[i] # NoFile
    OBVIOUS
<1>2. /\ from # {}
      /\ Latest(undo) = CHOOSE i \in from : \A j \in from : j <= i
    BY DEF Latest
<1> HIDE DEF live, from
<1>3. MaxCalls \in Nat /\ \A i \in from : i \in Nat /\ i <= MaxCalls
    BY <1>1, TrashAssumption DEF Ids
<1>4. down \in SUBSET Nat /\ down # {}
    BY <1>2, <1>3
<1>5. PICK m \in down : \A n \in down : m <= n
  <2> HIDE DEF down
  <2> QED BY <1>4, Smallest
<1>6. PICK i \in from : m = MaxCalls - i
    BY <1>5
<1>7. \A j \in from : j <= i
    BY <1>3, <1>5, <1>6
<1>8. Latest(undo) \in from
    BY <1>2, <1>7
<1>9. QED
    BY <1>1, <1>8

-----------------------------------------------------------------------------
(* What the steps of several calls share *)

LEMMA Here ==
    ASSUME TrashInv
    PROVE  /\ disk \in Disk /\ Consistent(disk) /\ run \in Runs /\ Goes(disk, run)
           /\ budget \in Budgets /\ Kept(disk)
BY TreeHolds DEF TrashInv, Typed

\* What a call knows of its user stays true while it goes on.
LEMMA CallGoes ==
    ASSUME TrashInv, NEW d, NEW r, run.pc # "idle", r.op = run.op,
           r.pc \notin UndoPcs \cup {"validate"}
    PROVE  OnCall(d, r)
BY Here DEF Goes, OnCall

LEMMA IdleSafe == ASSUME TrashInv, Decide(Idle) PROVE Good
BY IdleGoes, DecideSafe

LEMMA PendingSafe == ASSUME TrashInv, ~At("idle"), Decide(Pending) PROVE Good
BY Here, PendingGoes, DecideSafe

\* A failure that changes no file.
LEMMA FaultSafe ==
    ASSUME TrashInv, NEW r, r \in Runs, Goes(disk, r),
           run' = r, budget' = [budget EXCEPT !.faults = @ + 1],
           UNCHANGED <<disk, stable, held, ghost>>
    PROVE  Good
<1>1. budget' \in Budgets /\ budget'.fresh = budget.fresh
    BY Here DEF Budgets
<1>2. Typed' /\ NoneLost
    BY <1>1 DEF Typed, TrashInv, NoneLost, Holds, held
<1>3. Consistent(disk)' /\ Consistent(stable)'
    BY DEF TrashInv, Consistent, Journaled, Owned, Listed, Complete
<1>4. Goes(disk, run)'
    BY DEF Goes, OnRecord, OnCall, OnFiles, Made, Complete, Vacant, held
<1>5. QED
    BY <1>2, <1>3, <1>4 DEF Good, TrashInv

\* create_info_file creates a file that is not yet readable.
LEMMA CreateSafe ==
    ASSUME TrashInv, NEW from, NEW s \in Slots, NEW other, NEW next \in Pcs,
           CreateInfo(from, s, other, next), other \in Runs /\ Goes(disk, other),
           \A d, r : /\ d.journal = disk.journal /\ d.tree = disk.tree /\ d.undo = disk.undo
                     /\ \A t \in Slots \ {s} : d.info[t] = disk.info[t]
                     /\ d.info[s] # NoFile /\ d.info[s].ino = r.made
                     /\ r.pc = next /\ r.cur = run.cur /\ r.op = run.op /\ r.rid = run.rid
                     => Goes(d, r)
    PROVE  Good
<1>1. CASE InfoExists(s)
    BY <1>1, DecideSafe DEF CreateInfo
<1>2. CASE ~InfoExists(s)
  <2> DEFINE i == [ino |-> budget.fresh, body |-> "torn"]
             d == [disk EXCEPT !.info[s] = i]
             r == [run EXCEPT !.pc = next, !.made = budget.fresh]
  <2>1. /\ disk' = d /\ run' = r /\ stable' = stable
        /\ seen' = seen /\ review' = review /\ ghost' = ghost
        /\ budget' \in Budgets /\ budget.fresh \in Nat
      BY <1>2, Here DEF CreateInfo, held, Budgets
  <2>2. i \in Info /\ i # NoFile
      BY <2>1, NothingIsAFile DEF Info
  <2>3. d \in Disk /\ Consistent(d)
      BY <1>2, <2>2, Here, CreateKeeps DEF InfoExists
  <2>4. /\ d.journal = disk.journal /\ d.tree = disk.tree /\ d.undo = disk.undo
        /\ \A t \in Slots \ {s} : d.info[t] = disk.info[t]
        /\ d.info[s] = i
      BY Here DEF Disk
  <2>5. /\ r.pc = next /\ r.cur = run.cur /\ r.op = run.op /\ r.rid = run.rid
        /\ r.made = i.ino /\ r \in Runs
      BY <2>1, Here DEF Runs
  <2> HIDE DEF d, r, i
  <2>6. Goes(d, r)
      BY <2>2, <2>4, <2>5
  <2>7. Typed' /\ NoneLost
      BY <2>1, <2>3, <2>4, <2>5 DEF Typed, TrashInv, NoneLost, Holds
  <2>8. Consistent(disk)' /\ Consistent(stable)'
      BY <2>1, <2>3 DEF TrashInv, Consistent, Journaled, Owned, Listed, Complete
  <2>9. Goes(disk, run)'
    <3>1. OnRecord(disk, run)' /\ OnCall(disk, run)'
        BY <2>1, <2>6 DEF Goes, OnRecord, OnCall
    <3>2. OnFiles(disk, run)'
        BY <2>1, <2>6, SMTT(40) DEF Goes, OnFiles, Made, Complete, Vacant
    <3>3. QED
        BY <3>1, <3>2 DEF Goes
  <2>10. QED
      BY <2>7, <2>8, <2>9 DEF Good, TrashInv
<1>3. QED
    BY <1>1, <1>2

\* The bytes make the created file readable, unless others replaced it.
LEMMA FillSafe ==
    ASSUME TrashInv, NEW from, NEW s \in Slots, NEW body \in {"ours", "other"}, NEW next,
           FillInfo(from, s, body, next), next \in Runs,
           \A d : /\ d.journal = disk.journal /\ d.tree = disk.tree /\ d.undo = disk.undo
                  /\ \A t \in Slots \ {s} : d.info[t] = disk.info[t]
                  /\ Made(disk, run, s) => Complete(d, s)
                  => Goes(d, next)
    PROVE  Good
<1>1. CASE InfoExists(s) /\ disk.info[s].ino = run.made
  <2> DEFINE i == [disk.info[s] EXCEPT !.body = body]
             d == [disk EXCEPT !.info[s] = i]
  <2>1. disk.info[s] \in Info /\ disk.info \in [Slots -> Info \cup {NoFile}]
      BY <1>1, Here DEF InfoExists, Disk
  <2>2. i \in Info /\ i # NoFile /\ i.body # "torn"
      BY <2>1, NothingIsAFile DEF Info
  <2>3. d = [disk EXCEPT !.info[s].body = body]
      OBVIOUS
  <2> HIDE DEF i
  <2>4. d \in Disk /\ Consistent(d)
      BY <2>2, Here, InfoKeeps
  <2>5. /\ d.journal = disk.journal /\ d.tree = disk.tree /\ d.undo = disk.undo
        /\ \A t \in Slots \ {s} : d.info[t] = disk.info[t]
        /\ d.info[s] = i
      BY <2>1, Here DEF Disk
  <2>6. Commit(d, next)
      BY <1>1, <2>3 DEF FillInfo
  <2> HIDE DEF d
  <2>7. Goes(d, next) /\ Kept(d)
      BY <2>2, <2>5, TreeHolds DEF Complete
  <2>8. QED
      BY <2>4, <2>6, <2>7, CommitSafe DEF Safe
<1>2. CASE ~(InfoExists(s) /\ disk.info[s].ino = run.made)
  <2>1. Made(disk, run, s) => Complete(disk, s)
      BY <1>2 DEF Made, Complete, InfoExists
  <2>2. Goes(disk, next) /\ Commit(disk, next)
      BY <1>2, <2>1 DEF FillInfo
  <2>3. QED
      BY <2>2, Here, CommitSafe DEF Safe
<1>3. QED
    BY <1>1, <1>2

\* A metadata file that nobody needs is removed.
LEMMA RemoveInfoSafe ==
    ASSUME TrashInv, NEW s \in Slots, NEW next \in Runs,
           Commit([disk EXCEPT !.info[s] = NoFile], next),
           Vacant(disk, s),
           s \in ghost.touched \/ ~Exists(Stage) \/ disk.journal.slot # s,
           \A d : /\ d.journal = disk.journal /\ d.tree = disk.tree /\ d.undo = disk.undo
                  /\ \A t \in Slots \ {s} : d.info[t] = disk.info[t]
                  => Goes(d, next)
    PROVE  Good
<1> DEFINE d == [disk EXCEPT !.info[s] = NoFile]
<1>1. d \in Disk /\ Consistent(d)
    BY Here, InfoKeeps DEF Vacant, Exists
<1>2. /\ d.journal = disk.journal /\ d.tree = disk.tree /\ d.undo = disk.undo
      /\ \A t \in Slots \ {s} : d.info[t] = disk.info[t]
    BY Here DEF Disk
<1> HIDE DEF d
<1>3. Goes(d, next) /\ Kept(d)
    BY <1>2, TreeHolds
<1>4. Commit(d, next)
    BY DEF d
<1>5. QED
    BY <1>1, <1>3, <1>4, CommitSafe DEF Safe

\* finish_record: nothing is staged any more.
LEMMA FinishSafe ==
    ASSUME TrashInv, ~Exists(Stage), NEW next \in Runs,
           Commit([disk EXCEPT !.journal = NoFile], next),
           \A d : d.journal = NoFile /\ d.undo = disk.undo => Goes(d, next)
    PROVE  Good
<1> DEFINE d == [disk EXCEPT !.journal = NoFile]
<1>1. d.journal = NoFile /\ d.tree = disk.tree /\ d.undo = disk.undo
    BY Here DEF Disk
<1>2. d \in Disk /\ Consistent(d)
    BY <1>1, Here, JournalKeeps DEF Journaled, Exists
<1> HIDE DEF d
<1>3. Goes(d, next) /\ Kept(d)
    BY <1>1, TreeHolds
<1>4. Commit(d, next)
    BY DEF d
<1>5. QED
    BY <1>2, <1>3, <1>4, CommitSafe DEF Safe

\* An item is renamed at a step of the call.
LEMMA MoveSafe ==
    ASSUME TrashInv, NEW p \in Places, NEW q \in Places, CanMove(p, q),
           q \in Slots => Complete(disk, q),
           q = Stage => /\ disk.journal # NoFile /\ disk.journal.op = "delete"
                        /\ disk.journal.stage = "DeletePrepared"
                        /\ disk.journal.intent = "none" /\ disk.journal.slot = p
                        /\ p \in Slots,
           NEW next \in Runs, Commit(Move(disk, p, q), next),
           \A d : /\ d.journal = disk.journal /\ d.info = disk.info /\ d.undo = disk.undo
                  /\ d.tree[p] = NoFile
                  /\ \A x \in Places \ {p, q} : d.tree[x] = disk.tree[x]
                  => Goes(d, next)
    PROVE  Good
<1> DEFINE d == Move(disk, p, q)
<1>1. p # q /\ disk.tree[p] # NoFile /\ disk.tree[q] = NoFile
    BY DEF CanMove, Exists
<1>2. d \in Disk /\ Consistent(d) /\ Kept(d)
    BY <1>1, Here, MoveKeeps, MoveHolds
<1>3. /\ d.journal = disk.journal /\ d.info = disk.info /\ d.undo = disk.undo
      /\ d.tree[p] = NoFile
      /\ \A x \in Places \ {p, q} : d.tree[x] = disk.tree[x]
    BY <1>1, Here, Moved
<1>4. Commit(d, next)
    OBVIOUS
<1> HIDE DEF d
<1>5. Goes(d, next)
    BY <1>3
<1>6. QED
    BY <1>2, <1>4, <1>5, CommitSafe DEF Safe

-----------------------------------------------------------------------------
(* Move to Trash *)

LEMMA NewFacts ==
    ASSUME TrashInv, NEW op \in Operations, NEW stage \in Stages[op], NEW slot \in Slots,
           NEW tree \in Tree, NEW ino \in Nat, NEW body \in {"ours", "other"}
    PROVE  LET rec == NewRecord(op, stage, slot, tree, ino, body)
           IN /\ rec \in Record /\ Valid(rec)
              /\ rec.op = op /\ rec.stage = stage /\ rec.slot = slot /\ rec.tree = tree
              /\ rec.ino = ino /\ rec.body = body /\ rec.intent = "none"
<1> DEFINE rec == NewRecord(op, stage, slot, tree, ino, body)
<1>1. budget.calls \in Nat /\ disk.home \in Nat
    BY Here DEF Budgets, Disk
<1>2. stage \in UNION {Stages[o] : o \in Operations}
    OBVIOUS
<1>3. rec \in Record
    BY <1>1, <1>2 DEF NewRecord, Record, Intents
<1>4. Valid(rec)
    BY DEF Valid, HasConflictState, NewRecord
<1>5. QED
    BY <1>3, <1>4 DEF NewRecord

\* The record is written for a name that is free.
LEMMA TrashPrepareSafe == TrashInv /\ TrashPrepare => Good
<1> SUFFICES ASSUME TrashInv, TrashPrepare PROVE Good
    OBVIOUS
<1> DEFINE free == {s \in FreeSlots : run.cur # NoFile => s > run.cur.slot}
           s == Least(free)
           rec == NewRecord("trash", "Prepared", s, disk.tree[Source], 0, "ours")
<1>1. run.pc = "go" /\ run.op = "trash" /\ disk.journal = NoFile
    BY Here DEF TrashPrepare, At, Goes, OnRecord
<1>2. CASE ~Exists(Source) \/ free = {}
    BY <1>2, IdleSafe DEF TrashPrepare
<1>3. CASE Exists(Source) /\ free # {}
  <2>1. s \in Slots /\ ~Exists(s)
    <3>1. free \in SUBSET Slots
        BY DEF FreeSlots
    <3>2. s \in free
        BY <1>3, <3>1, LeastIn
    <3>3. QED
        BY <3>2 DEF FreeSlots
  <2>2. Persist(rec, "info")
      BY <1>3 DEF TrashPrepare
  <2>3. disk.tree[Source] \in Tree
      BY <1>3, Here, PlaceFacts DEF Exists, Disk
  <2> HIDE DEF s
  <2>4. "trash" \in Operations /\ "Prepared" \in Stages["trash"]
      BY DEF Operations, Stages
  <2>5. /\ rec \in Record /\ Valid(rec) /\ rec.stage \in Stages[rec.op]
        /\ rec.op = "trash" /\ rec.intent = "none" /\ rec.slot = s
      BY <2>1, <2>3, <2>4, NewFacts
  <2>6. ~Exists(Stage)
      BY <1>1, StageFacts
  <2> HIDE DEF rec
  <2>7. ASSUME NEW d, NEW r, d.journal = rec, d.tree = disk.tree,
               r.pc = "info", r.cur = rec, r.op = run.op
        PROVE  Goes(d, r)
    <3>1. OnCall(d, r)
        BY <1>1, <2>7, CallGoes
    <3>2. Vacant(d, rec.slot)
        BY <2>1, <2>5, <2>7 DEF Vacant, Exists
    <3>3. OnRecord(d, r) /\ OnFiles(d, r)
        BY <2>5, <2>7, <3>2, NothingIsAFile DEF OnRecord, OnFiles
    <3>4. QED
        BY <3>1, <3>3 DEF Goes
  <2>8. "info" \in Pcs
      BY DEF Pcs
  <2>9. QED
      BY <2>2, <2>5, <2>6, <2>7, <2>8, PersistSafe
<1>4. QED
    BY <1>2, <1>3

LEMMA CancelPreparedSafe == TrashInv /\ CancelPrepared => Good
<1> SUFFICES ASSUME TrashInv, CancelPrepared PROVE Good
    OBVIOUS
<1>1. run.pc \in {"info", "restorecheck", "deletecheck"} /\ Decide(Go("drop"))
    BY DEF CancelPrepared, At
<1>2. disk.journal = R /\ R # NoFile
    BY <1>1, Working
<1>3. ~Exists(Stage)
    BY <1>1, <1>2, Here, StageFacts DEF Goes, OnRecord, OnFiles, Exists, R
<1>4. "drop" \in Pcs
    BY DEF Pcs
<1>5. /\ Go("drop") \in Runs /\ Go("drop").pc = "drop" /\ Go("drop").cur = R
      /\ Go("drop").op = run.op
    BY <1>4, Here, GoRuns DEF R
<1>6. OnCall(disk, Go("drop"))
    BY <1>1, <1>5, CallGoes
<1>7. Goes(disk, Go("drop"))
    BY <1>2, <1>3, <1>5, <1>6 DEF Goes, OnRecord, OnFiles, Exists
<1>8. QED
    BY <1>1, <1>5, <1>7, DecideSafe

\* A call that works on the record of a trash.
LEMMA Trashing ==
    ASSUME TrashInv, run.pc \in TrashPcs
    PROVE  /\ R.op = "trash" /\ R.intent = "none" /\ ~Exists(Stage) /\ ~At("idle")
           /\ run.pc \notin {"moved", "dropagain"} => Vacant(disk, R.slot)
<1>1. disk.journal = R /\ R.op = "trash" /\ R.intent = "none"
    BY Working, Here DEF Goes, OnRecord, R
<1>2. ~Exists(Stage)
    BY <1>1, StageFacts
<1>3. QED
    BY <1>1, <1>2, Here DEF Goes, OnFiles, R, At

\* Such a call goes on: what it must keep true to do so.
LEMMA TrashingGoes ==
    ASSUME TrashInv, run.pc \in TrashPcs,
           NEW d, d.journal # NoFile, d.journal.op = "trash", d.journal.intent = "none",
           NEW r, r.cur = d.journal, r.op = run.op,
           r.pc \in TrashPcs,
           r.pc \notin {"moved", "dropagain"} => Vacant(d, d.journal.slot),
           r.pc = "fill" => Made(d, r, d.journal.slot),
           r.pc \in {"publish", "adopt", "recheck", "move"} => Complete(d, d.journal.slot)
    PROVE  Goes(d, r)
<1>1. OnCall(d, r)
    BY CallGoes
<1>2. OnRecord(d, r)
    BY DEF OnRecord
<1>3. OnFiles(d, r)
    BY DEF OnFiles
<1>4. QED
    BY <1>1, <1>2, <1>3 DEF Goes

LEMMA TrashInfoSafe == TrashInv /\ TrashInfo => Good
<1> SUFFICES ASSUME TrashInv, TrashInfo PROVE Good
    OBVIOUS
<1>1. run.pc = "info" /\ "dropagain" \in Pcs /\ "fill" \in Pcs
    BY DEF TrashInfo, CreateInfo, At, Pcs
<1>2. /\ disk.journal = R /\ R # NoFile /\ R.slot \in Slots /\ R.slot \in Places
      /\ R.op = "trash" /\ R.intent = "none" /\ Vacant(disk, R.slot)
    BY <1>1, Working, Trashing
<1>3. Go("dropagain") \in Runs /\ Goes(disk, Go("dropagain"))
    BY <1>1, <1>2, Here, GoRuns, TrashingGoes DEF R
<1>4. ASSUME NEW d, NEW r, d.journal = disk.journal, d.tree = disk.tree,
             d.info[R.slot] # NoFile, d.info[R.slot].ino = r.made,
             r.pc = "fill", r.cur = run.cur, r.op = run.op
      PROVE  Goes(d, r)
    BY <1>1, <1>2, <1>4, TrashingGoes DEF R, Made, Vacant
<1>5. QED
    BY <1>1, <1>2, <1>3, <1>4, CreateSafe DEF TrashInfo

LEMMA TrashFillSafe == TrashInv /\ TrashFill => Good
<1> SUFFICES ASSUME TrashInv, TrashFill PROVE Good
    OBVIOUS
<1>1. run.pc = "fill" /\ "publish" \in Pcs
    BY DEF TrashFill, FillInfo, At, Pcs
<1>2. /\ disk.journal = R /\ R # NoFile /\ R.slot \in Slots /\ R.slot \in Places
      /\ R.op = "trash" /\ R.intent = "none" /\ Vacant(disk, R.slot)
    BY <1>1, Working, Trashing
<1>3. Made(disk, run, R.slot)
    BY <1>1, Here DEF Goes, OnFiles, R
<1>4. Go("publish") \in Runs
    BY <1>1, Here, GoRuns
<1>5. ASSUME NEW d, d.journal = disk.journal, d.tree = disk.tree, Complete(d, R.slot)
      PROVE  Goes(d, Go("publish"))
    BY <1>1, <1>2, <1>5, Here, GoRuns, TrashingGoes DEF R, Vacant
<1>6. QED
    BY <1>2, <1>3, <1>4, <1>5, FillSafe DEF TrashFill

\* The record says that the metadata is published.
LEMMA TrashPublishSafe == TrashInv /\ TrashPublish => Good
<1> SUFFICES ASSUME TrashInv, TrashPublish PROVE Good
    OBVIOUS
<1>1. run.pc \in {"publish", "adopt"}
    BY DEF TrashPublish, At
<1>2. /\ disk.journal = R /\ R # NoFile /\ R \in Record /\ R.slot \in Slots
      /\ R.op = "trash" /\ R.intent = "none" /\ Vacant(disk, R.slot) /\ Valid(R)
      /\ ~Exists(Stage)
    BY <1>1, Working, Trashing
<1>3. Complete(disk, R.slot)
    BY <1>1, Here DEF Goes, OnFiles, R
<1>4. ASSUME NEW ino \in Nat, NEW next \in {"recheck", "move"},
             Persist([R EXCEPT !.stage = "InfoPublished", !.ino = ino], next)
      PROVE  Good
  <2> DEFINE rec == [R EXCEPT !.stage = "InfoPublished", !.ino = ino]
  <2>1. "InfoPublished" \in Stages["trash"] /\ "trash" \in Operations
      BY DEF Stages, Operations
  <2>2. rec \in Record
    <3>1. "InfoPublished" \in UNION {Stages[o] : o \in Operations}
        BY <2>1
    <3>2. QED
        BY <1>2, <3>1 DEF Record
  <2>3. /\ rec.op = "trash" /\ rec.intent = "none" /\ rec.slot = R.slot
        /\ rec.stage \in Stages[rec.op] /\ rec.rtree = R.rtree /\ rec.ptree = R.ptree
        /\ rec.pino = R.pino /\ rec.rslot = R.rslot
      BY <1>2, <2>1 DEF Record
  <2>4. Persist(rec, next) /\ next \in Pcs
      BY <1>4 DEF Pcs
  <2> HIDE DEF rec
  <2>5. Valid(rec)
      BY <1>2, <2>3, ValidNone
  <2>6. ASSUME NEW d, NEW r, d.journal = rec, d.tree = disk.tree, d.info = disk.info,
               r.pc = next, r.cur = rec, r.op = run.op
        PROVE  Goes(d, r)
      BY <1>1, <1>2, <1>3, <2>2, <2>3, <2>6, TrashingGoes, NothingIsAFile
         DEF Vacant, Complete
  <2>7. QED
      BY <1>2, <2>2, <2>3, <2>4, <2>5, <2>6, PersistSafe
<1>5. CASE At("publish")
    BY <1>4, <1>5, Here DEF TrashPublish, At, Runs
<1>6. CASE At("adopt") /\ InfoExists(R.slot)
  <2>1. disk.info[R.slot].ino \in Nat
      BY <1>2, <1>6, Here DEF Disk, Info, InfoExists
  <2>2. QED
      BY <1>4, <1>6, <2>1 DEF TrashPublish, At
<1>7. CASE At("adopt") /\ ~InfoExists(R.slot)
    BY <1>7, IdleSafe DEF TrashPublish, At
<1>8. QED
    BY <1>1, <1>5, <1>6, <1>7 DEF At

\* The record with another stage of its operation.
LEMMA StageRecord ==
    ASSUME NEW old \in Record, old.intent = "none", Valid(old), NEW stage \in Stages[old.op]
    PROVE  LET rec == [old EXCEPT !.stage = stage]
           IN /\ rec \in Record /\ Valid(rec) /\ rec.stage = stage
              /\ rec.stage \in Stages[rec.op] /\ rec # NoFile
              /\ rec.op = old.op /\ rec.slot = old.slot /\ rec.intent = "none"
              /\ rec.tree = old.tree
<1> DEFINE rec == [old EXCEPT !.stage = stage]
<1>1. stage \in UNION {Stages[o] : o \in Operations} /\ old.op \in Operations
    BY DEF Record
<1>2. rec \in Record
    BY <1>1 DEF Record
<1>3. /\ rec.stage = stage /\ rec.op = old.op /\ rec.slot = old.slot /\ rec.intent = "none"
      /\ rec.tree = old.tree /\ rec.rtree = old.rtree /\ rec.ptree = old.ptree
      /\ rec.pino = old.pino /\ rec.rslot = old.rslot
    BY DEF Record
<1> HIDE DEF rec
<1>4. Valid(rec)
    BY <1>3, ValidNone
<1>5. QED
    BY <1>2, <1>3, <1>4, NothingIsAFile DEF rec

\* A finished operation that can be undone waits for its receipt.
LEMMA ArchiveGoes ==
    ASSUME TrashInv, run.pc # "idle", NEW d, d.journal # NoFile,
           d.journal.op \in {"trash", "restore"},
           NEW r, r.cur = d.journal, r.op = run.op, r.pc \in {"archive", "finish"}
    PROVE  Goes(d, r)
<1>1. OnCall(d, r)
    BY CallGoes
<1>2. QED
    BY <1>1 DEF Goes, OnRecord, OnFiles

\* Nothing is staged and the record is about to go.
LEMMA DropGoes ==
    ASSUME TrashInv, run.pc # "idle", NEW d, d.journal # NoFile, d.tree[Stage] = NoFile,
           NEW r, r.cur = d.journal, r.op = run.op, r.pc = "drop"
    PROVE  Goes(d, r)
<1>1. OnCall(d, r)
    BY CallGoes
<1>2. QED
    BY <1>1 DEF Goes, OnRecord, OnFiles

LEMMA TrashRecheckSafe == TrashInv /\ TrashRecheck => Good
<1> SUFFICES ASSUME TrashInv, TrashRecheck PROVE Good
    OBVIOUS
<1>1. run.pc = "recheck" /\ {"unpublish", "move"} \subseteq Pcs
    BY DEF TrashRecheck, At, Pcs
<1>2. /\ disk.journal = R /\ R # NoFile /\ R.op = "trash" /\ R.intent = "none"
      /\ Vacant(disk, R.slot)
    BY <1>1, Working, Trashing
<1>3. Complete(disk, R.slot)
    BY <1>1, Here DEF Goes, OnFiles, R
<1>4. \A pc \in {"unpublish", "move"} : Go(pc) \in Runs /\ Goes(disk, Go(pc))
    BY <1>1, <1>2, <1>3, Here, GoRuns, TrashingGoes DEF R
<1>5. \E pc \in {"unpublish", "move"} : Decide(Go(pc)) \/ Decide(Idle)
    BY DEF TrashRecheck
<1>6. QED
    BY <1>4, <1>5, IdleSafe, DecideSafe

\* The item goes to a name that has its metadata.
LEMMA TrashMoveSafe == TrashInv /\ TrashMove => Good
<1> SUFFICES ASSUME TrashInv, TrashMove PROVE Good
    OBVIOUS
<1>1. run.pc = "move" /\ {"unpublish", "unpublishagain", "moved"} \subseteq Pcs
    BY DEF TrashMove, At, Pcs
<1>2. /\ disk.journal = R /\ R # NoFile /\ R.op = "trash" /\ R.intent = "none"
      /\ Vacant(disk, R.slot) /\ ~At("idle")
      /\ R.slot \in Places /\ R.slot # Source /\ R.slot # Stage
    BY <1>1, Working, Trashing
<1>3. Complete(disk, R.slot)
    BY <1>1, Here DEF Goes, OnFiles, R
<1>4. \A pc \in {"unpublish", "unpublishagain"} : Go(pc) \in Runs /\ Goes(disk, Go(pc))
    BY <1>1, <1>2, Here, GoRuns, TrashingGoes DEF R
<1>5. Pending \in Runs /\ Goes(disk, Pending)
    BY <1>2, Here, PendingGoes
<1>6. CASE CanMove(Source, R.slot) /\ Commit(Move(disk, Source, R.slot), Go("moved"))
  <2>1. Go("moved") \in Runs /\ \A d : d.journal = disk.journal => Goes(d, Go("moved"))
      BY <1>1, <1>2, Here, GoRuns, TrashingGoes DEF R
  <2>2. QED
      BY <1>2, <1>3, <1>6, <2>1, PlaceFacts, MoveSafe
<1>7. CASE Decide(IF InRecovery THEN Idle ELSE Go("unpublishagain"))
    BY <1>4, <1>7, IdleSafe, DecideSafe
<1>8. CASE Decide(Idle)
    BY <1>8, IdleSafe
<1>9. CASE /\ budget' = [budget EXCEPT !.faults = @ + 1]
           /\ run' = IF SourceMatches(R) /\ ~Exists(R.slot) /\ InfoMatches(R)
                     THEN Go("unpublish") ELSE Pending
           /\ UNCHANGED <<disk, stable, held, ghost>>
    BY <1>4, <1>5, <1>9, FaultSafe
<1>10. QED
    BY <1>6, <1>7, <1>8, <1>9 DEF TrashMove

LEMMA TrashMovedSafe == TrashInv /\ TrashMoved => Good
<1> SUFFICES ASSUME TrashInv, TrashMoved PROVE Good
    OBVIOUS
<1>1. run.pc = "moved"
    BY DEF TrashMoved, At
<1>2. /\ R \in Record /\ R.op = "trash" /\ R.intent = "none" /\ Valid(R)
      /\ ~Exists(Stage) /\ ~At("idle")
    BY <1>1, Working, Trashing
<1>3. CASE Persist([R EXCEPT !.stage = "DataMoved"], "archive")
  <2> DEFINE rec == [R EXCEPT !.stage = "DataMoved"]
  <2>1. "DataMoved" \in Stages[R.op] /\ "archive" \in Pcs
      BY <1>2 DEF Stages, Pcs
  <2>2. /\ rec \in Record /\ Valid(rec) /\ rec.stage \in Stages[rec.op] /\ rec # NoFile
        /\ rec.op = "trash" /\ rec.intent = "none"
      BY <1>2, <2>1, StageRecord
  <2> HIDE DEF rec
  <2>3. \A d, r : d.journal = rec /\ r.pc = "archive" /\ r.cur = rec /\ r.op = run.op
                  => Goes(d, r)
      BY <1>1, <2>2, ArchiveGoes
  <2>4. Persist(rec, "archive")
      BY <1>3 DEF rec
  <2>5. QED
      BY <1>2, <2>1, <2>2, <2>3, <2>4, PersistSafe
<1>4. CASE Decide(Pending)
    BY <1>2, <1>4, PendingSafe
<1>5. QED
    BY <1>3, <1>4 DEF TrashMoved

\* The metadata is taken back before the record goes.
LEMMA UnpublishSafe == TrashInv /\ Unpublish => Good
<1> SUFFICES ASSUME TrashInv, Unpublish PROVE Good
    OBVIOUS
<1> DEFINE pc == IF At("unpublish") THEN "drop" ELSE "dropagain"
<1>1. run.pc \in {"unpublish", "unpublishagain"}
    BY DEF Unpublish, At
<1>2. /\ disk.journal = R /\ R # NoFile /\ R.op = "trash" /\ R.intent = "none"
      /\ Vacant(disk, R.slot) /\ ~Exists(Stage) /\ R.slot \in Slots
    BY <1>1, Working, Trashing
<1>3. CASE InfoMatches(R)
  <2>1. pc \in {"drop", "dropagain"} /\ pc \in Pcs
      BY DEF Pcs
  <2> HIDE DEF pc
  <2>2. /\ Go(pc) \in Runs /\ Go(pc).pc = pc /\ Go(pc).cur = R /\ Go(pc).op = run.op
      BY <2>1, Here, GoRuns DEF R
  <2>3. ASSUME NEW d, d.journal = disk.journal, d.tree = disk.tree
        PROVE  Goes(d, Go(pc))
      BY <1>1, <1>2, <2>1, <2>2, <2>3, TrashingGoes, DropGoes DEF Exists
  <2>4. Commit([disk EXCEPT !.info[R.slot] = NoFile], Go(pc))
      BY <1>3 DEF Unpublish, pc
  <2>5. QED
      BY <1>2, <2>2, <2>3, <2>4, RemoveInfoSafe
<1>4. CASE ~InfoMatches(R)
    BY <1>4, IdleSafe DEF Unpublish
<1>5. QED
    BY <1>3, <1>4

LEMMA DropSafe == TrashInv /\ Drop => Good
<1> SUFFICES ASSUME TrashInv, Drop PROVE Good
    OBVIOUS
<1>1. CASE At("drop") /\ Commit([disk EXCEPT !.journal = NoFile], Finished)
  <2>1. run.pc = "drop" /\ ~At("idle")
      BY <1>1 DEF At
  <2>2. ~Exists(Stage)
      BY <2>1, Here DEF Goes, OnFiles, Exists
  <2>3. Finished \in Runs /\ \A d : Goes(d, Finished)
      BY <2>1, Here, FinishedGoes
  <2>4. QED
      BY <1>1, <2>2, <2>3, FinishSafe
<1>2. CASE At("dropagain") /\ Commit([disk EXCEPT !.journal = NoFile], Go("go"))
  <2>1. run.pc = "dropagain" /\ "go" \in Pcs
      BY <1>2 DEF At, Pcs
  <2>2. ~Exists(Stage)
      BY <2>1, Trashing
  <2>3. Go("go") \in Runs /\ Go("go").pc = "go" /\ Go("go").op = run.op
      BY <2>1, Here, GoRuns
  <2>4. ASSUME NEW d, d.journal = NoFile PROVE Goes(d, Go("go"))
      BY <2>1, <2>3, <2>4, CallGoes DEF Goes, OnRecord, OnFiles
  <2>5. QED
      BY <1>2, <2>2, <2>3, <2>4, FinishSafe
<1>3. QED
    BY <1>1, <1>2 DEF Drop

-----------------------------------------------------------------------------
(* Undo receipts *)

Undos == [Ids -> Receipt \cup {NoFile}]

LEMMA PruneTyped == ASSUME NEW undo \in Undos PROVE Prune(undo) \in Undos
BY DEF Prune, Undos

LEMMA DiscardTyped == ASSUME NEW undo \in Undos, NEW s PROVE Discard(undo, s) \in Undos
BY DEF Discard, Undos

\* A receipt with another stage.
LEMMA StageReceipt ==
    ASSUME NEW u \in Receipt, NEW stage \in UndoStages
    PROVE  [u EXCEPT !.stage = stage] \in Receipt
BY DEF Receipt

LEMMA PromoteTyped == ASSUME disk \in Disk PROVE Promote(disk) \in Undos
<1> DEFINE m == [i \in Ids |->
                   IF disk.undo[i] # NoFile /\ disk.undo[i].stage = "ForwardPending"
                      /\ ~(disk.journal # NoFile /\ disk.journal.id = i)
                   THEN [disk.undo[i] EXCEPT !.stage = "Ready"] ELSE disk.undo[i]]
<1>1. \A i \in Ids : disk.undo[i] \in Receipt \cup {NoFile}
    BY DEF Disk
<1>2. "Ready" \in UndoStages
    BY DEF UndoStages
<1>3. \A i \in Ids : disk.undo[i] # NoFile => [disk.undo[i] EXCEPT !.stage = "Ready"] \in Receipt
    BY <1>1, <1>2, StageReceipt
<1>4. m \in Undos
    BY <1>1, <1>3 DEF Undos
<1> HIDE DEF m
<1>5. Prune(m) \in Undos
    BY <1>4, PruneTyped
<1>6. QED
    BY <1>5 DEF Promote, m

\* Receipts are written, changed and removed without any other change.
LEMMA ReceiptsSafe ==
    ASSUME TrashInv, NEW undo \in Undos, NEW next \in Runs,
           Commit([disk EXCEPT !.undo = undo], next),
           \A d : /\ d.journal = disk.journal /\ d.tree = disk.tree /\ d.info = disk.info
                  /\ d.undo = undo
                  => Goes(d, next)
    PROVE  Good
<1> DEFINE d == [disk EXCEPT !.undo = undo]
<1>1. d \in Disk /\ Consistent(d)
    BY Here, UndoKeeps DEF Undos
<1>2. /\ d.journal = disk.journal /\ d.tree = disk.tree /\ d.info = disk.info
      /\ d.undo = undo
    BY Here DEF Disk
<1> HIDE DEF d
<1>3. Goes(d, next) /\ Kept(d)
    BY <1>2, TreeHolds
<1>4. Commit(d, next)
    BY DEF d
<1>5. QED
    BY <1>1, <1>3, <1>4, CommitSafe DEF Safe

\* archive_undo_receipt, which the call goes on from whatever the receipts are.
LEMMA ArchiveSafe ==
    ASSUME TrashInv, R \in Record, R.op \in {"trash", "restore"}, NEW next \in Runs,
           \A d : /\ d.journal = disk.journal /\ d.tree = disk.tree /\ d.info = disk.info
                  => Goes(d, next),
           Archive(next)
    PROVE  Good
<1> DEFINE seed == [ kind |-> R.op, stage |-> "ForwardPending", slot |-> R.slot,
                     tree |-> R.tree, body |-> R.body,
                     ino |-> IF R.op = "trash" THEN R.ino ELSE 0 ]
           one == [disk.undo EXCEPT ![R.id] = seed]
<1>1. disk.undo \in Undos
    BY Here DEF Disk, Undos
<1>2. seed \in Receipt
    BY DEF Record, Receipt, UndoStages
<1>3. one \in Undos
  <2> HIDE DEF seed
  <2> QED BY <1>1, <1>2 DEF Undos
<1>4. Prune(one) \in Undos /\ Prune(disk.undo) \in Undos
  <2> HIDE DEF one
  <2> QED BY <1>1, <1>3, PruneTyped
<1>5. CASE Commit([disk EXCEPT !.undo = Prune(one)], next)
  <2> HIDE DEF one
  <2> QED BY <1>4, <1>5, ReceiptsSafe
<1>6. CASE Commit([disk EXCEPT !.undo = Prune(disk.undo)], next)
    BY <1>4, <1>6, ReceiptsSafe
<1>7. CASE Decide(next)
    BY <1>7, DecideSafe
<1>8. CASE Decide(Idle)
    BY <1>8, IdleSafe
<1>9. QED
    BY <1>5, <1>6, <1>7, <1>8 DEF Archive

\* finish_undoable_record: the receipt, the record, then the undo is ready.
LEMMA FinishUndoableSafe == TrashInv /\ FinishUndoable => Good
<1> SUFFICES ASSUME TrashInv, FinishUndoable PROVE Good
    OBVIOUS
<1>1. CASE At("archive") /\ Archive(Go("finish"))
  <2>1. run.pc = "archive" /\ "finish" \in Pcs
      BY <1>1 DEF At, Pcs
  <2>2. disk.journal = R /\ R \in Record /\ R # NoFile
      BY <2>1, Working
  <2>3. R.op \in {"trash", "restore"}
      BY <2>1, Here DEF Goes, OnRecord, R
  <2>4. /\ Go("finish") \in Runs /\ Go("finish").pc = "finish" /\ Go("finish").cur = R
        /\ Go("finish").op = run.op
      BY <2>1, Here, GoRuns DEF R
  <2>5. \A d : d.journal = disk.journal => Goes(d, Go("finish"))
      BY <2>1, <2>2, <2>3, <2>4, ArchiveGoes
  <2>6. QED
      BY <1>1, <2>2, <2>3, <2>4, <2>5, ArchiveSafe
<1>2. CASE At("finish") /\ Commit([disk EXCEPT !.journal = NoFile], Go("activate"))
  <2>1. run.pc = "finish" /\ "activate" \in Pcs
      BY <1>2 DEF At, Pcs
  <2>2. ~Exists(Stage)
      BY <2>1, Working, Here, StageFacts DEF Goes, OnRecord, R
  <2>3. Go("activate") \in Runs /\ Go("activate").pc = "activate" /\ Go("activate").op = run.op
      BY <2>1, Here, GoRuns
  <2>4. ASSUME NEW d, d.journal = NoFile PROVE Goes(d, Go("activate"))
      BY <2>1, <2>3, <2>4, CallGoes DEF Goes, OnRecord, OnFiles
  <2>5. QED
      BY <1>2, <2>2, <2>3, <2>4, FinishSafe
<1>3. CASE /\ At("activate") /\ disk.undo[R.id] # NoFile
           /\ Commit([disk EXCEPT !.undo = Prune([@ EXCEPT ![R.id].stage = "Ready"])],
                     Finished)
  <2> DEFINE v == [disk.undo[R.id] EXCEPT !.stage = "Ready"]
             one == [disk.undo EXCEPT ![R.id] = v]
  <2>1. run.pc = "activate" /\ ~At("idle") /\ "Ready" \in UndoStages
      BY <1>3 DEF At, UndoStages
  <2>2. disk.undo \in Undos
      BY Here DEF Disk, Undos
  <2>3. R.id \in Ids => v \in Receipt
      BY <1>3, <2>1, <2>2, StageReceipt DEF Undos
  <2>4. Commit([disk EXCEPT !.undo = Prune(one)], Finished)
      BY <1>3
  <2>5. one \in Undos
    <3> HIDE DEF v
    <3> QED BY <2>2, <2>3 DEF Undos
  <2> HIDE DEF one
  <2>6. Prune(one) \in Undos
      BY <2>5, PruneTyped
  <2>7. Finished \in Runs /\ \A d : Goes(d, Finished)
      BY <2>1, Here, FinishedGoes
  <2>8. QED
      BY <2>4, <2>6, <2>7, ReceiptsSafe
<1>4. CASE Decide(Idle)
    BY <1>4, IdleSafe
<1>5. QED
    BY <1>1, <1>2, <1>3, <1>4 DEF FinishUndoable

-----------------------------------------------------------------------------
(* Put back *)

\* The listed item that the window asked to put back or to delete.
LEMMA Asked ==
    ASSUME TrashInv, run.pc # "idle", run.op \in {"restore", "delete"}
    PROVE  /\ seen.slot \in Slots /\ seen.tree \in Tree /\ seen.ino \in Nat
           /\ seen.body \in {"ours", "other"}
<1>1. seen \in Items
    BY DEF TrashInv, Typed, Goes, OnCall
<1>2. QED
    BY <1>1 DEF Items

\* A call that works on the record of a put-back.
LEMMA Restoring ==
    ASSUME TrashInv, run.pc \in RestorePcs
    PROVE  /\ disk.journal = R /\ R # NoFile /\ R \in Record /\ Valid(R)
           /\ R.slot \in Slots /\ R.slot \in Places /\ R.slot # Source /\ R.slot # Stage
           /\ R.op = "restore" /\ R.intent = "none" /\ ~Exists(Stage)
           /\ run.pc # "idle" /\ ~At("idle")
           /\ run.pc \in {"putbackcheck", "restored", "restoreinfo", "restoreunlink"} =>
                 Vacant(disk, R.slot)
<1>1. /\ disk.journal = R /\ R # NoFile /\ R \in Record /\ Valid(R)
      /\ R.slot \in Slots /\ R.slot \in Places /\ R.slot # Source /\ R.slot # Stage
    BY Working
<1>2. R.op = "restore" /\ R.intent = "none"
    BY Here DEF Goes, OnRecord, R
<1>3. ~Exists(Stage)
    BY <1>1, <1>2, StageFacts
<1>4. QED
    BY <1>1, <1>2, <1>3, Here DEF Goes, OnFiles, R, At

LEMMA RestoringGoes ==
    ASSUME TrashInv, run.pc # "idle",
           NEW d, d.journal # NoFile, d.journal.op = "restore", d.journal.intent = "none",
           NEW r, r.cur = d.journal, r.op = run.op, r.pc \in RestorePcs,
           r.pc \in {"putbackcheck", "restored", "restoreinfo", "restoreunlink"} =>
              Vacant(d, d.journal.slot)
    PROVE  Goes(d, r)
<1>1. OnCall(d, r)
    BY CallGoes
<1>2. QED
    BY <1>1 DEF Goes, OnRecord, OnFiles

LEMMA RestorePrepareSafe == TrashInv /\ RestorePrepare => Good
<1> SUFFICES ASSUME TrashInv, RestorePrepare PROVE Good
    OBVIOUS
<1> DEFINE rec == NewRecord("restore", "RestorePrepared", seen.slot, seen.tree,
                            seen.ino, seen.body)
<1>1. run.pc = "go" /\ run.op = "restore" /\ disk.journal = NoFile
    BY Here DEF RestorePrepare, At, Goes, OnRecord
<1>2. CASE Persist(rec, "restorecheck")
  <2>1. /\ "restore" \in Operations /\ "RestorePrepared" \in Stages["restore"]
        /\ "restorecheck" \in Pcs
      BY DEF Operations, Stages, Pcs
  <2>2. /\ rec \in Record /\ Valid(rec) /\ rec.stage \in Stages[rec.op]
        /\ rec.op = "restore" /\ rec.intent = "none"
      BY <1>1, <2>1, Asked, NewFacts
  <2>3. ~Exists(Stage)
      BY <1>1, StageFacts
  <2> HIDE DEF rec
  <2>4. \A d, r : d.journal = rec /\ r.pc = "restorecheck" /\ r.cur = rec /\ r.op = run.op
                  => Goes(d, r)
      BY <1>1, <2>2, RestoringGoes, NothingIsAFile
  <2>5. QED
      BY <1>2, <2>1, <2>2, <2>3, <2>4, PersistSafe
<1>3. CASE Decide(Idle)
    BY <1>3, IdleSafe
<1>4. QED
    BY <1>2, <1>3 DEF RestorePrepare

LEMMA RestoreRecheckSafe == TrashInv /\ RestoreRecheck => Good
<1> SUFFICES ASSUME TrashInv, RestoreRecheck PROVE Good
    OBVIOUS
<1>1. run.pc = "restorecheck" /\ "putback" \in Pcs
    BY DEF RestoreRecheck, At, Pcs
<1>2. Go("putback") \in Runs /\ Goes(disk, Go("putback"))
    BY <1>1, Here, Restoring, GoRuns, RestoringGoes DEF R
<1>3. QED
    BY <1>2, IdleSafe, DecideSafe DEF RestoreRecheck

LEMMA RestoreMoveSafe == TrashInv /\ RestoreMove => Good
<1> SUFFICES ASSUME TrashInv, RestoreMove PROVE Good
    OBVIOUS
<1>1. run.pc = "putback" /\ "putbackcheck" \in Pcs
    BY DEF RestoreMove, At, Pcs
<1>2. CASE CanMove(R.slot, Source) /\ Commit(Move(disk, R.slot, Source), Go("putbackcheck"))
  <2>1. Go("putbackcheck") \in Runs
      BY <1>1, Here, GoRuns
  <2>2. ASSUME NEW d, d.journal = disk.journal, d.tree[R.slot] = NoFile
        PROVE  Goes(d, Go("putbackcheck"))
      BY <1>1, <2>2, Here, Restoring, GoRuns, RestoringGoes DEF R, Vacant
  <2>3. QED
      BY <1>1, <1>2, <2>1, <2>2, Restoring, PlaceFacts, MoveSafe
<1>3. CASE Decide(Idle)
    BY <1>3, IdleSafe
<1>4. QED
    BY <1>2, <1>3 DEF RestoreMove

LEMMA RestoreMovedSafe == TrashInv /\ RestoreMoved => Good
<1> SUFFICES ASSUME TrashInv, RestoreMoved PROVE Good
    OBVIOUS
<1>1. run.pc \in {"putbackcheck", "restored"}
    BY DEF RestoreMoved, At
<1>2. /\ R \in Record /\ R.op = "restore" /\ R.intent = "none" /\ Valid(R)
      /\ R.slot \in Places /\ ~Exists(Stage) /\ ~At("idle") /\ Vacant(disk, R.slot)
    BY <1>1, Restoring
<1>3. CASE Persist([R EXCEPT !.stage = "RestoreDataMoved"], "restoreinfo")
  <2> DEFINE rec == [R EXCEPT !.stage = "RestoreDataMoved"]
  <2>1. "RestoreDataMoved" \in Stages[R.op] /\ "restoreinfo" \in Pcs
      BY <1>2 DEF Stages, Pcs
  <2>2. /\ rec \in Record /\ Valid(rec) /\ rec.stage \in Stages[rec.op] /\ rec # NoFile
        /\ rec.op = "restore" /\ rec.intent = "none" /\ rec.slot = R.slot
      BY <1>2, <2>1, StageRecord
  <2> HIDE DEF rec
  <2>3. \A d, r : /\ d.journal = rec /\ d.tree = disk.tree
                  /\ r.pc = "restoreinfo" /\ r.cur = rec /\ r.op = run.op
                  => Goes(d, r)
      BY <1>1, <1>2, <2>2, RestoringGoes DEF Vacant
  <2>4. Persist(rec, "restoreinfo")
      BY <1>3 DEF rec
  <2>5. QED
      BY <1>2, <2>1, <2>2, <2>3, <2>4, PersistSafe
<1>4. CASE Decide(Pending)
    BY <1>2, <1>4, PendingSafe
<1>5. QED
    BY <1>3, <1>4 DEF RestoreMoved

\* finish_restore_info: the item is back, so nobody needs its metadata.
LEMMA FinishRestoreInfoSafe == TrashInv /\ FinishRestoreInfo => Good
<1> SUFFICES ASSUME TrashInv, FinishRestoreInfo PROVE Good
    OBVIOUS
<1>1. run.pc \in {"restoreinfo", "restoreunlink", "restoreend"}
    BY DEF FinishRestoreInfo, At
<1>2. /\ disk.journal = R /\ R # NoFile /\ R \in Record /\ Valid(R) /\ R.slot \in Slots
      /\ R.op = "restore" /\ R.intent = "none" /\ ~Exists(Stage)
      /\ run.pc # "idle" /\ ~At("idle")
      /\ run.pc \in {"restoreinfo", "restoreunlink"} => Vacant(disk, R.slot)
    BY <1>1, Restoring
<1>3. \A pc \in {"restoreunlink", "restoreend"} :
        /\ Go(pc) \in Runs /\ Go(pc).pc = pc /\ Go(pc).cur = R /\ Go(pc).op = run.op
    BY Here, GoRuns DEF R, Pcs
<1>4. \A d : d.journal = disk.journal => Goes(d, Go("restoreend"))
    BY <1>2, <1>3, RestoringGoes
<1>5. CASE At("restoreinfo") /\ Archive(Go("restoreunlink"))
  <2>1. \A d : d.journal = disk.journal /\ d.tree = disk.tree => Goes(d, Go("restoreunlink"))
      BY <1>2, <1>3, <1>5, RestoringGoes DEF Vacant, At
  <2>2. QED
      BY <1>2, <1>3, <1>5, <2>1, ArchiveSafe
<1>6. CASE \/ Decide(Pending) \/ Decide(Idle)
           \/ Decide(IF disk.undo[R.id] # NoFile THEN Go("restoreend") ELSE Pending)
    BY <1>2, <1>3, <1>4, <1>6, IdleSafe, PendingSafe, DecideSafe
<1>7. CASE At("restoreunlink")
           /\ Commit([disk EXCEPT !.info[R.slot] = NoFile], Go("restoreend"))
    BY <1>2, <1>3, <1>4, <1>7, RemoveInfoSafe DEF At
<1>8. CASE Persist([R EXCEPT !.stage = "RestoreInfoRemoved"], "archive")
  <2> DEFINE rec == [R EXCEPT !.stage = "RestoreInfoRemoved"]
  <2>1. "RestoreInfoRemoved" \in Stages[R.op] /\ "archive" \in Pcs
      BY <1>2 DEF Stages, Pcs
  <2>2. /\ rec \in Record /\ Valid(rec) /\ rec.stage \in Stages[rec.op] /\ rec # NoFile
        /\ rec.op = "restore" /\ rec.intent = "none"
      BY <1>2, <2>1, StageRecord
  <2> HIDE DEF rec
  <2>3. \A d, r : d.journal = rec /\ r.pc = "archive" /\ r.cur = rec /\ r.op = run.op
                  => Goes(d, r)
      BY <1>2, <2>2, ArchiveGoes
  <2>4. Persist(rec, "archive")
      BY <1>8 DEF rec
  <2>5. QED
      BY <1>2, <2>1, <2>2, <2>3, <2>4, PersistSafe
<1>9. QED
    BY <1>5, <1>6, <1>7, <1>8 DEF FinishRestoreInfo

-----------------------------------------------------------------------------
(* Delete permanently *)

\* A call that works on the record of a deletion, which was confirmed.
LEMMA Deleting ==
    ASSUME TrashInv, run.pc \in PreparedPcs \cup StagedPcs \cup ErasedPcs
    PROVE  /\ disk.journal = R /\ R # NoFile /\ R \in Record /\ Valid(R)
           /\ R.slot \in Slots /\ R.slot \in Places /\ R.slot # Source /\ R.slot # Stage
           /\ R.op = "delete" /\ R.intent = "none" /\ R.tree.obj \in ghost.condemned
           /\ run.pc # "idle" /\ ~At("idle")
           /\ run.pc \in PreparedPcs => R.stage = "DeletePrepared"
           /\ run.pc \in StagedPcs => R.stage = "DeleteDataStaged"
           /\ run.pc \in ErasedPcs =>
                 R.stage \in {"DeleteDataRemoved", "DeleteInfoRemoved"} /\ ~Exists(Stage)
           /\ run.pc = "deletecheck" => ~Exists(Stage)
           /\ run.pc \in {"forget", "deleteinfo"} => Vacant(disk, R.slot)
<1>1. /\ disk.journal = R /\ R # NoFile /\ R \in Record /\ Valid(R)
      /\ R.slot \in Slots /\ R.slot \in Places /\ R.slot # Source /\ R.slot # Stage
    BY Working
<1>2. /\ R.op = "delete" /\ R.intent = "none"
      /\ run.pc \in PreparedPcs => R.stage = "DeletePrepared"
      /\ run.pc \in StagedPcs => R.stage = "DeleteDataStaged"
      /\ run.pc \in ErasedPcs => R.stage \in {"DeleteDataRemoved", "DeleteInfoRemoved"}
    BY Here DEF Goes, OnRecord, R
<1>3. run.pc \in ErasedPcs => ~Exists(Stage)
    BY <1>1, <1>2, StageFacts
<1>4. R.tree.obj \in ghost.condemned
    BY <1>1, <1>2, Here DEF Consistent, Journaled
<1>5. /\ run.pc = "deletecheck" => ~Exists(Stage)
      /\ run.pc \in {"forget", "deleteinfo"} => Vacant(disk, R.slot)
    BY Here DEF Goes, OnFiles, R, Exists
<1>6. QED
    BY <1>1, <1>2, <1>3, <1>4, <1>5 DEF At

LEMMA DeletingGoes ==
    ASSUME TrashInv, run.pc # "idle",
           NEW d, d.journal # NoFile, d.journal.op = "delete", d.journal.intent = "none",
           NEW r, r.cur = d.journal, r.op = run.op,
           \/ r.pc \in PreparedPcs /\ d.journal.stage = "DeletePrepared"
           \/ r.pc \in StagedPcs /\ d.journal.stage = "DeleteDataStaged"
           \/ /\ r.pc \in ErasedPcs
              /\ d.journal.stage \in {"DeleteDataRemoved", "DeleteInfoRemoved"},
           r.pc = "deletecheck" => d.tree[Stage] = NoFile,
           r.pc \in {"forget", "deleteinfo"} => Vacant(d, d.journal.slot)
    PROVE  Goes(d, r)
<1>1. OnCall(d, r)
    BY CallGoes
<1>2. OnRecord(d, r)
    BY DEF OnRecord
<1>3. OnFiles(d, r)
    BY DEF OnFiles
<1>4. QED
    BY <1>1, <1>2, <1>3 DEF Goes

\* The next stage of the deletion is recorded.
LEMMA DeletingPersist ==
    ASSUME TrashInv, run.pc \in PreparedPcs \cup StagedPcs \cup ErasedPcs,
           NEW stage \in Stages["delete"],
           NEW next \in {"erase", "forget", "drop"},
           next = "erase" => stage = "DeleteDataStaged",
           next = "forget" => stage = "DeleteDataRemoved" /\ ~Exists(R.slot),
           next # "erase" => ~Exists(Stage),
           Persist([R EXCEPT !.stage = stage], next)
    PROVE  Good
<1> DEFINE rec == [R EXCEPT !.stage = stage]
<1>1. /\ disk.journal = R /\ R # NoFile /\ R \in Record /\ Valid(R) /\ R.slot \in Places
      /\ R.op = "delete" /\ R.intent = "none" /\ R.tree.obj \in ghost.condemned
      /\ run.pc # "idle"
    BY Deleting
<1>2. /\ rec \in Record /\ Valid(rec) /\ rec.stage \in Stages[rec.op] /\ rec # NoFile
      /\ rec.op = "delete" /\ rec.intent = "none" /\ rec.slot = R.slot
      /\ rec.stage = stage /\ rec.tree = R.tree
    BY <1>1, StageRecord
<1>3. next \in Pcs /\ Persist(rec, next)
    BY DEF Pcs
<1> HIDE DEF rec
<1>4. ASSUME NEW d, NEW r, d.journal = rec, d.tree = disk.tree,
             r.pc = next, r.cur = rec, r.op = run.op
      PROVE  Goes(d, r)
  <2>1. CASE next = "drop"
      BY <1>1, <1>2, <1>4, <2>1, DropGoes DEF Exists
  <2>2. CASE next # "drop"
      BY <1>1, <1>2, <1>4, <2>2, DeletingGoes DEF Vacant, Exists
  <2>3. QED
      BY <2>1, <2>2
<1>5. Exists(Stage) => rec.stage \in {"DeletePrepared", "DeleteDataStaged"}
    BY <1>2
<1>6. QED
    BY <1>1, <1>2, <1>3, <1>4, <1>5, PersistSafe

LEMMA DeletePrepareSafe == TrashInv /\ DeletePrepare => Good
<1> SUFFICES ASSUME TrashInv, DeletePrepare PROVE Good
    OBVIOUS
<1> DEFINE rec == NewRecord("delete", "DeletePrepared", seen.slot, seen.tree,
                            seen.ino, seen.body)
<1>1. run.pc = "go" /\ run.op = "delete" /\ disk.journal = NoFile
    BY Here DEF DeletePrepare, At, Goes, OnRecord
<1>2. CASE Persist(rec, "deletecheck")
  <2>1. /\ "delete" \in Operations /\ "DeletePrepared" \in Stages["delete"]
        /\ "deletecheck" \in Pcs
      BY DEF Operations, Stages, Pcs
  <2>2. /\ rec \in Record /\ Valid(rec) /\ rec.stage \in Stages[rec.op]
        /\ rec.op = "delete" /\ rec.intent = "none" /\ rec.stage = "DeletePrepared"
        /\ rec.tree = seen.tree
      BY <1>1, <2>1, Asked, NewFacts
  <2>3. ~Exists(Stage)
      BY <1>1, StageFacts
  <2>4. seen.tree.obj \in ghost.condemned
      BY <1>1, Here DEF Goes, OnCall
  <2> HIDE DEF rec
  <2>5. \A d, r : /\ d.journal = rec /\ d.tree = disk.tree
                  /\ r.pc = "deletecheck" /\ r.cur = rec /\ r.op = run.op
                  => Goes(d, r)
      BY <1>1, <2>2, <2>3, DeletingGoes, NothingIsAFile DEF Exists
  <2>6. QED
      BY <1>2, <2>1, <2>2, <2>3, <2>4, <2>5, PersistSafe
<1>3. CASE Decide(Idle)
    BY <1>3, IdleSafe
<1>4. QED
    BY <1>2, <1>3 DEF DeletePrepare

LEMMA DeleteRecheckSafe == TrashInv /\ DeleteRecheck => Good
<1> SUFFICES ASSUME TrashInv, DeleteRecheck PROVE Good
    OBVIOUS
<1>1. run.pc = "deletecheck" /\ "stage" \in Pcs
    BY DEF DeleteRecheck, At, Pcs
<1>2. Go("stage") \in Runs /\ Goes(disk, Go("stage"))
    BY <1>1, Here, Deleting, GoRuns, DeletingGoes DEF R
<1>3. QED
    BY <1>2, IdleSafe, DecideSafe DEF DeleteRecheck

\* The item goes to the stage that its record owns.
LEMMA DeleteStageSafe == TrashInv /\ DeleteStage => Good
<1> SUFFICES ASSUME TrashInv, DeleteStage PROVE Good
    OBVIOUS
<1>1. run.pc = "stage" /\ "stagecheck" \in Pcs
    BY DEF DeleteStage, At, Pcs
<1>2. CASE CanMove(R.slot, Stage) /\ Commit(Move(disk, R.slot, Stage), Go("stagecheck"))
  <2>1. Go("stagecheck") \in Runs
      BY <1>1, Here, GoRuns
  <2>2. ASSUME NEW d, d.journal = disk.journal PROVE Goes(d, Go("stagecheck"))
      BY <1>1, <2>2, Here, Deleting, GoRuns, DeletingGoes DEF R
  <2>3. /\ disk.journal = R /\ R # NoFile /\ R.slot \in Slots /\ R.slot \in Places
        /\ R.op = "delete" /\ R.intent = "none" /\ R.stage = "DeletePrepared"
      BY <1>1, Deleting
  <2>4. QED
      BY <1>2, <2>1, <2>2, <2>3, PlaceFacts, MoveSafe
<1>3. CASE Decide(Idle)
    BY <1>3, IdleSafe
<1>4. QED
    BY <1>2, <1>3 DEF DeleteStage

LEMMA DeleteStagedSafe == TrashInv /\ DeleteStaged => Good
<1> SUFFICES ASSUME TrashInv, DeleteStaged PROVE Good
    OBVIOUS
<1>1. run.pc \in {"stagecheck", "staged"}
    BY DEF DeleteStaged, At
<1>2. CASE Persist([R EXCEPT !.stage = "DeleteDataStaged"], "erase")
  <2>1. "DeleteDataStaged" \in Stages["delete"]
      BY DEF Stages
  <2>2. QED
      BY <1>1, <1>2, <2>1, DeletingPersist
<1>3. CASE Decide(Pending)
    BY <1>1, <1>3, Deleting, PendingSafe
<1>4. QED
    BY <1>2, <1>3 DEF DeleteStaged

LEMMA DeleteEraseSafe == TrashInv /\ DeleteErase => Good
<1> SUFFICES ASSUME TrashInv, DeleteErase PROVE Good
    OBVIOUS
<1>1. run.pc \in {"erase", "erasepartial"} /\ {"erased", "remove"} \subseteq Pcs
    BY DEF DeleteErase, At, Pcs
<1>2. \A pc \in {"erased", "remove"} : Go(pc) \in Runs /\ Goes(disk, Go(pc))
    BY <1>1, Here, Deleting, GoRuns, DeletingGoes DEF R
<1>3. \/ \E pc \in {"erased", "remove"} : Decide(Go(pc))
      \/ Decide(Pending)
    BY DEF DeleteErase
<1>4. QED
    BY <1>1, <1>2, <1>3, Deleting, PendingSafe, DecideSafe

\* The staged item goes, or loses a part: it was to be deleted.
LEMMA StageChanges ==
    ASSUME TrashInv, Exists(Stage), disk.tree[Stage].obj \in ghost.condemned,
           NEW t \in Tree \cup {NoFile}
    PROVE  LET d == [disk EXCEPT !.tree[Stage] = t]
           IN /\ d \in Disk /\ Consistent(d) /\ Kept(d) /\ d.journal = disk.journal
              /\ d.undo = disk.undo
<1> DEFINE d == [disk EXCEPT !.tree[Stage] = t]
<1>1. /\ d \in Disk /\ d.info = disk.info /\ d.journal = disk.journal /\ d.undo = disk.undo
      /\ \A x \in Places \ {Stage} : d.tree[x] = disk.tree[x]
    BY Here, PlaceFacts DEF Disk
<1> HIDE DEF d
<1>2. \A s \in Slots : Complete(d, s) <=> Complete(disk, s)
    BY <1>1 DEF Complete
<1>3. disk.journal # NoFile => disk.journal.slot \in Slots
    BY Here DEF Disk, Record
<1>4. Consistent(d)
  <2>1. Journaled(d)
      BY <1>1, Here DEF Consistent, Journaled, Exists
  <2>2. Owned(d)
      BY <1>1, <1>2, <1>3, Here DEF Consistent, Owned, Exists
  <2>3. Listed(d)
      BY <1>1, <1>2, Here, PlaceFacts DEF Consistent, Listed
  <2>4. QED
      BY <2>1, <2>2, <2>3 DEF Consistent
<1>5. Kept(d)
    BY <1>1 DEF Kept, Holds
<1>6. QED
    BY <1>1, <1>4, <1>5 DEF d

LEMMA DeleteRemoveSafe == TrashInv /\ DeleteRemove => Good
<1> SUFFICES ASSUME TrashInv, DeleteRemove PROVE Good
    OBVIOUS
<1>1. run.pc = "remove" /\ "erased" \in Pcs
    BY DEF DeleteRemove, At, Pcs
<1>2. R.tree.obj \in ghost.condemned
    BY <1>1, Deleting
<1>3. ASSUME DeleteDirectoryMatches(R) \/ DeleteDataMatches(R)
      PROVE  Exists(Stage) /\ disk.tree[Stage].obj \in ghost.condemned
    BY <1>2, <1>3 DEF DeleteDirectoryMatches, DeleteDataMatches, SameAfterRename, Exists
<1>4. \A d : d.journal = disk.journal => Goes(d, Go("erased"))
    BY <1>1, Here, Deleting, GoRuns, DeletingGoes DEF R
<1>5. Go("erased") \in Runs
    BY <1>1, Here, GoRuns
<1>6. CASE /\ DeleteDirectoryMatches(R) \/ DeleteDataMatches(R)
           /\ Commit([disk EXCEPT !.tree[Stage] = NoFile], Go("erased"))
  <2> DEFINE d == [disk EXCEPT !.tree[Stage] = NoFile]
  <2>1. d \in Disk /\ Consistent(d) /\ Kept(d) /\ d.journal = disk.journal
      BY <1>3, <1>6, StageChanges
  <2>2. Commit(d, Go("erased"))
      BY <1>6
  <2> HIDE DEF d
  <2>3. QED
      BY <1>4, <1>5, <2>1, <2>2, CommitSafe DEF Safe
<1>7. CASE /\ DeleteDirectoryMatches(R) /\ CanFail
           /\ disk' = [disk EXCEPT !.tree[Stage].ver = 0]
           /\ budget' = [budget EXCEPT !.faults = @ + 1]
           /\ run' = Idle
           /\ UNCHANGED <<stable, held, ghost>>
  <2> DEFINE t == [disk.tree[Stage] EXCEPT !.ver = 0]
             d == [disk EXCEPT !.tree[Stage] = t]
  <2>1. disk.tree[Stage] \in Tree
      BY <1>3, <1>7, Here, PlaceFacts DEF Disk, Exists
  <2>2. t \in Tree
      BY <2>1 DEF Tree
  <2>3. disk' = d
      BY <1>7
  <2> HIDE DEF t
  <2>4. d \in Disk /\ Consistent(d) /\ Kept(d) /\ d.journal = disk.journal
      BY <1>3, <1>7, <2>2, StageChanges
  <2>5. Commit(d, Go("erased"))
      BY <1>7, <2>3 DEF Commit
  <2> HIDE DEF d
  <2>6. QED
      BY <1>4, <1>5, <2>4, <2>5, CommitSafe DEF Safe
<1>8. CASE Decide(Idle)
    BY <1>8, IdleSafe
<1>9. QED
    BY <1>6, <1>7, <1>8 DEF DeleteRemove

LEMMA DeleteErasedSafe == TrashInv /\ DeleteErased => Good
<1> SUFFICES ASSUME TrashInv, DeleteErased PROVE Good
    OBVIOUS
<1>1. run.pc = "erased" /\ "DeleteDataRemoved" \in Stages["delete"]
    BY DEF DeleteErased, At, Stages
<1>2. CASE Exists(Stage) \/ Exists(R.slot)
    BY <1>1, <1>2, Deleting, PendingSafe DEF DeleteErased
<1>3. CASE ~(Exists(Stage) \/ Exists(R.slot))
    BY <1>1, <1>3, DeletingPersist DEF DeleteErased
<1>4. QED
    BY <1>2, <1>3

\* finish_delete_info: the item is gone, so nobody needs its metadata.
LEMMA FinishDeleteInfoSafe == TrashInv /\ FinishDeleteInfo => Good
<1> SUFFICES ASSUME TrashInv, FinishDeleteInfo PROVE Good
    OBVIOUS
<1>1. run.pc \in {"forget", "forgetdrop", "deleteinfo", "deleteend"}
    BY DEF FinishDeleteInfo, At
<1>2. /\ disk.journal = R /\ R # NoFile /\ R.slot \in Slots
      /\ R.op = "delete" /\ R.intent = "none" /\ ~Exists(Stage)
      /\ R.stage \in {"DeleteDataRemoved", "DeleteInfoRemoved"}
      /\ run.pc # "idle" /\ ~At("idle")
      /\ run.pc \in {"forget", "deleteinfo"} => Vacant(disk, R.slot)
    BY <1>1, Deleting
<1>3. \A pc \in {"deleteinfo", "drop", "deleteend"} :
        /\ Go(pc) \in Runs /\ Go(pc).pc = pc /\ Go(pc).cur = R /\ Go(pc).op = run.op
    BY Here, GoRuns DEF R, Pcs
<1>4. \A d : d.journal = disk.journal => Goes(d, Go("deleteend"))
    BY <1>2, <1>3, DeletingGoes
<1>5. CASE /\ At("forget") \/ At("forgetdrop")
           /\ Commit([disk EXCEPT !.undo = Discard(@, R.slot)],
                     Go(IF At("forget") THEN "deleteinfo" ELSE "drop"))
  <2> DEFINE pc == IF At("forget") THEN "deleteinfo" ELSE "drop"
             undo == Discard(disk.undo, R.slot)
  <2>1. undo \in Undos
      BY Here, DiscardTyped DEF Disk, Undos
  <2>2. /\ pc \in {"deleteinfo", "drop"}
        /\ pc = "deleteinfo" => Vacant(disk, R.slot)
      BY <1>2 DEF At
  <2>3. Commit([disk EXCEPT !.undo = undo], Go(pc))
      BY <1>5
  <2> HIDE DEF pc, undo
  <2>4. \A d : d.journal = disk.journal /\ d.tree = disk.tree => Goes(d, Go(pc))
      BY <1>2, <1>3, <2>2, DeletingGoes, DropGoes DEF Vacant, Exists
  <2>5. QED
      BY <1>3, <2>1, <2>2, <2>3, <2>4, ReceiptsSafe
<1>6. CASE At("deleteinfo") /\ (Decide(Go("deleteend")) \/ Decide(Pending))
    BY <1>2, <1>3, <1>4, <1>6, PendingSafe, DecideSafe
<1>7. CASE At("deleteinfo") /\ Commit([disk EXCEPT !.info[R.slot] = NoFile], Go("deleteend"))
    BY <1>2, <1>3, <1>4, <1>7, RemoveInfoSafe DEF At
<1>8. CASE At("deleteend") /\ Persist([R EXCEPT !.stage = "DeleteInfoRemoved"], "drop")
  <2>1. "DeleteInfoRemoved" \in Stages["delete"]
      BY DEF Stages
  <2>2. QED
      BY <1>1, <1>2, <1>8, <2>1, DeletingPersist
<1>9. QED
    BY <1>5, <1>6, <1>7, <1>8 DEF FinishDeleteInfo

-----------------------------------------------------------------------------
(* Undo *)

\* A call that works on a receipt: no transaction is left on the disk.
LEMMA Undoing ==
    ASSUME TrashInv, run.pc \in UndoPcs
    PROVE  /\ run.rid \in Ids /\ U \in Receipt /\ U # NoFile
           /\ U.slot \in Slots /\ U.slot \in Places /\ U.slot # Source /\ U.slot # Stage
           /\ U.body \in {"ours", "other"} /\ U.kind \in {"trash", "restore"}
           /\ disk.journal = NoFile /\ ~Exists(Stage) /\ run.pc # "idle"
           /\ run.pc = "undomove" /\ U.kind = "restore" => Complete(disk, U.slot)
           /\ run.pc = "undomoved" /\ U.kind = "trash" => Vacant(disk, U.slot)
           /\ run.pc = "undounlink" => Vacant(disk, U.slot)
<1>1. run.rid \in Ids /\ U # NoFile /\ disk.journal = NoFile
    BY Here DEF Goes, OnRecord, OnCall, U
<1>2. U \in Receipt
    BY <1>1, Here DEF Disk, U
<1>3. ~Exists(Stage)
    BY <1>1, StageFacts
<1>4. /\ run.pc = "undomove" /\ U.kind = "restore" => Complete(disk, U.slot)
      /\ run.pc = "undomoved" /\ U.kind = "trash" => Vacant(disk, U.slot)
      /\ run.pc = "undounlink" => Vacant(disk, U.slot)
    BY Here DEF Goes, OnFiles, U
<1>5. QED
    BY <1>1, <1>2, <1>3, <1>4, PlaceFacts DEF Receipt

LEMMA UndoingGoes ==
    ASSUME TrashInv, run.pc # "idle",
           NEW d, d.journal = NoFile, NEW r, r.op = run.op, r.pc \in UndoPcs,
           r.rid \in Ids, NEW u, u = d.undo[r.rid], u # NoFile,
           r.pc = "undomove" /\ u.kind = "restore" => Complete(d, u.slot),
           r.pc = "undomoved" /\ u.kind = "trash" => Vacant(d, u.slot),
           r.pc = "undounlink" => Vacant(d, u.slot)
    PROVE  Goes(d, r)
<1>1. OnCall(d, r)
    BY Here DEF OnCall, Goes
<1>2. OnRecord(d, r)
    BY DEF OnRecord
<1>3. OnFiles(d, r)
    BY DEF OnFiles
<1>4. QED
    BY <1>1, <1>2, <1>3 DEF Goes

LEMMA SaveSafe ==
    ASSUME TrashInv, run.pc \in UndoPcs, NEW u \in Receipt \cup {NoFile},
           NEW next \in Runs, SaveReceipt(u, next),
           \A d : /\ d.journal = disk.journal /\ d.tree = disk.tree /\ d.info = disk.info
                  /\ d.undo[run.rid] = u
                  => Goes(d, next)
    PROVE  Good
<1> DEFINE undo == [disk.undo EXCEPT ![run.rid] = u]
<1>1. disk.undo \in Undos /\ run.rid \in Ids
    BY Here, Undoing DEF Disk, Undos
<1>2. undo \in Undos /\ undo[run.rid] = u
    BY <1>1 DEF Undos
<1>3. Commit([disk EXCEPT !.undo = undo], next)
    BY DEF SaveReceipt
<1> HIDE DEF undo
<1>4. QED
    BY <1>2, <1>3, ReceiptsSafe

\* execute_latest_undo picks a receipt that is there.
LEMMA UndoLatestSafe == TrashInv /\ UndoLatest => Good
<1> SUFFICES ASSUME TrashInv, UndoLatest PROVE Good
    OBVIOUS
<1> DEFINE undo == Promote(disk)
           latest == Latest(undo)
           r == IF latest = 0 THEN Idle ELSE [run EXCEPT !.pc = "infer", !.rid = latest]
<1>1. run.pc = "go" /\ disk.journal = NoFile /\ Commit([disk EXCEPT !.undo = undo], r)
    BY Here DEF UndoLatest, At, Goes, OnRecord
<1>2. undo \in Undos
    BY Here, PromoteTyped
<1>3. latest # 0 => latest \in Ids /\ undo[latest] # NoFile
    BY LatestIn
<1>4. r = Idle \/ (r.pc = "infer" /\ r.rid = latest /\ r.op = run.op /\ latest # 0)
    BY Here DEF Runs
<1>5. r \in Runs
  <2>1. "infer" \in Pcs
      BY DEF Pcs
  <2> HIDE DEF latest
  <2>2. QED
      BY <1>3, <2>1, Here, IdleGoes DEF Runs
<1> HIDE DEF undo, latest, r
<1>6. \A d : d.journal = disk.journal /\ d.undo = undo => Goes(d, r)
    BY <1>1, <1>3, <1>4, IdleGoes, UndoingGoes
<1>7. QED
    BY <1>1, <1>2, <1>5, <1>6, ReceiptsSafe

\* How far an interrupted undo came.
LEMMA UndoInferSafe == TrashInv /\ UndoInfer => Good
<1> SUFFICES ASSUME TrashInv, UndoInfer PROVE Good
    OBVIOUS
<1>1. run.pc = "infer"
    BY DEF UndoInfer, At
<1>2. /\ run.rid \in Ids /\ U \in Receipt /\ U # NoFile /\ U.slot \in Slots
      /\ disk.journal = NoFile /\ run.pc # "idle"
      /\ run \in Runs
    BY <1>1, Here, Undoing
<1>3. ASSUME NEW u \in Receipt, SaveReceipt(u, run) PROVE Good
    BY <1>1, <1>2, <1>3, NothingIsAFile, SaveSafe, UndoingGoes
<1>4. /\ "TrashDataRestored" \in UndoStages
      /\ \A stage \in {"RestoreDataMoved", "RestoreInfoPublished"} : stage \in UndoStages
    BY DEF UndoStages
<1>5. ASSUME NEW stage \in {"RestoreDataMoved", "RestoreInfoPublished"},
             UndoInfoMatches(U, FALSE)
      PROVE  [U EXCEPT !.ino = disk.info[U.slot].ino, !.stage = stage] \in Receipt
  <2>1. disk.info[U.slot].ino \in Nat
      BY <1>2, <1>5, Here DEF UndoInfoMatches, InfoExists, Disk, Info
  <2>2. QED
      BY <1>2, <1>4, <2>1 DEF Receipt
<1>6. \A pc \in {"undounlink", "undocheck", "undofinish"} :
        /\ Go(pc) \in Runs /\ Go(pc).pc = pc /\ Go(pc).rid = run.rid /\ Go(pc).op = run.op
    BY Here, GoRuns DEF Pcs
<1>7. \A pc \in {"undocheck", "undofinish"} : Goes(disk, Go(pc))
    BY <1>2, <1>6, UndoingGoes DEF U
<1>8. CASE UndoInferTrash
  <2>1. CASE SaveReceipt([U EXCEPT !.stage = "TrashDataRestored"], run)
      BY <1>2, <1>3, <1>4, <2>1, StageReceipt
  <2>2. CASE ~Exists(U.slot) /\ Decide(Go("undounlink"))
    <3>1. Vacant(disk, U.slot)
        BY <2>2 DEF Vacant, Exists
    <3>2. Goes(disk, Go("undounlink"))
        BY <1>2, <1>6, <3>1, UndoingGoes DEF U
    <3>3. QED
        BY <1>6, <2>2, <3>2, DecideSafe
  <2>3. CASE Decide(Idle) \/ Decide(Go("undocheck"))
      BY <1>6, <1>7, <2>3, IdleSafe, DecideSafe
  <2>4. QED
      BY <1>8, <2>1, <2>2, <2>3 DEF UndoInferTrash
<1>9. CASE UndoInferRestore
  <2> DEFINE found(stage) == [U EXCEPT !.ino = disk.info[U.slot].ino, !.stage = stage]
  <2>1. CASE UndoInfoMatches(U, FALSE) /\ SaveReceipt(found("RestoreDataMoved"), run)
      BY <1>3, <1>5, <2>1
  <2>2. CASE UndoInfoMatches(U, FALSE) /\ SaveReceipt(found("RestoreInfoPublished"), run)
      BY <1>3, <1>5, <2>2
  <2>3. CASE SaveReceipt([U EXCEPT !.stage = "RestoreDataMoved"], run)
      BY <1>2, <1>3, <1>4, <2>3, StageReceipt
  <2>4. CASE Decide(Idle) \/ Decide(Go("undofinish")) \/ Decide(Go("undocheck"))
      BY <1>6, <1>7, <2>4, IdleSafe, DecideSafe
  <2>5. QED
      BY <1>9, <2>1, <2>2, <2>3, <2>4 DEF UndoInferRestore
<1>10. QED
    BY <1>8, <1>9 DEF UndoInfer

LEMMA UndoCheckSafe == TrashInv /\ UndoCheck => Good
<1> SUFFICES ASSUME TrashInv, UndoCheck PROVE Good
    OBVIOUS
<1>1. run.pc = "undocheck"
    BY DEF UndoCheck, At
<1>2. /\ run.rid \in Ids /\ U # NoFile /\ U \in Receipt
      /\ disk.journal = NoFile /\ run.pc # "idle"
    BY <1>1, Undoing
<1>3. \A pc \in {"undomove", "undoinfo"} :
        /\ Go(pc) \in Runs /\ Go(pc).pc = pc /\ Go(pc).rid = run.rid /\ Go(pc).op = run.op
    BY Here, GoRuns DEF Pcs
<1>4. CASE Decide(Idle)
    BY <1>4, IdleSafe
<1>5. CASE /\ Decide(Go("undomove"))
           /\ U.kind = "restore" => UndoInfoMatches(U, TRUE)
  <2>1. U.kind = "restore" => Complete(disk, U.slot)
      BY <1>2, <1>5 DEF UndoInfoMatches, InfoExists, Complete, Receipt
  <2>2. Goes(disk, Go("undomove"))
      BY <1>2, <1>3, <2>1, UndoingGoes DEF U
  <2>3. QED
      BY <1>3, <1>5, <2>2, DecideSafe
<1>6. CASE Decide(Go("undoinfo"))
  <2>1. Goes(disk, Go("undoinfo"))
      BY <1>2, <1>3, UndoingGoes DEF U
  <2>2. QED
      BY <1>3, <1>6, <2>1, DecideSafe
<1>7. QED
    BY <1>4, <1>5, <1>6 DEF UndoCheck

LEMMA UndoInfoSafe == TrashInv /\ UndoInfo => Good
<1> SUFFICES ASSUME TrashInv, UndoInfo PROVE Good
    OBVIOUS
<1>1. run.pc = "undoinfo" /\ "undofill" \in Pcs
    BY DEF UndoInfo, CreateInfo, At, Pcs
<1>2. /\ run.rid \in Ids /\ U # NoFile /\ U.slot \in Slots
      /\ disk.journal = NoFile /\ run.pc # "idle"
    BY <1>1, Undoing
<1>3. \A d, r : /\ d.journal = disk.journal /\ d.undo = disk.undo
                /\ r.pc = "undofill" /\ r.op = run.op /\ r.rid = run.rid
                => Goes(d, r)
    BY <1>2, UndoingGoes DEF U
<1>4. QED
    BY <1>1, <1>2, <1>3, IdleGoes, CreateSafe DEF UndoInfo

LEMMA UndoFillSafe == TrashInv /\ UndoFill => Good
<1> SUFFICES ASSUME TrashInv, UndoFill PROVE Good
    OBVIOUS
<1>1. run.pc = "undofill" /\ "undopublish" \in Pcs
    BY DEF UndoFill, FillInfo, At, Pcs
<1>2. /\ run.rid \in Ids /\ U # NoFile /\ U.slot \in Slots /\ U.body \in {"ours", "other"}
      /\ disk.journal = NoFile /\ run.pc # "idle"
    BY <1>1, Undoing
<1>3. Go("undopublish") \in Runs
    BY <1>1, Here, GoRuns
<1>4. \A d : /\ d.journal = disk.journal /\ d.undo = disk.undo
             => Goes(d, Go("undopublish"))
    BY <1>1, <1>2, Here, GoRuns, UndoingGoes DEF U
<1>5. QED
    BY <1>2, <1>3, <1>4, FillSafe DEF UndoFill

LEMMA UndoPublishSafe == TrashInv /\ UndoPublish => Good
<1> SUFFICES ASSUME TrashInv, UndoPublish PROVE Good
    OBVIOUS
<1> DEFINE u == [U EXCEPT !.stage = "RestoreInfoPublished", !.ino = run.made]
<1>1. run.pc = "undopublish" /\ "undocheck" \in Pcs /\ SaveReceipt(u, Go("undocheck"))
    BY DEF UndoPublish, At, Pcs
<1>2. run.rid \in Ids /\ U \in Receipt /\ disk.journal = NoFile /\ run.pc # "idle"
    BY <1>1, Undoing
<1>3. "RestoreInfoPublished" \in UndoStages /\ run.made \in Nat
    BY Here DEF UndoStages, Runs
<1>4. u \in Receipt
    BY <1>2, <1>3 DEF Receipt
<1> HIDE DEF u
<1>5. Go("undocheck") \in Runs
    BY <1>1, Here, GoRuns
<1>6. \A d : /\ d.journal = disk.journal /\ d.undo[run.rid] = u
             => Goes(d, Go("undocheck"))
    BY <1>1, <1>2, <1>4, Here, GoRuns, UndoingGoes, NothingIsAFile
<1>7. QED
    BY <1>1, <1>4, <1>5, <1>6, SaveSafe

\* Back to the original location, or back next to the metadata just made.
LEMMA UndoMoveSafe == TrashInv /\ UndoMove => Good
<1> SUFFICES ASSUME TrashInv, UndoMove PROVE Good
    OBVIOUS
<1> DEFINE from == IF U.kind = "trash" THEN U.slot ELSE Source
           to == IF U.kind = "trash" THEN Source ELSE U.slot
<1>1. run.pc = "undomove" /\ "undomoved" \in Pcs
    BY DEF UndoMove, At, Pcs
<1>2. /\ run.rid \in Ids /\ U # NoFile /\ U.kind \in {"trash", "restore"}
      /\ U.slot \in Slots /\ U.slot \in Places /\ U.slot # Source /\ U.slot # Stage
      /\ disk.journal = NoFile /\ run.pc # "idle"
      /\ U.kind = "restore" => Complete(disk, U.slot)
    BY <1>1, Undoing
<1>3. CASE CanMove(from, to) /\ Commit(Move(disk, from, to), Go("undomoved"))
  <2>1. from \in Places /\ to \in Places /\ to # Stage /\ (to \in Slots => Complete(disk, to))
      BY <1>2, PlaceFacts
  <2>2. Go("undomoved") \in Runs
      BY <1>1, Here, GoRuns
  <2>3. U.kind = "trash" => from = U.slot
      OBVIOUS
  <2> HIDE DEF from, to
  <2>4. ASSUME NEW d, d.journal = disk.journal, d.undo = disk.undo, d.tree[from] = NoFile
        PROVE  Goes(d, Go("undomoved"))
      BY <1>1, <1>2, <2>3, <2>4, Here, GoRuns, UndoingGoes DEF U, Vacant
  <2>5. QED
      BY <1>3, <2>1, <2>2, <2>4, MoveSafe
<1>4. CASE Decide(Idle)
    BY <1>4, IdleSafe
<1>5. QED
    BY <1>3, <1>4 DEF UndoMove

LEMMA UndoMovedSafe == TrashInv /\ UndoMoved => Good
<1> SUFFICES ASSUME TrashInv, UndoMoved PROVE Good
    OBVIOUS
<1>1. run.pc = "undomoved" /\ {"undounlink", "undofinish"} \subseteq Pcs
    BY DEF UndoMoved, At, Pcs
<1>2. /\ run.rid \in Ids /\ U \in Receipt /\ disk.journal = NoFile /\ run.pc # "idle"
      /\ U.kind = "trash" => Vacant(disk, U.slot)
    BY <1>1, Undoing
<1>3. \A stage \in {"TrashDataRestored", "RestoreDataMoved"} :
        [U EXCEPT !.stage = stage] \in Receipt
    BY <1>2, StageReceipt DEF UndoStages
<1>4. CASE U.kind = "trash" /\ SaveReceipt([U EXCEPT !.stage = "TrashDataRestored"],
                                           Go("undounlink"))
  <2> DEFINE u == [U EXCEPT !.stage = "TrashDataRestored"]
  <2>1. u \in Receipt /\ u.slot = U.slot
      BY <1>2, <1>3 DEF Receipt
  <2>2. SaveReceipt(u, Go("undounlink"))
      BY <1>4
  <2> HIDE DEF u
  <2>3. \A d : /\ d.journal = disk.journal /\ d.tree = disk.tree /\ d.undo[run.rid] = u
               => Goes(d, Go("undounlink"))
      BY <1>1, <1>2, <1>4, <2>1, Here, GoRuns, UndoingGoes, NothingIsAFile DEF Vacant
  <2>4. QED
      BY <1>1, <2>1, <2>2, <2>3, Here, GoRuns, SaveSafe
<1>5. CASE SaveReceipt([U EXCEPT !.stage = "RestoreDataMoved"], Go("undofinish"))
  <2> DEFINE u == [U EXCEPT !.stage = "RestoreDataMoved"]
  <2>1. u \in Receipt /\ SaveReceipt(u, Go("undofinish"))
      BY <1>3, <1>5
  <2> HIDE DEF u
  <2>2. \A d : d.journal = disk.journal /\ d.undo[run.rid] = u => Goes(d, Go("undofinish"))
      BY <1>1, <1>2, <2>1, Here, GoRuns, UndoingGoes, NothingIsAFile
  <2>3. QED
      BY <1>1, <2>1, <2>2, Here, GoRuns, SaveSafe
<1>6. CASE Decide(Idle)
    BY <1>6, IdleSafe
<1>7. QED
    BY <1>4, <1>5, <1>6 DEF UndoMoved

\* The item is back at its original location: its metadata goes.
LEMMA UndoFinishSafe == TrashInv /\ UndoFinish => Good
<1> SUFFICES ASSUME TrashInv, UndoFinish PROVE Good
    OBVIOUS
<1>1. run.pc \in {"undounlink", "undofinish"} /\ "undofinish" \in Pcs
    BY DEF UndoFinish, At, Pcs
<1>2. /\ run.rid \in Ids /\ U # NoFile /\ U.slot \in Slots /\ disk.journal = NoFile
      /\ ~Exists(Stage) /\ run.pc # "idle"
      /\ run.pc = "undounlink" => Vacant(disk, U.slot)
    BY <1>1, Undoing
<1>3. /\ Go("undofinish") \in Runs
      /\ \A d : /\ d.journal = disk.journal /\ d.undo = disk.undo
                => Goes(d, Go("undofinish"))
    BY <1>1, <1>2, Here, GoRuns, UndoingGoes DEF U
<1>4. CASE At("undounlink") /\ Commit([disk EXCEPT !.info[U.slot] = NoFile],
                                      Go("undofinish"))
    BY <1>2, <1>3, <1>4, RemoveInfoSafe DEF At
<1>5. CASE Decide(Go("undofinish"))
    BY <1>3, <1>5, DecideSafe
<1>6. CASE Decide(Idle)
    BY <1>6, IdleSafe
<1>7. CASE SaveReceipt(NoFile, Idle)
    BY <1>1, <1>7, IdleGoes, SaveSafe
<1>8. QED
    BY <1>4, <1>5, <1>6, <1>7 DEF UndoFinish

-----------------------------------------------------------------------------
(* The window, other programs, and failures *)

\* The window asks for a list or a review, and takes the answer.
LEMMA WindowSafe ==
    ASSUME TrashInv, run' = Idle, UNCHANGED <<disk, stable, budget, ghost>>,
           seen' \in Items \cup {NoFile}, review' \in Reviews \cup {NoFile}
    PROVE  Good
<1>1. Typed' /\ NoneLost
    BY IdleGoes DEF Typed, TrashInv, NoneLost, Holds
<1>2. Consistent(disk)' /\ Consistent(stable)'
    BY DEF TrashInv, Consistent, Journaled, Owned, Listed, Complete
<1>3. Goes(disk, run)'
    BY DEF Idle, Goes, OnRecord, OnCall, OnFiles
<1>4. QED
    BY <1>1, <1>2, <1>3 DEF Good, TrashInv

LEMMA ListSafe == TrashInv /\ List => Good
<1> SUFFICES ASSUME TrashInv, List PROVE Good
    OBVIOUS
<1> DEFINE item(s) == [slot |-> s, tree |-> disk.tree[s],
                       ino |-> disk.info[s].ino, body |-> disk.info[s].body]
<1>1. CASE \E s \in Slots : InfoExists(s) /\ disk.info[s].body = "torn"
    BY <1>1, WindowSafe DEF List, TrashInv, Typed
<1>2. CASE ~\E s \in Slots : InfoExists(s) /\ disk.info[s].body = "torn"
  <2>1. ASSUME NEW s \in Slots, Exists(s), InfoExists(s) PROVE item(s) \in Items
    <3>1. disk.tree[s] \in Tree /\ disk.info[s] \in Info
        BY <2>1, Here, PlaceFacts DEF Exists, InfoExists, Disk
    <3>2. QED
        BY <1>2, <2>1, <3>1 DEF Items, Info
  <2>2. seen' \in {NoFile} \cup {item(s) : s \in {t \in Slots : Exists(t) /\ InfoExists(t)}}
      BY <1>2 DEF List
  <2> HIDE DEF item
  <2>3. seen' \in Items \cup {NoFile}
      BY <2>1, <2>2
  <2>4. QED
      BY <2>3, WindowSafe DEF List, TrashInv, Typed
<1>3. QED
    BY <1>1, <1>2

LEMMA SnapshotTyped ==
    ASSUME disk \in Disk, NEW rec \in Record PROVE Snapshot(rec) \in Reviews
<1>1. /\ disk.tree[Source] \in Tree \cup {NoFile} /\ disk.tree[Stage] \in Tree \cup {NoFile}
      /\ rec.slot \in Slots /\ disk.tree[rec.slot] \in Tree \cup {NoFile}
      /\ disk.info[rec.slot] \in Info \cup {NoFile}
    BY PlaceFacts DEF Disk, Record
<1>2. QED
    BY <1>1 DEF Snapshot, Reviews

LEMMA CaptureSafe == TrashInv /\ Capture => Good
<1> SUFFICES ASSUME TrashInv, Capture PROVE Good
    OBVIOUS
<1>1. disk.journal # NoFile => Snapshot(disk.journal) \in Reviews
    BY Here, SnapshotTyped DEF Disk
<1>2. QED
    BY <1>1, WindowSafe DEF Capture, TrashInv, Typed

LEMMA ResolveSafe == TrashInv /\ Resolve => Good
<1> SUFFICES ASSUME TrashInv, Resolve PROVE Good
    OBVIOUS
<1> DEFINE r == [Idle EXCEPT !.pc = "validate", !.phase = "main", !.op = "resolve"]
<1>1. Decide(r) /\ review # NoFile
    BY DEF Resolve
<1>2. r \in Runs
  <2>1. "validate" \in Pcs /\ "resolve" \in Calls
      BY DEF Pcs, Calls
  <2>2. QED
      BY <2>1, IdleGoes DEF Runs
<1>3. r.pc = "validate" /\ r.op = "resolve"
    BY DEF Idle
<1> HIDE DEF r
<1>4. OnCall(disk, r)
    BY <1>1, <1>3 DEF OnCall
<1>5. QED
    BY <1>1, <1>2, <1>3, <1>4, FreeGoes, DecideSafe

\* A call begins; a deletion was confirmed first.
LEMMA BeginSafe ==
    ASSUME TrashInv, NEW op \in Calls, Begin(op),
           op \in {"restore", "delete"} => seen # NoFile,
           budget' \in Budgets, budget'.fresh = budget.fresh,
           ghost' = IF op = "delete"
                    THEN [ghost EXCEPT !.condemned = @ \cup {seen.tree.obj}] ELSE ghost
    PROVE  Good
<1> DEFINE r == [Idle EXCEPT !.pc = "recover", !.phase = "recover", !.op = op]
<1>1. /\ run' = r /\ disk' = disk /\ stable' = stable /\ seen' = seen /\ review' = review
    BY DEF Begin, held
<1>2. r \in Runs
  <2>1. "recover" \in Pcs
      BY DEF Pcs
  <2>2. QED
      BY <2>1, IdleGoes DEF Runs
<1>3. r.pc = "recover" /\ r.op = op
    BY DEF Idle
<1> HIDE DEF r
<1>4. /\ ghost' \in Ghosts /\ ghost'.touched = ghost.touched
      /\ ghost.condemned \subseteq ghost'.condemned
      /\ op = "delete" => seen.tree.obj \in ghost'.condemned
  <2>1. ghost \in Ghosts
      BY DEF TrashInv, Typed
  <2>2. CASE op = "delete"
    <3>1. seen.tree.obj \in Nat
        BY <2>2 DEF TrashInv, Typed, Items, Tree
    <3>2. QED
        BY <2>1, <2>2, <3>1 DEF Ghosts
  <2>3. CASE op # "delete"
      BY <2>1, <2>3
  <2>4. QED
      BY <2>2, <2>3
<1>5. Typed' /\ NoneLost
    BY <1>1, <1>2, <1>4 DEF Typed, TrashInv, NoneLost, Holds
<1>6. Consistent(disk)' /\ Consistent(stable)'
    BY <1>1, <1>4 DEF TrashInv, Consistent, Journaled, Owned, Listed, Complete
<1>7. Goes(disk, run)'
    BY <1>1, <1>3, <1>4 DEF Goes, OnRecord, OnCall, OnFiles
<1>8. QED
    BY <1>5, <1>6, <1>7 DEF Good, TrashInv

LEMMA CallSafe == \A op \in Operations \cup {"undo"} : TrashInv /\ Call(op) => Good
<1> SUFFICES ASSUME NEW op \in Operations \cup {"undo"}, TrashInv, Call(op) PROVE Good
    OBVIOUS
<1>1. budget' \in Budgets /\ budget'.fresh = budget.fresh
    BY Here DEF Call, Budgets
<1>2. op \in Calls
    BY DEF Operations, Calls
<1>3. QED
    BY <1>1, <1>2, BeginSafe DEF Call

LEMMA LookSafe == \A op \in {"list", "review"} : TrashInv /\ Look(op) => Good
<1> SUFFICES ASSUME NEW op \in {"list", "review"}, TrashInv, Look(op) PROVE Good
    OBVIOUS
<1>1. op \in Calls /\ budget' = budget /\ ghost' = ghost
    BY DEF Look, Calls
<1>2. QED
    BY <1>1, Here, BeginSafe DEF Look

LEMMA StopSafe == TrashInv /\ Stop => Good
<1> SUFFICES ASSUME TrashInv, Stop PROVE Good
    OBVIOUS
<1>1. QED
    BY IdleGoes, FaultSafe DEF Stop

LEMMA PowerLossSafe == TrashInv /\ PowerLoss => Good
<1> SUFFICES ASSUME TrashInv, PowerLoss PROVE Good
    OBVIOUS
<1>1. /\ disk' \in {disk, stable} /\ stable' = disk' /\ run' = Idle /\ seen' = NoFile
      /\ review' = NoFile /\ ghost' = ghost /\ budget' = [budget EXCEPT !.faults = @ + 1]
    BY DEF PowerLoss
<1>2. budget' \in Budgets
    BY <1>1, Here DEF Budgets
<1>3. Typed' /\ NoneLost
    BY <1>1, <1>2, IdleGoes DEF Typed, TrashInv, NoneLost, Holds
<1>4. Consistent(disk)' /\ Consistent(stable)'
    BY <1>1 DEF TrashInv, Consistent, Journaled, Owned, Listed, Complete
<1>5. Goes(disk, run)'
    BY <1>1 DEF Idle, Goes, OnRecord, OnCall, OnFiles
<1>6. QED
    BY <1>3, <1>4, <1>5 DEF Good, TrashInv

\* Another program's change: what it touches is known to be touched, it never
\* fills or empties the stage, and no item goes that it did not remove.
LEMMA OutsideSafe ==
    ASSUME TrashInv, NEW d \in Disk, NEW made \in BOOLEAN,
           NEW places \in SUBSET Places, NEW removed \in SUBSET Nat,
           d.journal = disk.journal, d.undo = disk.undo,
           d.tree[Stage] = NoFile <=> disk.tree[Stage] = NoFile,
           \A s \in Slots \ places : /\ d.info[s] = disk.info[s]
                                     /\ d.tree[s] = NoFile <=> disk.tree[s] = NoFile,
           \A o \in Nat : Holds(disk, o) => Holds(d, o) \/ o \in removed,
           Outside(d, made, places, removed)
    PROVE  Good
<1>1. /\ disk' = d /\ stable' = (IF stable = disk THEN d ELSE stable)
      /\ run' = run /\ seen' = seen /\ review' = review
    BY DEF Outside, held
<1>2. budget' \in Budgets
  <2> DEFINE n == budget.outside + 1
             f == IF made THEN budget.fresh + 1 ELSE budget.fresh
  <2>1. budget' = [budget EXCEPT !.outside = n, !.fresh = f]
      BY DEF Outside
  <2>2. budget \in Budgets /\ n \in Nat /\ f \in Nat
      BY Here DEF Budgets
  <2> HIDE DEF n, f
  <2>3. QED
      BY <2>1, <2>2 DEF Budgets
<1>3. ghost' \in Ghosts /\ ghost'.condemned = ghost.condemned
      /\ ghost'.touched = ghost.touched \cup places
      /\ ghost'.removed = ghost.removed \cup removed
    BY DEF Outside, TrashInv, Typed, Ghosts
<1>4. Typed'
    BY <1>1, <1>2, <1>3 DEF Typed, TrashInv
<1>5. NoneLost
    BY <1>1, <1>3 DEF NoneLost, TrashInv, Typed, Budgets
<1>6. \A s \in Slots : /\ Complete(disk, s) => Complete(disk, s)'
                       /\ Vacant(disk, s) => Vacant(disk, s)'
                       /\ Made(disk, run, s) => Made(disk, run, s)'
                       /\ Complete(stable, s) => Complete(stable, s)'
    BY <1>1, <1>3 DEF Complete, Vacant, Made
<1>7. /\ disk.journal # NoFile => disk.journal.slot \in Slots
      /\ stable.journal # NoFile => stable.journal.slot \in Slots
    BY DEF TrashInv, Typed, Disk, Record
<1>8. Consistent(disk)'
  <2>1. Journaled(disk)'
      BY <1>1, <1>3, Here DEF Consistent, Journaled
  <2>2. Owned(disk)'
      BY <1>1, <1>6, <1>7, Here DEF Consistent, Owned
  <2>3. Listed(disk)'
    <3>1. \A s \in Slots : s \notin ghost'.touched => (disk'.tree[s] # NoFile => Complete(disk, s))
        BY <1>1, <1>3, Here DEF Consistent, Listed
    <3>2. \A s \in Slots : s \in ghost'.touched => Complete(disk, s)'
        BY DEF Complete
    <3>3. QED
        BY <1>6, <3>1, <3>2 DEF Listed
  <2>4. QED
      BY <2>1, <2>2, <2>3 DEF Consistent
<1>9. Consistent(stable)'
  <2>1. CASE stable = disk
      BY <1>1, <1>8, <2>1 DEF Consistent, Journaled, Owned, Listed, Complete
  <2>2. CASE stable # disk
    <3>1. Journaled(stable)'
        BY <1>1, <1>3, <2>2 DEF TrashInv, Consistent, Journaled
    <3>2. Owned(stable)'
        BY <1>1, <1>6, <1>7, <2>2 DEF TrashInv, Consistent, Owned
    <3>3. Listed(stable)'
        BY <1>1, <1>6, <2>2 DEF TrashInv, Consistent, Listed
    <3>4. QED
        BY <3>1, <3>2, <3>3 DEF Consistent
  <2>3. QED
      BY <2>1, <2>2
<1>10. Goes(disk, run)'
  <2>1. OnRecord(disk, run)'
      BY <1>1, Here DEF Goes, OnRecord
  <2>2. OnCall(disk, run)'
      BY <1>1, <1>3, Here DEF Goes, OnCall
  <2>3. OnFiles(disk, run)'
    <3>1. run.pc \in RecordPcs => run.cur.slot \in Slots
        BY Working DEF R
    <3>2. run.pc \in KeepPcs => run.cur.rslot \in Slots
      <4>1. CASE run.pc \in KeepPcs
        <5>1. R.intent = "PreserveConflicting" /\ R \in Record /\ Valid(R)
            BY <4>1, Working, Here DEF Goes, OnRecord, R
        <5>2. R.rslot # 0
            BY <5>1 DEF Valid
        <5>3. QED
            BY <5>1, <5>2 DEF Record, R
      <4>2. QED
          BY <4>1
    <3>3. run.pc \in UndoPcs => disk.undo[run.rid].slot \in Slots
        BY Undoing DEF U
    <3>4. OnFiles(disk, run)
        BY Here DEF Goes
    <3>5. QED
        BY <1>1, <1>6, <3>1, <3>2, <3>3, <3>4 DEF OnFiles
  <2>4. QED
      BY <2>1, <2>2, <2>3 DEF Goes
<1>11. QED
    BY <1>4, <1>5, <1>8, <1>9, <1>10 DEF Good, TrashInv

LEMMA OtherEditsSafe == \A p \in Places : TrashInv /\ OtherEdits(p) => Good
<1> SUFFICES ASSUME NEW p \in Places, TrashInv, OtherEdits(p) PROVE Good
    OBVIOUS
<1> DEFINE t == [disk.tree[p] EXCEPT !.ver = @ + 1]
           d == [disk EXCEPT !.tree[p] = t]
<1>1. Outside(d, FALSE, {p}, {}) /\ Exists(p)
    BY DEF OtherEdits
<1>2. disk.tree[p] \in Tree
    BY <1>1, Here DEF Disk, Exists
<1>3. t \in Tree /\ t # NoFile /\ t.obj = disk.tree[p].obj
    BY <1>2, NothingIsAFile DEF Tree
<1> HIDE DEF t
<1>4. /\ d \in Disk /\ d.journal = disk.journal /\ d.undo = disk.undo
      /\ d.info = disk.info /\ d.tree[p] = t
      /\ \A x \in Places \ {p} : d.tree[x] = disk.tree[x]
    BY <1>3, Here DEF Disk
<1> HIDE DEF d
<1>5. \A x \in Places : d.tree[x] = NoFile <=> disk.tree[x] = NoFile
    BY <1>1, <1>3, <1>4 DEF Exists
<1>6. \A o \in Nat : Holds(disk, o) => Holds(d, o)
    BY <1>3, <1>4 DEF Holds
<1>7. \A s \in Slots \ {p} : d.tree[s] = disk.tree[s] /\ d.info[s] = disk.info[s]
    BY <1>4, PlaceFacts
<1>8. {p} \in SUBSET Places /\ {} \in SUBSET Nat /\ FALSE \in BOOLEAN
    OBVIOUS
<1>9. d.tree[Stage] = NoFile <=> disk.tree[Stage] = NoFile
    BY <1>5, PlaceFacts
<1>10. QED
    BY <1>1, <1>4, <1>6, <1>7, <1>8, <1>9, OutsideSafe

\* An item is created or removed anywhere but in the hidden stage.
LEMMA OtherCreatesSafe == \A p \in Places \ {Stage} : TrashInv /\ OtherCreates(p) => Good
<1> SUFFICES ASSUME NEW p \in Places \ {Stage}, TrashInv, OtherCreates(p) PROVE Good
    OBVIOUS
<1> DEFINE t == [obj |-> budget.fresh, ver |-> 1, at |-> 1]
           h == IF p = Source THEN disk.home + 1 ELSE disk.home
           d == [disk EXCEPT !.tree[p] = t, !.home = h]
<1>1. Outside(d, TRUE, {p}, {}) /\ ~Exists(p)
    BY DEF OtherCreates
<1>2. t \in Tree
    BY Here DEF Tree, Budgets
<1>3. h \in Nat
    BY Here DEF Disk
<1> HIDE DEF t, h
<1>4. /\ d \in Disk /\ d.journal = disk.journal /\ d.undo = disk.undo
      /\ d.info = disk.info
      /\ \A x \in Places \ {p} : d.tree[x] = disk.tree[x]
    BY <1>2, <1>3, Here DEF Disk
<1> HIDE DEF d
<1>5. \A o \in Nat : Holds(disk, o) => Holds(d, o)
    BY <1>1, <1>4 DEF Holds, Exists
<1>6. /\ \A s \in Slots \ {p} : d.tree[s] = disk.tree[s] /\ d.info[s] = disk.info[s]
      /\ d.tree[Stage] = disk.tree[Stage]
    BY <1>4, PlaceFacts
<1>7. {p} \in SUBSET Places /\ {} \in SUBSET Nat /\ TRUE \in BOOLEAN
    OBVIOUS
<1>8. QED
    BY <1>1, <1>4, <1>5, <1>6, <1>7, OutsideSafe

LEMMA OtherRemovesSafe == \A p \in Places \ {Stage} : TrashInv /\ OtherRemoves(p) => Good
<1> SUFFICES ASSUME NEW p \in Places \ {Stage}, TrashInv, OtherRemoves(p) PROVE Good
    OBVIOUS
<1> DEFINE h == IF p = Source THEN disk.home + 1 ELSE disk.home
           d == [disk EXCEPT !.tree[p] = NoFile, !.home = h]
<1>1. Outside(d, FALSE, {p}, {disk.tree[p].obj}) /\ Exists(p)
    BY DEF OtherRemoves
<1>2. h \in Nat /\ disk.tree[p].obj \in Nat
    BY <1>1, Here DEF Disk, Tree, Exists
<1> HIDE DEF h
<1>3. /\ d \in Disk /\ d.journal = disk.journal /\ d.undo = disk.undo
      /\ d.info = disk.info
      /\ \A x \in Places \ {p} : d.tree[x] = disk.tree[x]
    BY <1>2, Here DEF Disk
<1> HIDE DEF d
<1>4. \A o \in Nat : Holds(disk, o) => Holds(d, o) \/ o \in {disk.tree[p].obj}
    BY <1>3 DEF Holds
<1>5. /\ \A s \in Slots \ {p} : d.tree[s] = disk.tree[s] /\ d.info[s] = disk.info[s]
      /\ d.tree[Stage] = disk.tree[Stage]
    BY <1>3, PlaceFacts
<1>6. {p} \in SUBSET Places /\ {disk.tree[p].obj} \in SUBSET Nat /\ FALSE \in BOOLEAN
    BY <1>2
<1>7. QED
    BY <1>1, <1>3, <1>4, <1>5, <1>6, OutsideSafe

LEMMA OtherInfoSafe ==
    \A s \in Slots : TrashInv /\ (OtherWritesInfo(s) \/ OtherRemovesInfo(s)) => Good
<1> SUFFICES ASSUME NEW s \in Slots, TrashInv,
                    OtherWritesInfo(s) \/ OtherRemovesInfo(s)
             PROVE  Good
    OBVIOUS
<1>1. ASSUME NEW i \in Info \cup {NoFile}, NEW made \in BOOLEAN,
             Outside([disk EXCEPT !.info[s] = i], made, {s}, {})
      PROVE  Good
  <2> DEFINE d == [disk EXCEPT !.info[s] = i]
  <2>1. /\ d \in Disk /\ d.journal = disk.journal /\ d.undo = disk.undo
        /\ d.tree = disk.tree /\ \A t \in Slots \ {s} : d.info[t] = disk.info[t]
      BY Here DEF Disk
  <2>2. Outside(d, made, {s}, {})
      BY <1>1
  <2> HIDE DEF d
  <2>3. \A o \in Nat : Holds(disk, o) => Holds(d, o)
      BY <2>1 DEF Holds
  <2>4. QED
      BY <2>1, <2>2, <2>3, PlaceFacts, OutsideSafe
<1>2. [ino |-> budget.fresh, body |-> "other"] \in Info
    BY Here DEF Info, Budgets
<1>3. QED
    BY <1>1, <1>2 DEF OtherWritesInfo, OtherRemovesInfo

LEMMA OtherUsesFolderSafe == TrashInv /\ OtherUsesFolder => Good
<1> SUFFICES ASSUME TrashInv, OtherUsesFolder PROVE Good
    OBVIOUS
<1> DEFINE d == [disk EXCEPT !.home = @ + 1]
<1>1. /\ d \in Disk /\ d.journal = disk.journal /\ d.undo = disk.undo
      /\ d.tree = disk.tree /\ d.info = disk.info
    BY Here DEF Disk
<1>2. Outside(d, FALSE, {}, {})
    BY DEF OtherUsesFolder
<1> HIDE DEF d
<1>3. \A o \in Nat : Holds(disk, o) => Holds(d, o)
    BY <1>1 DEF Holds
<1>4. QED
    BY <1>1, <1>2, <1>3, OutsideSafe

LEMMA OthersSafe == TrashInv /\ Others => Good
BY OtherEditsSafe, OtherCreatesSafe, OtherRemovesSafe, OtherInfoSafe, OtherUsesFolderSafe
   DEF Others

-----------------------------------------------------------------------------
(* Accepted resolutions *)

\* A call that works on an accepted resolution.
LEMMA Resolving ==
    ASSUME TrashInv, run.pc \in ReturnPcs \cup RebuildPcs \cup KeepPcs
    PROVE  /\ disk.journal = R /\ R # NoFile /\ R \in Record /\ Valid(R)
           /\ R.slot \in Slots /\ R.slot \in Places /\ R.slot # Source /\ R.slot # Stage
           /\ R.stage \in Stages[R.op] /\ run.pc # "idle" /\ ~At("idle")
           /\ R.op = "delete" => R.tree.obj \in ghost.condemned
           /\ Exists(Stage) => /\ R.op = "delete"
                               /\ R.stage \in {"DeletePrepared", "DeleteDataStaged"}
                               /\ Complete(disk, R.slot)
           /\ run.pc \in ReturnPcs => R.intent = "ReturnDeleteStage"
           /\ run.pc \in RebuildPcs =>
                 /\ R.intent \in {"RebuildMetadata", "ReturnAndRebuild"}
                 /\ R.slot \in ghost.touched /\ R.rbody \in {"ours", "other"}
           /\ R.intent = "RebuildMetadata" => ~Exists(Stage)
           /\ run.pc \in {"returncheck"} \cup RebuiltPcs => ~Exists(Stage)
           /\ run.pc = "rebuiltall" => R.op = "trash"
           /\ run.pc \in KeepPcs =>
                 R.intent = "PreserveConflicting" /\ R.rbody \in {"ours", "other"}
<1>1. /\ disk.journal = R /\ R # NoFile /\ R \in Record /\ Valid(R)
      /\ R.slot \in Slots /\ R.slot \in Places /\ R.slot # Source /\ R.slot # Stage
      /\ R.stage \in Stages[R.op]
    BY Working
<1>2. /\ run.pc \in ReturnPcs => R.intent = "ReturnDeleteStage"
      /\ run.pc \in RebuildPcs => R.intent \in {"RebuildMetadata", "ReturnAndRebuild"}
      /\ run.pc = "rebuiltall" => R.op = "trash"
      /\ run.pc \in KeepPcs => R.intent = "PreserveConflicting"
    BY Here DEF Goes, OnRecord, R
<1>3. run.pc \in {"returncheck"} \cup RebuiltPcs => ~Exists(Stage)
    BY Here DEF Goes, OnFiles, Exists
<1>4. /\ R.op = "delete" => R.tree.obj \in ghost.condemned
      /\ R.intent \in {"RebuildMetadata", "ReturnAndRebuild"} =>
            R.slot \in ghost.touched /\ R.rbody # "torn"
      /\ R.intent = "PreserveConflicting" => R.rbody # "torn"
      /\ R.intent = "RebuildMetadata" => ~Exists(Stage)
    BY <1>1, Here DEF Consistent, Journaled, Exists
<1>5. R.rbody \in {"ours", "other", "torn"}
    BY <1>1 DEF Record
<1>6. Exists(Stage) => /\ R.op = "delete"
                       /\ R.stage \in {"DeletePrepared", "DeleteDataStaged"}
                       /\ Complete(disk, R.slot)
    BY <1>1, Here DEF Consistent, Owned, Exists
<1>7. QED
    BY <1>1, <1>2, <1>3, <1>4, <1>5, <1>6 DEF At

LEMMA ResolvingGoes ==
    ASSUME TrashInv, run.pc # "idle",
           NEW d, d.journal # NoFile, NEW r, r.cur = d.journal, r.op = run.op,
           \/ r.pc \in ReturnPcs /\ d.journal.intent = "ReturnDeleteStage"
           \/ /\ r.pc \in RebuildPcs
              /\ d.journal.intent \in {"RebuildMetadata", "ReturnAndRebuild"}
           \/ r.pc \in KeepPcs /\ d.journal.intent = "PreserveConflicting",
           r.pc = "rebuiltall" => d.journal.op = "trash",
           r.pc \in {"returncheck"} \cup RebuiltPcs => d.tree[Stage] = NoFile,
           r.pc \in {"keepinfo", "keepnew", "keepnewfill", "keepbind", "keepmove"} =>
              d.tree[Stage] = NoFile \/ Vacant(d, d.journal.rslot),
           r.pc = "keepnewfill" => Made(d, r, d.journal.rslot),
           r.pc \in {"keepbind", "keepmove"} => Complete(d, d.journal.rslot)
    PROVE  Goes(d, r)
<1>1. OnCall(d, r)
    BY CallGoes
<1>2. OnRecord(d, r)
    BY DEF OnRecord
<1>3. OnFiles(d, r)
    BY DEF OnFiles
<1>4. QED
    BY <1>1, <1>2, <1>3 DEF Goes

\* The accepted record changes in what the resolution has done so far.
LEMMA ResolvingPersist ==
    ASSUME TrashInv, run.pc \in ReturnPcs \cup RebuildPcs \cup KeepPcs,
           NEW rec \in Record, NEW next \in Pcs,
           Valid(rec) /\ rec.stage \in Stages[rec.op],
           /\ rec.op = R.op /\ rec.slot = R.slot /\ rec.tree = R.tree
           /\ rec.intent = R.intent /\ rec.rbody = R.rbody
           /\ rec.intent # "ReturnDeleteStage",
           rec.stage = R.stage \/ ~Exists(Stage),
           Persist(rec, next),
           \A d, r : /\ d.journal = rec /\ d.tree = disk.tree /\ d.info = disk.info
                     /\ r.pc = next /\ r.cur = rec /\ r.op = run.op
                     => Goes(d, r)
    PROVE  Good
<1>1. /\ rec.op = "delete" => rec.tree.obj \in ghost.condemned
      /\ rec.intent \in {"RebuildMetadata", "ReturnAndRebuild"} =>
            rec.slot \in ghost.touched /\ rec.rbody # "torn"
      /\ rec.intent = "PreserveConflicting" => rec.rbody # "torn"
      /\ rec.intent = "RebuildMetadata" => ~Exists(Stage)
      /\ Exists(Stage) => /\ rec.op = "delete" /\ rec.slot = disk.journal.slot
                          /\ rec.stage \in {"DeletePrepared", "DeleteDataStaged"}
    BY Resolving
<1>2. QED
    BY <1>1, PersistSafe

\* Existing metadata with the accepted bytes, or none yet.
LEMMA AdoptSafe ==
    ASSUME TrashInv, NEW from, NEW s \in Slots, NEW create \in Pcs, NEW next \in Pcs,
           AdoptOrCreate(from, s, create, next), from # "idle",
           Goes(disk, Go(create)),
           InfoExists(s) /\ Adoptable(R, s) =>
              \A r : /\ r.pc = next /\ r.cur = run.cur /\ r.op = run.op /\ r.rid = run.rid
                     => Goes(disk, r)
    PROVE  Good
<1>1. CASE Decide(Go(create))
    BY <1>1, Here, GoRuns, DecideSafe
<1>2. CASE /\ InfoExists(s) /\ Adoptable(R, s)
           /\ Decide([run EXCEPT !.pc = next, !.made = disk.info[s].ino])
  <2> DEFINE r == [run EXCEPT !.pc = next, !.made = disk.info[s].ino]
  <2>1. disk.info[s].ino \in Nat
      BY <1>2, Here DEF InfoExists, Disk, Info
  <2>2. /\ r \in Runs /\ r.pc = next /\ r.cur = run.cur /\ r.op = run.op
        /\ r.rid = run.rid
      BY <2>1, Here DEF Runs
  <2>3. Decide(r)
      BY <1>2
  <2> HIDE DEF r
  <2>4. QED
      BY <1>2, <2>2, <2>3, DecideSafe
<1>3. CASE Decide(Pending)
    BY <1>3, PendingSafe DEF AdoptOrCreate, At
<1>4. QED
    BY <1>1, <1>2, <1>3 DEF AdoptOrCreate

\* recover_returned_delete_stage: the item goes back to its metadata.
LEMMA ReturnStageSafe == TrashInv /\ ReturnStage => Good
<1> SUFFICES ASSUME TrashInv, ReturnStage PROVE Good
    OBVIOUS
<1>1. run.pc \in ReturnPcs /\ {"returncheck", "drop"} \subseteq Pcs
  <2>1. run.pc \in ReturnPcs
      BY DEF ReturnStage, At
  <2>2. {"returncheck", "drop"} \subseteq Pcs
      BY DEF Pcs
  <2>3. QED
      BY <2>1, <2>2
<1>2. /\ disk.journal = R /\ R # NoFile /\ R \in Record
      /\ R.slot \in Slots /\ R.slot \in Places /\ R.slot # Source /\ R.slot # Stage
      /\ run.pc # "idle" /\ ~At("idle") /\ R.intent = "ReturnDeleteStage"
      /\ Exists(Stage) => Complete(disk, R.slot)
      /\ run.pc = "returncheck" => ~Exists(Stage)
    BY <1>1, Resolving
<1>3. CASE At("returned") /\ Decide(Go(RecoverReturned(R)))
  <2> DEFINE pc == RecoverReturned(R)
  <2>1. pc \in Pcs
      BY DEF RecoverReturned, Pcs
  <2>2. /\ Go(pc) \in Runs /\ Go(pc).pc = pc /\ Go(pc).cur = R /\ Go(pc).op = run.op
      BY <2>1, Here, GoRuns DEF R
  <2>3. pc \notin UndoPcs \cup {"validate"}
      BY DEF RecoverReturned
  <2>4. OnCall(disk, Go(pc))
      BY <1>2, <2>2, <2>3, CallGoes
  <2>5. Goes(disk, Go(pc))
      BY <1>2, <2>2, <2>4, RecoverReturnedGoes
  <2>6. QED
      BY <1>3, <2>2, <2>5, DecideSafe
<1>4. CASE CanMove(Stage, R.slot) /\ Commit(Move(disk, Stage, R.slot), Go("returncheck"))
  <2>1. Go("returncheck") \in Runs
      BY <1>1, Here, GoRuns
  <2>2. ASSUME NEW d, d.journal = disk.journal, d.tree[Stage] = NoFile
        PROVE  Goes(d, Go("returncheck"))
      BY <1>1, <1>2, <2>2, Here, GoRuns, ResolvingGoes DEF R
  <2>3. Complete(disk, R.slot)
      BY <1>2, <1>4 DEF CanMove
  <2>4. QED
      BY <1>2, <1>4, <2>1, <2>2, <2>3, PlaceFacts, MoveSafe
<1>5. CASE At("returncheck") /\ Decide(Go("drop"))
  <2>1. Go("drop") \in Runs /\ Goes(disk, Go("drop"))
      BY <1>1, <1>2, <1>5, Here, GoRuns, DropGoes DEF R, At, Exists
  <2>2. QED
      BY <1>5, <2>1, DecideSafe
<1>6. CASE Decide(Idle) \/ Decide(Pending)
    BY <1>2, <1>6, IdleSafe, PendingSafe
<1>7. QED
    BY <1>3, <1>4, <1>5, <1>6 DEF ReturnStage

\* recover_rebuilt_metadata: only under a name that others touched, so the
\* item may be there before its metadata.
LEMMA RebuildMoveSafe == TrashInv /\ RebuildMove => Good
<1> SUFFICES ASSUME TrashInv, RebuildMove PROVE Good
    OBVIOUS
<1>1. run.pc \in {"rebuild", "rebuildmove"}
    BY DEF RebuildMove, At
<1>2. /\ disk.journal = R /\ R # NoFile
      /\ R.slot \in Places /\ R.slot # Stage
      /\ run.pc # "idle" /\ ~At("idle")
      /\ R.intent \in {"RebuildMetadata", "ReturnAndRebuild"}
      /\ R.intent = "RebuildMetadata" => ~Exists(Stage)
      /\ R.slot \in ghost.touched
    BY <1>1, Resolving
<1>3. \A pc \in {"rebuild", "rebuildmove", "rebuildinfo"} :
        /\ Go(pc) \in Runs /\ Go(pc).pc = pc /\ Go(pc).cur = R /\ Go(pc).op = run.op
    BY Here, GoRuns DEF R, Pcs
<1>4. CASE ~Exists(Stage) /\ Decide(Go("rebuildinfo"))
  <2>1. Goes(disk, Go("rebuildinfo"))
      BY <1>2, <1>3, <1>4, ResolvingGoes DEF Exists
  <2>2. QED
      BY <1>3, <1>4, <2>1, DecideSafe
<1>5. CASE Decide(Go("rebuildmove"))
  <2>1. Goes(disk, Go("rebuildmove"))
      BY <1>2, <1>3, ResolvingGoes
  <2>2. QED
      BY <1>3, <1>5, <2>1, DecideSafe
<1>6. CASE Decide(Pending) \/ Decide(Idle)
    BY <1>2, <1>6, IdleSafe, PendingSafe
<1>7. CASE CanMove(Stage, R.slot) /\ Commit(Move(disk, Stage, R.slot), Go("rebuild"))
  <2>1. \A d : d.journal = disk.journal => Goes(d, Go("rebuild"))
      BY <1>2, <1>3, ResolvingGoes
  <2>2. Complete(disk, R.slot)
      BY <1>2 DEF Complete
  <2>3. QED
      BY <1>2, <1>3, <1>7, <2>1, <2>2, PlaceFacts, MoveSafe
<1>8. CASE At("rebuild") /\ R.intent = "RebuildMetadata"
  <2>1. Decide(Go("rebuildinfo")) \/ Decide(Pending)
      BY <1>8 DEF RebuildMove, At
  <2>2. QED
      BY <1>2, <1>4, <1>6, <1>8, <2>1
<1>9. CASE At("rebuild") /\ R.intent # "RebuildMetadata"
  <2>1. \/ Decide(Go("rebuildmove"))
        \/ ~Exists(Stage) /\ Decide(Go("rebuildinfo"))
        \/ Decide(Pending)
      BY <1>9 DEF RebuildMove, At
  <2>2. QED
      BY <1>4, <1>5, <1>6, <2>1
<1>10. CASE At("rebuildmove")
    BY <1>6, <1>7, <1>10 DEF RebuildMove, At
<1>11. QED
    BY <1>1, <1>8, <1>9, <1>10 DEF At

LEMMA RebuildInfoSafe == TrashInv /\ RebuildInfo => Good
<1> SUFFICES ASSUME TrashInv, RebuildInfo PROVE Good
    OBVIOUS
<1>1. /\ run.pc \in {"rebuildinfo", "rebuildcreate", "rebuildfill"}
      /\ {"rebuildcreate", "rebuildfill", "rebuildsave"} \subseteq Pcs
    BY DEF RebuildInfo, AdoptOrCreate, CreateInfo, FillInfo, At, Pcs
<1>2. /\ disk.journal = R /\ R # NoFile /\ R.slot \in Slots
      /\ run.pc # "idle" /\ ~Exists(Stage)
      /\ R.intent \in {"RebuildMetadata", "ReturnAndRebuild"}
      /\ R.rbody \in {"ours", "other"}
    BY <1>1, Resolving
<1>3. \A pc \in {"rebuildcreate", "rebuildfill", "rebuildsave"} :
        /\ Go(pc) \in Runs /\ Go(pc).pc = pc /\ Go(pc).cur = R /\ Go(pc).op = run.op
    BY <1>1, Here, GoRuns DEF R
<1>4. \A d, r : /\ d.journal = disk.journal /\ d.tree = disk.tree
                /\ r.pc \in {"rebuildcreate", "rebuildfill", "rebuildsave"}
                /\ r.cur = run.cur /\ r.op = run.op
                => Goes(d, r)
    BY <1>2, ResolvingGoes DEF Exists, R
<1>5. CASE AdoptOrCreate("rebuildinfo", R.slot, "rebuildcreate", "rebuildsave")
    BY <1>1, <1>2, <1>3, <1>4, <1>5, AdoptSafe DEF R
<1>6. CASE CreateInfo("rebuildcreate", R.slot, Idle, "rebuildfill")
    BY <1>1, <1>2, <1>4, <1>6, IdleGoes, CreateSafe
<1>7. CASE FillInfo("rebuildfill", R.slot, R.rbody, Go("rebuildsave"))
    BY <1>1, <1>2, <1>3, <1>4, <1>7, FillSafe DEF R
<1>8. QED
    BY <1>5, <1>6, <1>7 DEF RebuildInfo

\* What an accepted record must keep to stay valid.
LEMMA ValidKeeps ==
    ASSUME NEW old, Valid(old), NEW rec,
           rec.intent = old.intent,
           old.intent \in {"RebuildMetadata", "ReturnAndRebuild", "PreserveConflicting"},
           rec.op = old.op, rec.slot = old.slot, rec.rtree = old.rtree,
           rec.rbytes = old.rbytes, rec.ptree = old.ptree, rec.rslot = old.rslot,
           rec.stage = old.stage \/ old.op # "delete",
           old.intent # "PreserveConflicting" => rec.pino = old.pino
    PROVE  Valid(rec)
BY DEF Valid, HasConflictState

LEMMA RebuildSaveSafe == TrashInv /\ RebuildSave => Good
<1> SUFFICES ASSUME TrashInv, RebuildSave PROVE Good
    OBVIOUS
<1> DEFINE complete == R.op = "trash" /\ ~Exists(Source) /\ DataMatchesAfterRename(R)
           bind == R.op # "trash" \/ R.stage # "Prepared" \/ complete
           ino == IF bind THEN run.made ELSE R.ino
           body == IF bind THEN R.rbody ELSE R.body
           stage == IF complete THEN "DataMoved" ELSE R.stage
           rec == [R EXCEPT !.rino = run.made, !.ino = ino, !.body = body, !.stage = stage]
           next == IF complete THEN "rebuiltall" ELSE "rebuilt"
<1>1. run.pc = "rebuildsave" /\ Persist(rec, next)
    BY DEF RebuildSave, At
<1>2. /\ disk.journal = R /\ R # NoFile /\ R \in Record /\ Valid(R)
      /\ run.pc # "idle" /\ ~Exists(Stage) /\ R.stage \in Stages[R.op]
      /\ R.intent \in {"RebuildMetadata", "ReturnAndRebuild"}
      /\ R.rbody \in {"ours", "other"} /\ R.op \in Operations
    BY <1>1, Working, Resolving
<1>3. /\ ino \in Nat /\ body \in {"ours", "other"} /\ run.made \in Nat
      /\ stage \in Stages[R.op] /\ stage \in UNION {Stages[o] : o \in Operations}
      /\ stage = R.stage \/ R.op = "trash"
      /\ next \in {"rebuilt", "rebuiltall"} /\ next \in Pcs
      /\ next = "rebuiltall" => R.op = "trash"
  <2>1. ino \in Nat /\ body \in {"ours", "other"} /\ run.made \in Nat
      BY <1>2, Here DEF Runs, Record
  <2>2. complete => "DataMoved" \in Stages[R.op]
      BY DEF Stages
  <2>3. stage \in Stages[R.op]
      BY <1>2, <2>2
  <2>4. next \in {"rebuilt", "rebuiltall"} /\ next \in Pcs
      BY DEF Pcs
  <2>5. QED
      BY <1>2, <2>1, <2>3, <2>4
<1> HIDE DEF ino, body, stage, next
<1>4. rec \in Record
    BY <1>2, <1>3 DEF Record
<1>5. /\ rec.op = R.op /\ rec.slot = R.slot /\ rec.tree = R.tree /\ rec.intent = R.intent
      /\ rec.rbody = R.rbody /\ rec.stage = stage /\ rec.rtree = R.rtree
      /\ rec.rbytes = R.rbytes /\ rec.ptree = R.ptree /\ rec.rslot = R.rslot
      /\ rec.pino = R.pino
    BY <1>2 DEF Record
<1> HIDE DEF rec
<1>6. Valid(rec) /\ rec.stage \in Stages[rec.op]
    BY <1>2, <1>3, <1>5, ValidKeeps
<1>7. \A d, r : /\ d.journal = rec /\ d.tree = disk.tree
                /\ r.pc = next /\ r.cur = rec /\ r.op = run.op
                => Goes(d, r)
    BY <1>2, <1>3, <1>4, <1>5, ResolvingGoes, NothingIsAFile DEF Exists
<1>8. QED
    BY <1>1, <1>2, <1>3, <1>4, <1>5, <1>6, <1>7, ResolvingPersist

LEMMA RebuildFinishSafe == TrashInv /\ RebuildFinish => Good
<1> SUFFICES ASSUME TrashInv, RebuildFinish PROVE Good
    OBVIOUS
<1> DEFINE undo == Discard(disk.undo, R.slot)
           pc == IF At("rebuilt") THEN "drop" ELSE "archive"
<1>1. run.pc \in {"rebuilt", "rebuiltall"}
    BY DEF RebuildFinish, At
<1>2. /\ disk.journal = R /\ R # NoFile /\ run.pc # "idle" /\ ~At("idle") /\ ~Exists(Stage)
      /\ run.pc = "rebuiltall" => R.op = "trash"
    BY <1>1, Resolving
<1>3. CASE Commit([disk EXCEPT !.undo = undo], Go(pc))
  <2>1. undo \in Undos
      BY Here, DiscardTyped DEF Disk, Undos
  <2>2. pc \in {"drop", "archive"} /\ pc \in Pcs /\ (pc = "archive" => R.op = "trash")
      BY <1>1, <1>2 DEF At, Pcs
  <2> HIDE DEF undo, pc
  <2>3. /\ Go(pc) \in Runs /\ Go(pc).pc = pc /\ Go(pc).cur = R /\ Go(pc).op = run.op
      BY <2>2, Here, GoRuns DEF R
  <2>4. \A d : d.journal = disk.journal /\ d.tree = disk.tree => Goes(d, Go(pc))
      BY <1>2, <2>2, <2>3, DropGoes, ArchiveGoes DEF Exists
  <2>5. QED
      BY <1>3, <2>1, <2>3, <2>4, ReceiptsSafe
<1>4. CASE Decide(Pending)
    BY <1>2, <1>4, PendingSafe
<1>5. QED
    BY <1>3, <1>4 DEF RebuildFinish

\* Keeping both items: the record of a staged deletion with a second name.
LEMMA Keeping ==
    ASSUME TrashInv, run.pc \in KeepPcs
    PROVE  /\ disk.journal = R /\ R # NoFile /\ R \in Record /\ Valid(R)
           /\ R.slot \in Slots /\ R.op = "delete" /\ R.stage = "DeleteDataStaged"
           /\ R.stage \in Stages[R.op]
           /\ R.rslot \in Slots /\ R.rslot \in Places /\ R.rslot # Stage /\ R.rslot # R.slot
           /\ R.intent = "PreserveConflicting" /\ R.rbody \in {"ours", "other"}
           /\ run.pc # "idle" /\ ~At("idle")
           /\ run.pc \in {"keepinfo", "keepnew", "keepnewfill", "keepbind", "keepmove"} =>
                 ~Exists(Stage) \/ Vacant(disk, R.rslot)
           /\ run.pc = "keepnewfill" => Made(disk, run, R.rslot)
           /\ run.pc \in {"keepbind", "keepmove"} => Complete(disk, R.rslot)
<1>1. /\ disk.journal = R /\ R # NoFile /\ R \in Record /\ Valid(R)
      /\ R.slot \in Slots /\ R.stage \in Stages[R.op]
      /\ R.intent = "PreserveConflicting" /\ R.rbody \in {"ours", "other"}
      /\ run.pc # "idle" /\ ~At("idle")
    BY Resolving
<1>2. /\ R.op = "delete" /\ R.stage = "DeleteDataStaged" /\ R.rslot # 0 /\ R.rslot # R.slot
    BY <1>1 DEF Valid
<1>3. R.rslot \in Slots
    BY <1>1, <1>2 DEF Record
<1>4. /\ run.pc \in {"keepinfo", "keepnew", "keepnewfill", "keepbind", "keepmove"} =>
            ~Exists(Stage) \/ Vacant(disk, R.rslot)
      /\ run.pc = "keepnewfill" => Made(disk, run, R.rslot)
      /\ run.pc \in {"keepbind", "keepmove"} => Complete(disk, R.rslot)
    BY Here DEF Goes, OnFiles, R, Exists
<1>5. QED
    BY <1>1, <1>2, <1>3, <1>4, PlaceFacts

\* The record with the identity of a metadata file it has found or made.
LEMMA KeepingPersist ==
    ASSUME TrashInv, run.pc \in KeepPcs, NEW rec \in Record,
           NEW next \in {"keepcheck", "keepmove", "pending"},
           /\ rec.op = R.op /\ rec.slot = R.slot /\ rec.tree = R.tree
           /\ rec.intent = R.intent /\ rec.rbody = R.rbody /\ rec.stage = R.stage
           /\ rec.rtree = R.rtree /\ rec.rbytes = R.rbytes /\ rec.ptree = R.ptree
           /\ rec.rslot = R.rslot,
           next = "keepmove" => run.pc = "keepbind",
           Persist(rec, next)
    PROVE  Good
<1>1. /\ R # NoFile /\ R \in Record /\ Valid(R) /\ R.stage \in Stages[R.op]
      /\ R.rslot \in Places /\ R.intent = "PreserveConflicting" /\ run.pc # "idle"
      /\ next = "keepmove" =>
            (~Exists(Stage) \/ Vacant(disk, R.rslot)) /\ Complete(disk, R.rslot)
    BY Keeping
<1>2. Valid(rec) /\ next \in Pcs
    BY <1>1, ValidKeeps DEF Pcs
<1>3. ASSUME NEW d, NEW r, d.journal = rec, d.tree = disk.tree, d.info = disk.info,
             r.pc = next, r.cur = rec, r.op = run.op
      PROVE  Goes(d, r)
  <2>1. rec # NoFile
      BY NothingIsAFile
  <2>2. CASE next = "pending"
    <3>1. OnCall(d, r)
        BY <1>1, <1>3, <2>2, CallGoes
    <3>2. QED
        BY <1>3, <2>1, <2>2, <3>1 DEF Goes, OnRecord, OnFiles
  <2>3. CASE next # "pending"
      BY <1>1, <1>3, <2>1, <2>3, ResolvingGoes DEF Vacant, Complete, Exists
  <2>4. QED
      BY <2>2, <2>3
<1>4. QED
    BY <1>1, <1>2, <1>3, ResolvingPersist

\* The steps of keeping both items that rely on nothing.
LEMMA KeepingGoes ==
    ASSUME TrashInv, run.pc \in KeepPcs, NEW d, d.journal = disk.journal,
           NEW r, r.cur = run.cur, r.op = run.op,
           r.pc \in {"keep", "keepcreate", "keepfill", "keepsave", "keepcheck",
                     "keepwithdraw", "keepverify"}
    PROVE  Goes(d, r)
BY Keeping, ResolvingGoes DEF R

LEMMA KeepPrimaryInfoSafe == TrashInv /\ KeepPrimaryInfo => Good
<1> SUFFICES ASSUME TrashInv, KeepPrimaryInfo PROVE Good
    OBVIOUS
<1>1. /\ run.pc \in {"keep", "keepcreate", "keepfill", "keepsave"}
      /\ {"keepcreate", "keepfill", "keepsave", "keepcheck"} \subseteq Pcs
    BY DEF KeepPrimaryInfo, CreateInfo, FillInfo, At, Pcs
<1>2. /\ R \in Record /\ R.slot \in Slots /\ R.rbody \in {"ours", "other"} /\ ~At("idle")
    BY <1>1, Keeping
<1>3. \A pc \in {"keepcreate", "keepsave", "keepcheck"} :
        Go(pc) \in Runs /\ \A d : d.journal = disk.journal => Goes(d, Go(pc))
    BY <1>1, Here, GoRuns, KeepingGoes
<1>4. Pending \in Runs /\ Goes(disk, Pending)
    BY <1>2, Here, PendingGoes
<1>5. CASE Decide(Go("keepcheck")) \/ Decide(Go("keepcreate")) \/ Decide(Pending)
    BY <1>3, <1>4, <1>5, DecideSafe
<1>6. CASE /\ InfoExists(R.slot)
           /\ Decide([run EXCEPT !.pc = "keepsave", !.made = disk.info[R.slot].ino])
  <2> DEFINE r == [run EXCEPT !.pc = "keepsave", !.made = disk.info[R.slot].ino]
  <2>1. disk.info[R.slot].ino \in Nat
      BY <1>2, <1>6, Here DEF InfoExists, Disk, Info
  <2>2. r \in Runs /\ r.pc = "keepsave" /\ r.cur = run.cur /\ r.op = run.op
      BY <1>1, <2>1, Here DEF Runs
  <2>3. Decide(r)
      BY <1>6
  <2> HIDE DEF r
  <2>4. QED
      BY <1>1, <2>2, <2>3, KeepingGoes, DecideSafe
<1>7. CASE At("keep")
  <2>1. \/ Decide(Go("keepcheck")) \/ Decide(Go("keepcreate")) \/ Decide(Pending)
        \/ /\ InfoExists(R.slot)
           /\ Decide([run EXCEPT !.pc = "keepsave", !.made = disk.info[R.slot].ino])
    <3>1. CASE ~PrimaryTreeMatches(R)
        BY <1>7, <3>1 DEF KeepPrimaryInfo, CreateInfo, FillInfo, At
    <3>2. CASE PrimaryTreeMatches(R) /\ R.pino # 0
        BY <1>7, <3>2 DEF KeepPrimaryInfo, CreateInfo, FillInfo, At
    <3>3. CASE PrimaryTreeMatches(R) /\ R.pino = 0
        BY <1>7, <3>3 DEF KeepPrimaryInfo, CreateInfo, FillInfo, At
    <3>4. QED
        BY <3>1, <3>2, <3>3
  <2>2. QED
      BY <1>5, <1>6, <2>1
<1>8. CASE CreateInfo("keepcreate", R.slot, Pending, "keepfill")
  <2>1. \A d, r : /\ d.journal = disk.journal /\ r.pc = "keepfill" /\ r.cur = run.cur
                  /\ r.op = run.op
                  => Goes(d, r)
      BY <1>1, KeepingGoes
  <2>2. QED
      BY <1>1, <1>2, <1>4, <1>8, <2>1, CreateSafe
<1>9. CASE FillInfo("keepfill", R.slot, R.rbody, Go("keepsave"))
    BY <1>2, <1>3, <1>9, FillSafe
<1>10. CASE Persist([R EXCEPT !.ino = run.made, !.body = R.rbody, !.pino = run.made],
                    "keepcheck")
  <2> DEFINE rec == [R EXCEPT !.ino = run.made, !.body = R.rbody, !.pino = run.made]
  <2>1. run.made \in Nat
      BY Here DEF Runs
  <2>2. rec \in Record
      BY <1>2, <2>1 DEF Record
  <2>3. /\ rec.op = R.op /\ rec.slot = R.slot /\ rec.tree = R.tree
        /\ rec.intent = R.intent /\ rec.rbody = R.rbody /\ rec.stage = R.stage
        /\ rec.rtree = R.rtree /\ rec.rbytes = R.rbytes /\ rec.ptree = R.ptree
        /\ rec.rslot = R.rslot
      BY <1>2 DEF Record
  <2>4. Persist(rec, "keepcheck")
      BY <1>10
  <2> HIDE DEF rec
  <2>5. QED
      BY <1>1, <2>2, <2>3, <2>4, KeepingPersist
<1>11. QED
    BY <1>7, <1>8, <1>9, <1>10 DEF KeepPrimaryInfo

\* The second name gets its metadata before the item, and only while nothing
\* else has that name.
LEMMA KeepRecoveredInfoSafe == TrashInv /\ KeepRecoveredInfo => Good
<1> SUFFICES ASSUME TrashInv, KeepRecoveredInfo PROVE Good
    OBVIOUS
<1>1. /\ run.pc \in {"keepcheck", "keepinfo", "keepnew", "keepnewfill", "keepbind"}
      /\ {"keepinfo", "keepnew", "keepnewfill", "keepbind"} \subseteq Pcs
  <2>1. run.pc \in {"keepcheck", "keepinfo", "keepnew", "keepnewfill", "keepbind"}
      BY DEF KeepRecoveredInfo, AdoptOrCreate, CreateInfo, FillInfo, At
  <2>2. {"keepinfo", "keepnew", "keepnewfill", "keepbind"} \subseteq Pcs
      BY DEF Pcs
  <2>3. QED
      BY <2>1, <2>2
<1>2. /\ disk.journal = R /\ R # NoFile /\ R \in Record
      /\ R.rslot \in Slots /\ R.rslot \in Places
      /\ R.intent = "PreserveConflicting" /\ R.rbody \in {"ours", "other"}
      /\ run.pc # "idle" /\ ~At("idle")
      /\ run.pc # "keepcheck" => ~Exists(Stage) \/ Vacant(disk, R.rslot)
      /\ run.pc = "keepnewfill" => Made(disk, run, R.rslot)
    BY <1>1, Keeping
<1>3. \A pc \in {"keepinfo", "keepnew", "keepbind"} :
        /\ Go(pc) \in Runs /\ Go(pc).pc = pc /\ Go(pc).cur = run.cur /\ Go(pc).op = run.op
    BY <1>1, Here, GoRuns
<1>4. ASSUME ~Exists(Stage) \/ Vacant(disk, R.rslot),
             NEW d, NEW r, d.journal = disk.journal, d.tree = disk.tree,
             r.cur = run.cur, r.op = run.op,
             \/ r.pc \in {"keepinfo", "keepnew"}
             \/ r.pc = "keepnewfill" /\ Made(d, r, R.rslot)
             \/ r.pc = "keepbind" /\ Complete(d, R.rslot)
      PROVE  Goes(d, r)
    BY <1>2, <1>4, ResolvingGoes DEF Vacant, Exists, R
<1>5. CASE At("keepcheck")
  <2>1. CASE ~(Exists(Stage) /\ Exists(R.rslot)) /\ Decide(Go("keepinfo"))
    <3>1. ~Exists(Stage) \/ Vacant(disk, R.rslot)
        BY <2>1 DEF Vacant, Exists
    <3>2. Goes(disk, Go("keepinfo"))
        BY <1>3, <1>4, <3>1
    <3>3. QED
        BY <1>3, <2>1, <3>2, DecideSafe
  <2>2. CASE Decide(Pending)
      BY <1>2, <2>2, PendingSafe
  <2>3. QED
      BY <1>5, <2>1, <2>2 DEF KeepRecoveredInfo, AdoptOrCreate, CreateInfo, FillInfo, At
<1>6. CASE AdoptOrCreate("keepinfo", R.rslot, "keepnew", "keepbind")
  <2>1. run.pc = "keepinfo"
      BY <1>6 DEF AdoptOrCreate, At
  <2>2. Goes(disk, Go("keepnew"))
      BY <1>2, <1>3, <1>4, <2>1
  <2>3. InfoExists(R.rslot) /\ Adoptable(R, R.rslot) => Complete(disk, R.rslot)
      BY <1>2 DEF InfoExists, Adoptable, Complete
  <2>4. InfoExists(R.rslot) /\ Adoptable(R, R.rslot) =>
           \A r : r.pc = "keepbind" /\ r.cur = run.cur /\ r.op = run.op => Goes(disk, r)
      BY <1>2, <1>4, <2>1, <2>3
  <2>5. QED
      BY <1>1, <1>2, <1>6, <2>2, <2>4, AdoptSafe
<1>7. CASE CreateInfo("keepnew", R.rslot, Pending, "keepnewfill")
  <2>1. run.pc = "keepnew"
      BY <1>7 DEF CreateInfo, At
  <2>2. Pending \in Runs /\ Goes(disk, Pending)
      BY <1>2, Here, PendingGoes
  <2>3. \A d, r : /\ d.journal = disk.journal /\ d.tree = disk.tree
                  /\ d.info[R.rslot] # NoFile /\ d.info[R.rslot].ino = r.made
                  /\ r.pc = "keepnewfill" /\ r.cur = run.cur /\ r.op = run.op
                  => Goes(d, r)
      BY <1>2, <1>4, <2>1 DEF Made
  <2>4. QED
      BY <1>1, <1>2, <1>7, <2>2, <2>3, CreateSafe
<1>8. CASE FillInfo("keepnewfill", R.rslot, R.rbody, Go("keepbind"))
  <2>1. run.pc = "keepnewfill"
      BY <1>8 DEF FillInfo, At
  <2>2. \A d : /\ d.journal = disk.journal /\ d.tree = disk.tree
               /\ Made(disk, run, R.rslot) => Complete(d, R.rslot)
               => Goes(d, Go("keepbind"))
      BY <1>2, <1>3, <1>4, <2>1
  <2>3. QED
      BY <1>2, <1>3, <1>8, <2>2, FillSafe
<1>9. CASE At("keepbind") /\ Persist([R EXCEPT !.rino = run.made], "keepmove")
  <2> DEFINE rec == [R EXCEPT !.rino = run.made]
  <2>1. run.made \in Nat
      BY Here DEF Runs
  <2>2. rec \in Record
      BY <1>2, <2>1 DEF Record
  <2>3. /\ rec.op = R.op /\ rec.slot = R.slot /\ rec.tree = R.tree
        /\ rec.intent = R.intent /\ rec.rbody = R.rbody /\ rec.stage = R.stage
        /\ rec.rtree = R.rtree /\ rec.rbytes = R.rbytes /\ rec.ptree = R.ptree
        /\ rec.rslot = R.rslot
      BY <1>2 DEF Record
  <2>4. Persist(rec, "keepmove") /\ run.pc = "keepbind"
      BY <1>9 DEF At
  <2> HIDE DEF rec
  <2>5. QED
      BY <1>1, <2>2, <2>3, <2>4, KeepingPersist
<1>10. QED
    BY <1>5, <1>6, <1>7, <1>8, <1>9 DEF KeepRecoveredInfo

LEMMA KeepMoveSafe == TrashInv /\ KeepMove => Good
<1> SUFFICES ASSUME TrashInv, KeepMove PROVE Good
    OBVIOUS
<1>1. run.pc \in {"keepmove", "keepwithdraw", "keepverify"}
    BY DEF KeepMove, At
<1>2. /\ disk.journal = R /\ R # NoFile /\ R \in Record
      /\ R.rslot \in Slots /\ R.rslot \in Places /\ R.rslot # Stage /\ R.rslot # R.slot
      /\ run.pc # "idle" /\ ~At("idle")
      /\ run.pc = "keepmove" =>
            (~Exists(Stage) \/ Vacant(disk, R.rslot)) /\ Complete(disk, R.rslot)
    BY <1>1, Keeping
<1>3. \A pc \in {"keepverify", "keepwithdraw", "drop"} :
        /\ Go(pc) \in Runs /\ Go(pc).pc = pc /\ Go(pc).cur = run.cur /\ Go(pc).op = run.op
    BY Here, GoRuns DEF Pcs
<1>4. \A pc \in {"keepverify", "keepwithdraw"} :
        \A d : d.journal = disk.journal => Goes(d, Go(pc))
    BY <1>1, <1>3, KeepingGoes
<1>5. CASE At("keepmove") /\ ~Exists(Stage)
    BY <1>3, <1>4, <1>5, DecideSafe DEF KeepMove, At, CanMove
<1>6. CASE At("keepmove") /\ CanMove(Stage, R.rslot)
  <2>1. Commit(Move(disk, Stage, R.rslot), Go("keepverify"))
      BY <1>6 DEF KeepMove, At, CanMove
  <2>2. Complete(disk, R.rslot)
      BY <1>2, <1>6 DEF At
  <2>3. QED
      BY <1>2, <1>3, <1>4, <1>6, <2>1, <2>2, PlaceFacts, MoveSafe
<1>7. CASE At("keepmove") /\ Exists(Stage) /\ ~CanMove(Stage, R.rslot)
  <2>1. \/ Commit([disk EXCEPT !.info[R.rslot] = NoFile], Go("keepwithdraw"))
        \/ Decide(Pending)
      BY <1>7 DEF KeepMove, At
  <2>2. Vacant(disk, R.rslot)
      BY <1>2, <1>7 DEF At
  <2>3. QED
      BY <1>2, <1>3, <1>4, <2>1, <2>2, PendingSafe, RemoveInfoSafe
<1>8. CASE At("keepwithdraw") /\ Persist([R EXCEPT !.rino = 0], "pending")
  <2> DEFINE rec == [R EXCEPT !.rino = 0]
  <2>1. rec \in Record
      BY <1>2 DEF Record
  <2>2. /\ rec.op = R.op /\ rec.slot = R.slot /\ rec.tree = R.tree
        /\ rec.intent = R.intent /\ rec.rbody = R.rbody /\ rec.stage = R.stage
        /\ rec.rtree = R.rtree /\ rec.rbytes = R.rbytes /\ rec.ptree = R.ptree
        /\ rec.rslot = R.rslot
      BY <1>2 DEF Record
  <2>3. Persist(rec, "pending")
      BY <1>8
  <2> HIDE DEF rec
  <2>4. QED
      BY <1>1, <2>1, <2>2, <2>3, KeepingPersist
<1>9. CASE /\ At("keepverify")
           /\ (~Exists(Stage) /\ Decide(Go("drop"))) \/ Decide(Pending)
  <2>1. ~Exists(Stage) => Goes(disk, Go("drop"))
      BY <1>2, <1>3, DropGoes DEF R, Exists
  <2>2. QED
      BY <1>2, <1>3, <1>9, <2>1, PendingSafe, DecideSafe
<1>10. CASE At("keepverify")
  <2>1. (~Exists(Stage) /\ Decide(Go("drop"))) \/ Decide(Pending)
      BY <1>10 DEF KeepMove, At
  <2>2. QED
      BY <1>9, <1>10, <2>1
<1>11. CASE At("keepwithdraw")
    BY <1>8, <1>11 DEF KeepMove, At
<1>12. QED
    BY <1>1, <1>5, <1>6, <1>7, <1>10, <1>11 DEF At

-----------------------------------------------------------------------------
(* The review that the window accepts *)

\* What each action of a review takes for granted of what was found.
LEMMA ReviewFacts ==
    ASSUME NEW v
    PROVE  LET staged == v.rec.op = "delete" /\ v.rec.stage = "DeleteDataStaged"
               action == ReviewAction(v)
           IN /\ action \in {"ReturnRemainingItem", "ReturnAndRebuild", "RebuildMetadata",
                             "PreserveConflicting", "RemoveOrphanMetadata",
                             "RequiresManualRepair", "KeepExistingItems"}
              /\ action = "ReturnRemainingItem" =>
                    staged /\ v.del # NoFile /\ v.info # NoFile
              /\ action = "ReturnAndRebuild" => staged /\ v.del # NoFile /\ v.info = NoFile
              /\ action = "RebuildMetadata" =>
                    v.data # NoFile /\ v.del = NoFile /\ v.info = NoFile
              /\ action = "PreserveConflicting" => staged /\ v.del # NoFile /\ v.data # NoFile
              /\ action = "RemoveOrphanMetadata" => v.data = NoFile /\ v.del = NoFile
              /\ action = "KeepExistingItems" => v.del = NoFile
BY DEF ReviewAction

\* The review is still true of the disk, whose record it is about.
LEMMA Reviewed ==
    ASSUME TrashInv, run.pc = "validate",
           disk.journal = review.rec, Snapshot(review.rec) = review
    PROVE  LET rec == review.rec
           IN /\ review \in Reviews /\ rec \in Record /\ rec # NoFile
              /\ rec.slot \in Slots /\ rec.slot \in Places /\ rec.stage \in Stages[rec.op]
              /\ rec.op = "delete" => rec.tree.obj \in ghost.condemned
              /\ review.data = disk.tree[rec.slot] /\ review.info = disk.info[rec.slot]
              /\ review.del = NoFile <=> ~Exists(Stage)
              /\ Exists(Stage) => /\ rec.op = "delete" /\ Complete(disk, rec.slot)
                                  /\ rec.stage \in {"DeletePrepared", "DeleteDataStaged"}
              /\ disk.tree[rec.slot] # NoFile => Complete(disk, rec.slot)
<1> DEFINE rec == review.rec
<1>1. review \in Reviews
    BY Here DEF TrashInv, Typed, Goes, OnCall
<1>2. rec \in Record /\ rec # NoFile
    BY <1>1, NothingIsAFile DEF Reviews
<1>3. rec.slot \in Slots /\ rec.slot \in Places
    BY <1>2, PlaceFacts DEF Record
<1>4. /\ rec.stage \in Stages[rec.op]
      /\ rec.op = "delete" => rec.tree.obj \in ghost.condemned
    BY <1>2, Here DEF Consistent, Journaled
<1>5. Exists(Stage) => /\ rec.op = "delete" /\ Complete(disk, rec.slot)
                       /\ rec.stage \in {"DeletePrepared", "DeleteDataStaged"}
    BY <1>2, Here DEF Consistent, Owned, Exists
<1>6. /\ review.data = disk.tree[rec.slot] /\ review.info = disk.info[rec.slot]
      /\ review.del = IF rec.op = "delete" THEN disk.tree[Stage] ELSE NoFile
    BY DEF Snapshot
<1>7. disk.tree[rec.slot] # NoFile => Complete(disk, rec.slot)
    BY <1>3, Here DEF Consistent, Listed
<1>8. QED
    BY <1>1, <1>2, <1>3, <1>4, <1>5, <1>6, <1>7 DEF Exists

\* The accepted record is written with its intent.
LEMMA AcceptSafe ==
    ASSUME TrashInv, run.pc = "validate", disk.journal = review.rec,
           Snapshot(review.rec) = review,
           NEW rec \in Record, NEW next,
           /\ rec.op = review.rec.op /\ rec.slot = review.rec.slot
           /\ rec.stage = review.rec.stage /\ rec.tree = review.rec.tree,
           \/ rec.intent = "ReturnDeleteStage" /\ next = "returned"
           \/ /\ rec.intent \in {"RebuildMetadata", "ReturnAndRebuild"} /\ next = "rebuild"
              /\ rec.slot \in ghost.touched /\ rec.rbody # "torn"
              /\ rec.intent = "RebuildMetadata" => ~Exists(Stage)
           \/ rec.intent = "PreserveConflicting" /\ next = "keep" /\ rec.rbody # "torn",
           Accept(rec, next)
    PROVE  Good
<1>1. CASE ~Valid(rec)
    BY <1>1, IdleSafe DEF Accept
<1>2. CASE Valid(rec)
  <2>1. Persist(rec, next) /\ next \in Pcs
      BY <1>2 DEF Accept, Pcs
  <2>2. /\ rec.op = "delete" => rec.tree.obj \in ghost.condemned
        /\ rec.stage \in Stages[rec.op]
        /\ Exists(Stage) => /\ rec.op = "delete" /\ rec.slot = disk.journal.slot
                            /\ rec.stage \in {"DeletePrepared", "DeleteDataStaged"}
      BY Reviewed
  <2>3. \A d, r : d.journal = rec /\ r.pc = next /\ r.cur = rec /\ r.op = run.op
                  => Goes(d, r)
      BY NothingIsAFile, ResolvingGoes
  <2>4. QED
      BY <1>2, <2>1, <2>2, <2>3, PersistSafe
<1>3. QED
    BY <1>1, <1>2

\* The record is dropped, after its orphaned metadata if there is any.
LEMMA ReviewDrops ==
    ASSUME TrashInv, run.pc = "validate", disk.journal = review.rec,
           Snapshot(review.rec) = review, ~Exists(Stage)
    PROVE  LET r == [run EXCEPT !.pc = "drop", !.cur = review.rec]
           IN r \in Runs /\ \A d : d.journal = disk.journal /\ d.tree = disk.tree => Goes(d, r)
<1> DEFINE r == [run EXCEPT !.pc = "drop", !.cur = review.rec]
<1>1. "drop" \in Pcs /\ review.rec \in Record /\ review.rec # NoFile
    BY Reviewed DEF Pcs
<1>2. r \in Runs /\ r.pc = "drop" /\ r.cur = review.rec /\ r.op = run.op
    BY <1>1, Here DEF Runs
<1> HIDE DEF r
<1>3. \A d : d.journal = disk.journal /\ d.tree = disk.tree => Goes(d, r)
    BY <1>1, <1>2, DropGoes DEF Exists
<1>4. QED
    BY <1>2, <1>3 DEF r

LEMMA ResolveReviewSafe == TrashInv /\ ResolveReview => Good
<1> SUFFICES ASSUME TrashInv, ResolveReview PROVE Good
    OBVIOUS
<1> DEFINE rec == review.rec
           action == ReviewAction(review)
<1>1. run.pc = "validate"
    BY DEF ResolveReview, At
<1>2. CASE disk.journal # rec \/ Snapshot(rec) # review
    BY <1>2, IdleSafe DEF ResolveReview
<1>3. CASE disk.journal = rec /\ Snapshot(rec) = review
  <2>1. /\ review \in Reviews /\ rec \in Record /\ rec # NoFile
        /\ rec.slot \in Slots /\ rec.slot \in Places
        /\ review.data = disk.tree[rec.slot] /\ review.info = disk.info[rec.slot]
        /\ review.del = NoFile <=> ~Exists(Stage)
        /\ Exists(Stage) => Complete(disk, rec.slot)
        /\ disk.tree[rec.slot] # NoFile => Complete(disk, rec.slot)
      BY <1>1, <1>3, Reviewed
  <2>2. /\ review.data \in Tree \cup {NoFile} /\ review.del \in Tree \cup {NoFile}
        /\ review.info \in Info \cup {NoFile} /\ rec.body \in {"ours", "other"}
      BY <2>1 DEF Reviews, Record
  <2>3. /\ action \in {"ReturnRemainingItem", "ReturnAndRebuild", "RebuildMetadata",
                       "PreserveConflicting", "RemoveOrphanMetadata",
                       "RequiresManualRepair", "KeepExistingItems"}
        /\ action = "ReturnRemainingItem" => review.info # NoFile
        /\ action = "ReturnAndRebuild" => review.del # NoFile /\ review.info = NoFile
        /\ action = "RebuildMetadata" =>
              review.data # NoFile /\ review.del = NoFile /\ review.info = NoFile
        /\ action = "RemoveOrphanMetadata" => review.data = NoFile /\ review.del = NoFile
        /\ action = "KeepExistingItems" => review.del = NoFile
      BY ReviewFacts
  <2>4. CASE action = "ReturnRemainingItem"
    <3> DEFINE new == [rec EXCEPT !.intent = "ReturnDeleteStage", !.rtree = review.del,
                                  !.rino = review.info.ino, !.rbody = review.info.body]
    <3>1. Accept(new, "returned")
        BY <1>1, <1>3, <2>4 DEF ResolveReview
    <3>2. review.info.ino \in Nat /\ review.info.body \in {"ours", "other", "torn"}
        BY <2>2, <2>3, <2>4 DEF Info
    <3>3. new \in Record
        BY <2>1, <2>2, <3>2 DEF Record, Intents
    <3>4. /\ new.op = rec.op /\ new.slot = rec.slot /\ new.stage = rec.stage
          /\ new.tree = rec.tree /\ new.intent = "ReturnDeleteStage"
        BY <2>1 DEF Record
    <3> HIDE DEF new
    <3>5. QED
        BY <1>1, <1>3, <3>1, <3>3, <3>4, AcceptSafe
  <2>5. CASE action \in {"ReturnAndRebuild", "RebuildMetadata"}
    <3> DEFINE tree == IF action = "RebuildMetadata" THEN review.data ELSE review.del
               new == Rebuilding(rec, action, tree)
    <3>1. Accept(new, "rebuild")
        BY <1>1, <1>3, <2>5 DEF ResolveReview
    <3>2. tree \in Tree \cup {NoFile} /\ action \in Intents
        BY <2>2, <2>5 DEF Intents
    <3> HIDE DEF tree, action
    <3>3. new \in Record
        BY <2>1, <3>2 DEF Record, Rebuilding
    <3>4. /\ new.op = rec.op /\ new.slot = rec.slot /\ new.stage = rec.stage
          /\ new.tree = rec.tree /\ new.intent = action /\ new.rbody = "ours"
        BY <2>1 DEF Record, Rebuilding
    <3> HIDE DEF new
    <3>5. Complete(disk, rec.slot) /\ disk.info[rec.slot] = NoFile
        BY <2>1, <2>3, <2>5
    <3>6. rec.slot \in ghost.touched
        BY <3>5 DEF Complete
    <3>7. action = "RebuildMetadata" => ~Exists(Stage)
        BY <2>1, <2>3
    <3>8. QED
        BY <1>1, <1>3, <2>5, <3>1, <3>3, <3>4, <3>6, <3>7, AcceptSafe
  <2>6. CASE action = "PreserveConflicting" /\ FreeSlots # {}
    <3> DEFINE s == Least(FreeSlots)
               new == KeepingBoth(review, s)
               rbody == IF review.info # NoFile THEN rec.body ELSE "ours"
               pino == IF review.info # NoFile THEN review.info.ino ELSE 0
    <3>1. Accept(new, "keep")
        BY <1>1, <1>3, <2>6 DEF ResolveReview
    <3>2. s \in Slots
      <4>1. FreeSlots \in SUBSET Slots
          BY DEF FreeSlots
      <4>2. s \in FreeSlots
          BY <2>6, <4>1, LeastIn
      <4>3. QED
          BY <4>1, <4>2
    <3>3. pino \in Nat /\ rbody \in {"ours", "other"}
        BY <2>2 DEF Info
    <3> HIDE DEF s
    <3>4. new = [rec EXCEPT !.intent = "PreserveConflicting", !.rtree = review.del,
                            !.rino = 0, !.rbody = rbody, !.rbytes = TRUE,
                            !.ptree = review.data, !.rslot = s, !.pino = pino]
        BY DEF KeepingBoth
    <3> HIDE DEF new, rbody, pino
    <3>5. new \in Record
        BY <2>1, <2>2, <3>2, <3>3, <3>4 DEF Record, Intents
    <3>6. /\ new.op = rec.op /\ new.slot = rec.slot /\ new.stage = rec.stage
          /\ new.tree = rec.tree /\ new.intent = "PreserveConflicting" /\ new.rbody = rbody
        BY <2>1, <3>4 DEF Record
    <3>7. QED
        BY <1>1, <1>3, <3>1, <3>3, <3>5, <3>6, AcceptSafe
  <2>7. CASE action = "RemoveOrphanMetadata"
    <3> DEFINE r == [run EXCEPT !.pc = "drop", !.cur = rec]
    <3>1. Commit([disk EXCEPT !.info[rec.slot] = NoFile], r)
        BY <1>1, <1>3, <2>7 DEF ResolveReview
    <3>2. ~Exists(Stage) /\ Vacant(disk, rec.slot)
        BY <2>1, <2>3, <2>7 DEF Vacant
    <3>3. r \in Runs /\ \A d : d.journal = disk.journal /\ d.tree = disk.tree => Goes(d, r)
        BY <1>1, <1>3, <3>2, ReviewDrops
    <3> HIDE DEF r
    <3>4. QED
        BY <2>1, <3>1, <3>2, <3>3, RemoveInfoSafe
  <2>8. CASE action = "KeepExistingItems"
    <3> DEFINE r == [run EXCEPT !.pc = "drop", !.cur = rec]
    <3>1. Decide(r)
        BY <1>1, <1>3, <2>8 DEF ResolveReview
    <3>2. ~Exists(Stage)
        BY <2>1, <2>3, <2>8
    <3>3. r \in Runs /\ Goes(disk, r)
        BY <1>1, <1>3, <3>2, ReviewDrops
    <3> HIDE DEF r
    <3>4. QED
        BY <3>1, <3>3, DecideSafe
  <2>9. CASE \/ action = "PreserveConflicting" /\ FreeSlots = {}
             \/ action = "RequiresManualRepair"
    <3>1. Decide(Idle)
        BY <1>1, <1>3, <2>9 DEF ResolveReview
    <3>2. QED
        BY <3>1, IdleSafe
  <2>10. QED
      BY <2>3, <2>4, <2>5, <2>6, <2>7, <2>8, <2>9
<1>4. QED
    BY <1>2, <1>3

-----------------------------------------------------------------------------
(* The inductive invariant holds *)

LEMMA InitInv == Init => TrashInv
<1> SUFFICES ASSUME Init PROVE TrashInv
    OBVIOUS
<1> DEFINE t == [obj |-> 1, ver |-> 1, at |-> 1]
           i == [ino |-> 1, body |-> "other"]
<1>1. t \in Tree /\ i \in Info /\ i.body # "torn" /\ i # NoFile
    BY NothingIsAFile DEF Tree, Info
<1> HIDE DEF t, i
<1>2. PICK start \in {Source, 1} :
        disk = [ tree |-> [p \in Places |-> IF p = start THEN t ELSE NoFile],
                 info |-> [s \in Slots |-> IF s = start THEN i ELSE NoFile],
                 home |-> 1, journal |-> NoFile, undo |-> [n \in Ids |-> NoFile] ]
    BY DEF Init, t, i
<1>3. /\ stable = disk /\ run = Idle /\ seen = NoFile /\ review = NoFile
      /\ budget = [calls |-> 0, outside |-> 0, faults |-> 0, fresh |-> 2]
      /\ ghost = [removed |-> {}, condemned |-> {}, touched |-> {}]
    BY DEF Init
<1>4. disk \in Disk
    BY <1>1, <1>2 DEF Disk
<1>5. Typed
    BY <1>3, <1>4, IdleGoes DEF Typed, Budgets, Ghosts
<1>6. Consistent(disk)
  <2>1. Journaled(disk)
      BY <1>2 DEF Journaled
  <2>2. 1 \in Slots
      BY TrashAssumption DEF Slots
  <2>3. start # Stage
      BY <2>2, PlaceFacts
  <2>4. Owned(disk)
      BY <1>2, <2>3, PlaceFacts DEF Owned
  <2>5. Listed(disk)
      BY <1>1, <1>2, PlaceFacts DEF Listed, Complete
  <2>6. QED
      BY <2>1, <2>4, <2>5 DEF Consistent
<1>7. QED
    BY <1>3, <1>5, <1>6, IdleGoes DEF TrashInv

LEMMA StutterSafe == TrashInv /\ UNCHANGED vars => Good
<1> SUFFICES ASSUME TrashInv, UNCHANGED vars PROVE Good
    OBVIOUS
<1>1. Typed' /\ NoneLost
    BY DEF Typed, TrashInv, NoneLost, Holds, vars
<1>2. Consistent(disk)' /\ Consistent(stable)'
    BY DEF TrashInv, Consistent, Journaled, Owned, Listed, Complete, vars
<1>3. Goes(disk, run)'
    BY Here DEF Goes, OnRecord, OnCall, OnFiles, Made, Complete, Vacant, vars
<1>4. QED
    BY <1>1, <1>2, <1>3 DEF Good, TrashInv

LEMMA StepSafe == TrashInv /\ Step => Good
<1> SUFFICES ASSUME TrashInv, Step PROVE Good
    OBVIOUS
<1>1. CASE RecoverLocked \/ StaysPending
    BY <1>1, RecoverLockedSafe, StaysPendingSafe
<1>2. CASE \/ TrashPrepare \/ CancelPrepared \/ TrashInfo \/ TrashFill \/ TrashPublish
           \/ TrashRecheck \/ TrashMove \/ TrashMoved \/ Unpublish \/ Drop
           \/ FinishUndoable
    BY <1>2, TrashPrepareSafe, CancelPreparedSafe, TrashInfoSafe, TrashFillSafe,
       TrashPublishSafe, TrashRecheckSafe, TrashMoveSafe, TrashMovedSafe, UnpublishSafe,
       DropSafe, FinishUndoableSafe
<1>3. CASE \/ RestorePrepare \/ RestoreRecheck \/ RestoreMove \/ RestoreMoved
           \/ FinishRestoreInfo
    BY <1>3, RestorePrepareSafe, RestoreRecheckSafe, RestoreMoveSafe, RestoreMovedSafe,
       FinishRestoreInfoSafe
<1>4. CASE \/ DeletePrepare \/ DeleteRecheck \/ DeleteStage \/ DeleteStaged \/ DeleteErase
           \/ DeleteRemove \/ DeleteErased \/ FinishDeleteInfo
    BY <1>4, DeletePrepareSafe, DeleteRecheckSafe, DeleteStageSafe, DeleteStagedSafe,
       DeleteEraseSafe, DeleteRemoveSafe, DeleteErasedSafe, FinishDeleteInfoSafe
<1>5. CASE \/ UndoLatest \/ UndoInfer \/ UndoCheck \/ UndoInfo \/ UndoFill \/ UndoPublish
           \/ UndoMove \/ UndoMoved \/ UndoFinish
    BY <1>5, UndoLatestSafe, UndoInferSafe, UndoCheckSafe, UndoInfoSafe, UndoFillSafe,
       UndoPublishSafe, UndoMoveSafe, UndoMovedSafe, UndoFinishSafe
<1>6. CASE List \/ Capture \/ ResolveReview
    BY <1>6, ListSafe, CaptureSafe, ResolveReviewSafe
<1>7. CASE \/ ReturnStage \/ RebuildMove \/ RebuildInfo \/ RebuildSave \/ RebuildFinish
           \/ KeepPrimaryInfo \/ KeepRecoveredInfo \/ KeepMove
    BY <1>7, ReturnStageSafe, RebuildMoveSafe, RebuildInfoSafe, RebuildSaveSafe,
       RebuildFinishSafe, KeepPrimaryInfoSafe, KeepRecoveredInfoSafe, KeepMoveSafe
<1>8. QED
    BY <1>1, <1>2, <1>3, <1>4, <1>5, <1>6, <1>7 DEF Step

LEMMA NextInv == TrashInv /\ [Next]_vars => Good
<1>1. TrashInv /\ Next => Good
    BY CallSafe, LookSafe, ResolveSafe, StepSafe, OthersSafe, StopSafe, PowerLossSafe
       DEF Next
<1>2. QED
    BY <1>1, StutterSafe

\* The invariant the other theorems rest on: what the record, the receipts and
\* the position of the call say of the files is so, on the disk that programs
\* see and, but for the position, on the one that survives a loss of power.
THEOREM TrashInvariant == TrashSpec => []TrashInv
<1>1. TrashInv /\ [Next]_vars => TrashInv'
    BY NextInv DEF Good
<1>2. QED
    BY InitInv, <1>1, PTL DEF TrashSpec

-----------------------------------------------------------------------------
(* What it means for the Trash *)

\* The types are as declared; in particular the record left on the disk always
\* passes validate_resolution_state, so a later start of recover_locked can
\* read it, whatever was accepted before and wherever the call stopped.
THEOREM TrashTypeCorrect == TrashSpec => []TrashTypeOK
<1>1. TrashInv => TrashTypeOK
  <2> SUFFICES ASSUME TrashInv PROVE TrashTypeOK
      OBVIOUS
  <2>1. ASSUME NEW d \in {disk, stable}
        PROVE  /\ d \in Disk
               /\ d.journal # NoFile => /\ d.journal \in Record /\ Valid(d.journal)
                                        /\ d.journal.stage \in Stages[d.journal.op]
      BY DEF TrashInv, Typed, Consistent, Journaled, Disk
  <2>2. \A d \in Disk :
          /\ DOMAIN d = {"tree", "info", "home", "journal", "undo"}
          /\ \A p \in Places : d.tree[p] = NoFile \/ d.tree[p] \in Tree
          /\ \A s \in Slots : d.info[s] = NoFile \/ d.info[s] \in Info
          /\ \A n \in Ids : d.undo[n] = NoFile \/ d.undo[n] \in Receipt
      BY DEF Disk
  <2>3. run.pc \in Pcs
      BY Here DEF Runs
  <2>4. QED
      BY <2>1, <2>2, <2>3 DEF TrashTypeOK
<1>2. QED
    BY <1>1, TrashInvariant, PTL

\* The hidden stage of delete_permanently is never left without the record
\* that brings its item back or finishes the deletion, on the disk or after a
\* loss of power.
THEOREM StageAlwaysOwned == TrashSpec => []StageIsOwned
<1>1. TrashInv => StageIsOwned
    BY DEF TrashInv, Consistent, Owned, StageIsOwned
<1>2. QED
    BY <1>1, TrashInvariant, PTL

\* An item under a name of the Trash that no other program touched has metadata
\* that can be read, so it is listed and can be put back: create_info_file
\* comes before every rename into the Trash, and remove_exact_info after every
\* rename out of it.
THEOREM ItemsAlwaysHaveInfo == TrashSpec => []ItemHasInfo
<1>1. TrashInv => ItemHasInfo
    BY DEF TrashInv, Consistent, Listed, Complete, ItemHasInfo
<1>2. QED
    BY <1>1, TrashInvariant, PTL

\* No item is lost: one that is on the disk and would survive a loss of power
\* stays so after every step, unless another program removed it or its
\* deletion was confirmed, whatever call stops where.
THEOREM NothingIsLost == TrashSpec => NothingLost
<1>1. TrashInv /\ [Next]_vars =>
        [\A o \in 1 .. budget.fresh :
            (Holds(disk, o) /\ Holds(stable, o)) =>
               \/ Holds(disk', o) /\ Holds(stable', o)
               \/ o \in ghost'.removed \cup ghost'.condemned]_vars
    BY NextInv DEF Good, NoneLost
<1>2. QED
    BY <1>1, TrashInvariant, PTL DEF TrashSpec, NothingLost
=============================================================================
