----------------------------- MODULE FinderTrash -----------------------------
(***************************************************************************)
(* The Files application's Trash: moving an item to the Trash, putting it  *)
(* back, deleting it for good, undoing the first two, recovering what a    *)
(* crash interrupted and resolving what recovery will not decide alone.    *)
(*                                                                         *)
(* Every call holds one exclusive kernel lock, so one call runs at a time; *)
(* but every other program may change the same files between two of its    *)
(* steps, and the call may stop at any step.  A call first recovers the    *)
(* transaction record it finds and goes on only when none is left, so      *)
(* there is never more than one record and never more than one hidden      *)
(* delete stage.  One original location is modelled: several items compete *)
(* for it, and for the names in the Trash.                                 *)
(*                                                                         *)
(* An item is its object (device, inode and mode), the version of its      *)
(* contents and its change time `at', which a rename moves.  A metadata    *)
(* file is its identity and its body.                                      *)
(***************************************************************************)
EXTENDS Integers, FiniteSets

CONSTANTS
    NSlots,         \* names in the Trash, tried in order
    Dirs,           \* the objects that are directories
    Retain,         \* RETAIN_READY_RECORDS
    NoFile,         \* an absent file, item, record or receipt
    MaxCalls,       \* trash, restore, delete and undo calls
    MaxOutside,     \* changes other programs make
    MaxFaults,      \* calls stopped by an I/O error, a kill or a failed
                    \* sync, and losses of power
    MaxTroubles     \* changes of other programs and faults together

ASSUME TrashAssumption ==
    /\ NSlots \in Nat \ {0} /\ Retain \in Nat \ {0}
    /\ Dirs \subseteq Nat
    /\ {MaxCalls, MaxOutside, MaxFaults, MaxTroubles} \subseteq Nat

Source == 0                       \* the original location
Slots == 1 .. NSlots              \* files/<name> and info/<name>.trashinfo
Stage == NSlots + 1               \* files/.rmac-delete-<id>
Places == {Source, Stage} \cup Slots

VARIABLES
    disk,           \* what every program sees
    stable,         \* what survives a power loss
    run,            \* the call in progress
    seen,           \* the listed item the window holds
    review,         \* the recovery review the window holds
    budget,         \* how many calls, changes, faults and losses happened
    ghost           \* history: items other programs removed, items whose
                    \* deletion was confirmed, slots others touched

vars == <<disk, stable, run, seen, review, budget, ghost>>
held == <<seen, review>>

Tree == [obj : Nat, ver : Nat, at : Nat]
Info == [ino : Nat, body : {"ours", "other", "torn"}]
Operations == {"trash", "restore", "delete"}
Stages ==
    [ trash |-> {"Prepared", "InfoPublished", "DataMoved"},
      restore |-> {"RestorePrepared", "RestoreDataMoved", "RestoreInfoRemoved"},
      delete |-> {"DeletePrepared", "DeleteDataStaged", "DeleteDataRemoved",
                  "DeleteInfoRemoved"} ]
Intents == {"none", "ReturnDeleteStage", "RebuildMetadata",
            "ReturnAndRebuild", "PreserveConflicting"}

\* TrashRecord.  An absent identity is 0; the path fields are the slot.
Record ==
    [ id : Nat, op : Operations, stage : UNION {Stages[o] : o \in Operations},
      slot : Slots, tree : Tree, ino : Nat, body : {"ours", "other"},
      parent : Nat, intent : Intents, rtree : Tree \cup {NoFile}, rino : Nat,
      rbody : {"ours", "other", "torn"}, rbytes : BOOLEAN,
      ptree : Tree \cup {NoFile}, pino : Nat, rslot : Slots \cup {0} ]

UndoStages == {"ForwardPending", "Ready", "TrashDataRestored",
               "RestoreInfoPublished", "RestoreDataMoved"}
\* UndoRecord of the two kinds that concern the Trash.
Receipt ==
    [ kind : {"trash", "restore"}, stage : UndoStages, slot : Slots,
      tree : Tree, body : {"ours", "other"}, ino : Nat ]

\* The absent file is none of the others.
ASSUME NothingIsAFile ==
    NoFile \notin Tree /\ NoFile \notin Info /\ NoFile \notin Record /\ NoFile \notin Receipt

Ids == 1 .. MaxCalls
Disk ==
    [ tree : [Places -> Tree \cup {NoFile}],
      info : [Slots -> Info \cup {NoFile}],
      home : Nat,                     \* identity of the original folder
      journal : Record \cup {NoFile},
      undo : [Ids -> Receipt \cup {NoFile}] ]

Idle == [pc |-> "idle", phase |-> "none", op |-> "none", cur |-> NoFile,
         rid |-> 0, made |-> 0]

\* One item, at its original location or put in the Trash by another program.
Init ==
    /\ \E start \in {Source, 1} :
         disk = [ tree |-> [p \in Places |-> IF p = start
                             THEN [obj |-> 1, ver |-> 1, at |-> 1] ELSE NoFile],
                  info |-> [s \in Slots |-> IF s = start
                             THEN [ino |-> 1, body |-> "other"] ELSE NoFile],
                  home |-> 1,
                  journal |-> NoFile,
                  undo |-> [i \in Ids |-> NoFile] ]
    /\ stable = disk
    /\ run = Idle
    /\ seen = NoFile
    /\ review = NoFile
    /\ budget = [calls |-> 0, outside |-> 0, faults |-> 0, fresh |-> 2]
    /\ ghost = [removed |-> {}, condemned |-> {}, touched |-> {}]

\* The bounds on what goes wrong: each for itself, and both together.
Troubles == budget.outside + budget.faults
CanInterfere == budget.outside < MaxOutside /\ Troubles < MaxTroubles
CanFail == budget.faults < MaxFaults /\ Troubles < MaxTroubles

-----------------------------------------------------------------------------
(***************************************************************************)
(* Files.                                                                  *)
(***************************************************************************)
Exists(p) == disk.tree[p] # NoFile
InfoExists(s) == disk.info[s] # NoFile

\* same_entry_after_rename with same_after_root_rename.
SameAfterRename(a, b) ==
    a # NoFile /\ b # NoFile /\ a.obj = b.obj /\ a.ver = b.ver

\* rename_noreplace of an item that exists to a place that is vacant.
Move(d, from, to) ==
    [d EXCEPT !.tree[to] = [d.tree[from] EXCEPT !.at = @ + 1],
              !.tree[from] = NoFile,
              !.home = IF Source \in {from, to} THEN @ + 1 ELSE @]

\* (mutant) a rename that replaces what it finds
BugCanMove(from, to) == Exists(from) /\ from # to

CanMove(from, to) == Exists(from) /\ ~Exists(to)

\* A change of the disk that is synced before the call goes on.  When the
\* sync fails, or the process dies before it, the call ends and the change
\* is on the disk but may not survive a power loss.
Commit(d, next) ==
    /\ disk' = d
    /\ \/ /\ stable' = d
          /\ run' = next
          /\ UNCHANGED budget
       \/ /\ CanFail
          /\ budget' = [budget EXCEPT !.faults = @ + 1]
          /\ run' = Idle
          /\ UNCHANGED stable
    /\ UNCHANGED <<held, ghost>>

\* A step that reads and decides.
Decide(next) ==
    /\ run' = next
    /\ UNCHANGED <<disk, stable, held, budget, ghost>>

At(pc) == run.pc = pc
Go(pc) == [run EXCEPT !.pc = pc]
R == run.cur
InRecovery == run.phase = "recover"

\* A record is finished: recovery looks again, an accepted review is
\* followed by recovery and a new review, any other call returns.
Finished ==
    IF InRecovery THEN [run EXCEPT !.pc = "recover", !.cur = NoFile]
    ELSE IF run.op = "resolve"
         THEN [Idle EXCEPT !.pc = "recover", !.phase = "recover", !.op = "review"]
         ELSE Idle

\* The record stays for review: the call fails, or it is the review.
Pending ==
    IF InRecovery /\ run.op = "review" THEN [run EXCEPT !.pc = "capture"] ELSE Idle

\* persist: the record replaces the one on disk, which is synced.
Persist(rec, next) ==
    Commit([disk EXCEPT !.journal = rec], [run EXCEPT !.cur = rec, !.pc = next])

-----------------------------------------------------------------------------
(***************************************************************************)
(* What the record says about the files.                                   *)
(***************************************************************************)
SourceMatches(rec) == disk.tree[Source] = rec.tree
DataMatchesAfterRename(rec) == SameAfterRename(disk.tree[rec.slot], rec.tree)
DataMatchesExact(rec) == disk.tree[rec.slot] = rec.tree
RestoredDataMatches(rec) == SameAfterRename(disk.tree[Source], rec.tree)
DeleteDataMatches(rec) == SameAfterRename(disk.tree[Stage], rec.tree)
DeleteDirectoryMatches(rec) ==
    Exists(Stage) /\ rec.tree.obj \in Dirs /\ disk.tree[Stage].obj = rec.tree.obj
\* (mutant) an unidentified metadata file counts whatever it holds
BugInfoMatches(rec) ==
    /\ InfoExists(rec.slot)
    /\ rec.ino # 0 => disk.info[rec.slot].ino = rec.ino

InfoMatches(rec) ==
    /\ InfoExists(rec.slot)
    /\ rec.ino # 0 => disk.info[rec.slot].ino = rec.ino
    /\ disk.info[rec.slot].body = rec.body

ResolutionTreeMatches(rec, p, published) ==
    IF published THEN SameAfterRename(disk.tree[p], rec.rtree)
                 ELSE Exists(p) /\ disk.tree[p] = rec.rtree
PrimaryTreeMatches(rec) == Exists(rec.slot) /\ disk.tree[rec.slot] = rec.ptree
ResolutionInfoMatches(rec, s) ==
    /\ rec.rino # 0 /\ InfoExists(s)
    /\ disk.info[s] = [ino |-> rec.rino, body |-> rec.rbody]

\* validate_resolution_state.
HasConflictState(rec) == rec.ptree # NoFile \/ rec.pino # 0 \/ rec.rslot # 0
Valid(rec) ==
    LET staged == rec.op = "delete" /\ rec.stage = "DeleteDataStaged"
    IN CASE rec.intent = "none" -> rec.rtree = NoFile /\ ~HasConflictState(rec)
         [] rec.intent = "ReturnDeleteStage" ->
              staged /\ rec.rtree # NoFile /\ rec.rino # 0 /\ ~rec.rbytes
                     /\ ~HasConflictState(rec)
         [] rec.intent = "RebuildMetadata" ->
              rec.rtree # NoFile /\ rec.rbytes /\ ~HasConflictState(rec)
         [] rec.intent = "ReturnAndRebuild" ->
              staged /\ rec.rtree # NoFile /\ rec.rbytes /\ ~HasConflictState(rec)
         [] rec.intent = "PreserveConflicting" ->
              staged /\ rec.rtree # NoFile /\ rec.ptree # NoFile /\ rec.rbytes
                     /\ rec.rslot # 0 /\ rec.rslot # rec.slot

NewRecord(op, stage, slot, tree, ino, body) ==
    [ id |-> budget.calls, op |-> op, stage |-> stage, slot |-> slot,
      tree |-> tree, ino |-> ino, body |-> body, parent |-> disk.home,
      intent |-> "none", rtree |-> NoFile, rino |-> 0, rbody |-> "ours",
      rbytes |-> FALSE, ptree |-> NoFile, pino |-> 0, rslot |-> 0 ]

FreeSlots == {s \in Slots : ~Exists(s) /\ ~InfoExists(s)}
Least(S) == CHOOSE s \in S : \A t \in S : s <= t

-----------------------------------------------------------------------------
(***************************************************************************)
(* A call begins: lock, then recover_locked.                               *)
(***************************************************************************)
Begin(op) ==
    /\ At("idle")
    /\ run' = [Idle EXCEPT !.pc = "recover", !.phase = "recover", !.op = op]
    /\ UNCHANGED <<disk, stable, held>>

\* trash, restore, delete_permanently and execute_latest_undo.
Call(op) ==
    /\ budget.calls < MaxCalls
    /\ op \in {"restore", "delete"} => seen # NoFile
    /\ Begin(op)
    /\ budget' = [budget EXCEPT !.calls = @ + 1]
    /\ ghost' = IF op = "delete"
                THEN [ghost EXCEPT !.condemned = @ \cup {seen.tree.obj}] ELSE ghost

\* list and recover_and_review.
Look(op) == Begin(op) /\ UNCHANGED <<budget, ghost>>

\* The record found decides how recovery goes on; "pending" leaves it.
RecoverTrash(rec) ==
    LET data == Exists(rec.slot)
        info == InfoExists(rec.slot)
        resume == SourceMatches(rec) /\ ~data /\ InfoMatches(rec)
    IN CASE rec.stage = "Prepared" /\ SourceMatches(rec) /\ ~data /\ ~info -> "drop"
         [] rec.stage = "Prepared" /\ resume -> "adopt"
         [] rec.stage = "InfoPublished" /\ resume -> "move"
         [] rec.stage \in {"InfoPublished", "DataMoved"} /\ ~Exists(Source)
              /\ DataMatchesAfterRename(rec) /\ InfoMatches(rec) -> "archive"
         [] OTHER -> "pending"

RecoverRestore(rec) ==
    LET data == Exists(rec.slot)
        info == InfoExists(rec.slot)
        restored == ~data /\ RestoredDataMatches(rec)
    IN CASE rec.stage = "RestorePrepared" /\ DataMatchesExact(rec) /\ ~Exists(Source)
              /\ InfoMatches(rec) /\ rec.parent = disk.home -> "putback"
         [] rec.stage = "RestorePrepared" /\ restored /\ InfoMatches(rec) -> "restored"
         [] rec.stage = "RestoreDataMoved" /\ restored
              /\ (~info \/ InfoMatches(rec)) -> "restoreinfo"
         [] rec.stage = "RestoreInfoRemoved" /\ restored /\ ~info -> "archive"
         [] OTHER -> "pending"

RecoverDelete(rec) ==
    LET data == Exists(rec.slot)
        stage == Exists(Stage)
        info == InfoExists(rec.slot)
    IN CASE rec.stage = "DeletePrepared" /\ DataMatchesExact(rec) /\ ~stage
              /\ InfoMatches(rec) -> "stage"
         [] rec.stage = "DeletePrepared" /\ ~data /\ DeleteDataMatches(rec)
              /\ InfoMatches(rec) -> "staged"
         [] rec.stage = "DeleteDataStaged" /\ ~data /\ InfoMatches(rec)
              /\ (~stage \/ DeleteDataMatches(rec) \/ DeleteDirectoryMatches(rec)) ->
                "erasepartial"
         [] rec.stage = "DeleteDataRemoved" /\ ~data /\ ~stage
              /\ (~info \/ InfoMatches(rec)) -> "forget"
         [] rec.stage = "DeleteInfoRemoved" /\ ~data /\ ~stage /\ ~info -> "forgetdrop"
         [] OTHER -> "pending"

RecoverReturned(rec) ==
    IF ~ResolutionInfoMatches(rec, rec.slot) THEN "pending"
    ELSE CASE Exists(Stage) /\ ~Exists(rec.slot)
                /\ ResolutionTreeMatches(rec, Stage, FALSE) -> "return"
           [] ~Exists(Stage) /\ ResolutionTreeMatches(rec, rec.slot, TRUE) -> "drop"
           [] OTHER -> "pending"

Recovery(rec) ==
    CASE rec.intent \in {"RebuildMetadata", "ReturnAndRebuild"} -> "rebuild"
      [] rec.intent = "PreserveConflicting" -> "keep"
      [] rec.intent = "ReturnDeleteStage" -> RecoverReturned(rec)
      [] rec.intent = "none" /\ rec.op = "trash" -> RecoverTrash(rec)
      [] rec.intent = "none" /\ rec.op = "restore" -> RecoverRestore(rec)
      [] rec.intent = "none" /\ rec.op = "delete" -> RecoverDelete(rec)

RecoverLocked ==
    /\ At("recover")
    /\ IF disk.journal = NoFile
       THEN Decide([run EXCEPT !.phase = "main", !.pc = "go", !.cur = NoFile])
       ELSE Decide([run EXCEPT !.cur = disk.journal, !.pc = Recovery(disk.journal)])

StaysPending == At("pending") /\ Decide(Pending)

-----------------------------------------------------------------------------
(***************************************************************************)
(* Move to Trash.                                                          *)
(***************************************************************************)
\* The first name that is free after the one that collided.
TrashPrepare ==
    /\ At("go") /\ run.op = "trash"
    /\ LET free == {s \in FreeSlots : run.cur # NoFile => s > run.cur.slot}
       IN IF ~Exists(Source) \/ free = {} THEN Decide(Idle)
          ELSE Persist(NewRecord("trash", "Prepared", Least(free),
                                 disk.tree[Source], 0, "ours"), "info")

\* Cancelled before anything but the record exists.
CancelPrepared ==
    /\ At("info") \/ At("restorecheck") \/ At("deletecheck")
    /\ Decide(Go("drop"))

\* create_info_file: exclusive creation, then the bytes and both syncs.
CreateInfo(from, s, onCollision, next) ==
    /\ At(from)
    /\ IF InfoExists(s) THEN Decide(onCollision)
       ELSE /\ disk' = [disk EXCEPT !.info[s] = [ino |-> budget.fresh, body |-> "torn"]]
            /\ budget' = [budget EXCEPT !.fresh = @ + 1]
            /\ run' = [run EXCEPT !.pc = next, !.made = budget.fresh]
            /\ UNCHANGED <<stable, held, ghost>>

\* The bytes reach the created file through its descriptor, so nothing is
\* written to a file that replaced it; its identity is captured.
FillInfo(from, s, body, next) ==
    /\ At(from)
    /\ Commit(IF InfoExists(s) /\ disk.info[s].ino = run.made
              THEN [disk EXCEPT !.info[s].body = body] ELSE disk, next)

TrashInfo == CreateInfo("info", R.slot, Go("dropagain"), "fill")
TrashFill == FillInfo("fill", R.slot, "ours", Go("publish"))

\* stage InfoPublished, in trash_in_layout and when recovery adopts the file.
TrashPublish ==
    \/ /\ At("publish")
       /\ Persist([R EXCEPT !.stage = "InfoPublished", !.ino = run.made], "recheck")
    \/ /\ At("adopt")
       /\ IF InfoExists(R.slot)
          THEN Persist([R EXCEPT !.stage = "InfoPublished",
                                 !.ino = disk.info[R.slot].ino], "move")
          ELSE Decide(Idle)

\* Cancelled, or the source changed and the record stays.
TrashRecheck ==
    /\ At("recheck")
    /\ \/ Decide(Go("unpublish"))
       \/ Decide(IF SourceMatches(R) THEN Go("move") ELSE Idle)

\* Only trash_in_layout tries another name; a directory that refuses the
\* rename rolls the transaction back.
TrashMove ==
    /\ At("move")
    /\ \/ /\ CanMove(Source, R.slot)
          /\ Commit(Move(disk, Source, R.slot), Go("moved"))
       \/ /\ Exists(Source) /\ Exists(R.slot)
          /\ Decide(IF InRecovery THEN Idle ELSE Go("unpublishagain"))
       \/ ~Exists(Source) /\ Decide(Idle)
       \/ /\ CanFail
          /\ budget' = [budget EXCEPT !.faults = @ + 1]
          /\ run' = IF SourceMatches(R) /\ ~Exists(R.slot) /\ InfoMatches(R)
                    THEN Go("unpublish") ELSE Pending
          /\ UNCHANGED <<disk, stable, held, ghost>>

TrashMoved ==
    /\ At("moved")
    /\ IF DataMatchesAfterRename(R)
       THEN Persist([R EXCEPT !.stage = "DataMoved"], "archive")
       ELSE Decide(Pending)

\* remove_exact_info before finish_record.
Unpublish ==
    /\ At("unpublish") \/ At("unpublishagain")
    /\ IF InfoMatches(R)
       THEN Commit([disk EXCEPT !.info[R.slot] = NoFile],
                   Go(IF At("unpublish") THEN "drop" ELSE "dropagain"))
       ELSE Decide(Idle)

\* finish_record.
Drop ==
    \/ At("drop") /\ Commit([disk EXCEPT !.journal = NoFile], Finished)
    \/ At("dropagain") /\ Commit([disk EXCEPT !.journal = NoFile], Go("go"))

-----------------------------------------------------------------------------
(***************************************************************************)
(* Undo receipts.                                                          *)
(***************************************************************************)
\* prune_ready: the oldest receipts over the limit go, if they are ready.
Prune(undo) ==
    LET live == {i \in Ids : undo[i] # NoFile}
        older(i) == Cardinality({j \in live : j < i})
    IN [i \in Ids |->
          IF /\ i \in live /\ undo[i].stage = "Ready"
             /\ older(i) < Cardinality(live) - Retain
          THEN NoFile ELSE undo[i]]

\* discard_trash_item: the receipts of one Trash name.
Discard(undo, s) ==
    [i \in Ids |-> IF undo[i] # NoFile /\ undo[i].slot = s THEN NoFile ELSE undo[i]]

\* archive_undo_receipt: the receipt is written while the record still
\* exists, from metadata that still carries the recorded identity.
Archive(next) ==
    LET seed == [ kind |-> R.op, stage |-> "ForwardPending", slot |-> R.slot,
                  tree |-> R.tree, body |-> R.body,
                  ino |-> IF R.op = "trash" THEN R.ino ELSE 0 ]
        old == disk.undo[R.id]
    IN CASE InfoMatches(R) /\ old = NoFile ->
              Commit([disk EXCEPT !.undo = Prune([@ EXCEPT ![R.id] = seed])], next)
         [] InfoMatches(R) /\ old # NoFile ->
              IF [old EXCEPT !.stage = seed.stage] = seed
              THEN Commit([disk EXCEPT !.undo = Prune(@)], next) ELSE Decide(Idle)
         [] ~InfoExists(R.slot) /\ R.op = "restore" /\ old # NoFile -> Decide(next)
         [] OTHER -> Decide(Idle)

\* finish_undoable_record: archive, finish_record, activate.
FinishUndoable ==
    \/ At("archive") /\ Archive(Go("finish"))
    \/ At("finish") /\ Commit([disk EXCEPT !.journal = NoFile], Go("activate"))
    \/ /\ At("activate")
       /\ IF disk.undo[R.id] = NoFile THEN Decide(Idle)
          ELSE Commit([disk EXCEPT !.undo = Prune([@ EXCEPT ![R.id].stage = "Ready"])],
                      Finished)

-----------------------------------------------------------------------------
(***************************************************************************)
(* Put back.                                                               *)
(***************************************************************************)
RestoreBound(rec) ==
    /\ ~Exists(Source) /\ rec.parent = disk.home
    /\ DataMatchesExact(rec) /\ InfoMatches(rec)

RestorePrepare ==
    /\ At("go") /\ run.op = "restore"
    /\ LET rec == NewRecord("restore", "RestorePrepared", seen.slot, seen.tree,
                            seen.ino, seen.body)
       IN IF RestoreBound(rec) THEN Persist(rec, "restorecheck") ELSE Decide(Idle)

RestoreRecheck ==
    At("restorecheck") /\ Decide(IF RestoreBound(R) THEN Go("putback") ELSE Idle)

RestoreMove ==
    /\ At("putback")
    /\ IF CanMove(R.slot, Source)
       THEN Commit(Move(disk, R.slot, Source), Go("putbackcheck")) ELSE Decide(Idle)

RestoreMoved ==
    /\ At("putbackcheck") \/ At("restored")
    /\ IF At("restored") \/ RestoredDataMatches(R)
       THEN Persist([R EXCEPT !.stage = "RestoreDataMoved"], "restoreinfo")
       ELSE Decide(Pending)

\* finish_restore_info: the receipt first, then the metadata goes.
FinishRestoreInfo ==
    \/ /\ At("restoreinfo")
       /\ IF InfoExists(R.slot)
          THEN IF InfoMatches(R) THEN Archive(Go("restoreunlink")) ELSE Decide(Pending)
          ELSE Decide(IF disk.undo[R.id] # NoFile THEN Go("restoreend") ELSE Pending)
    \/ /\ At("restoreunlink")
       /\ IF InfoExists(R.slot)
          THEN Commit([disk EXCEPT !.info[R.slot] = NoFile], Go("restoreend"))
          ELSE Decide(Idle)
    \/ /\ At("restoreend")
       /\ Persist([R EXCEPT !.stage = "RestoreInfoRemoved"], "archive")

-----------------------------------------------------------------------------
(***************************************************************************)
(* Delete permanently.                                                     *)
(***************************************************************************)
DeleteBound(rec) == DataMatchesExact(rec) /\ InfoMatches(rec) /\ ~Exists(Stage)

DeletePrepare ==
    /\ At("go") /\ run.op = "delete"
    /\ LET rec == NewRecord("delete", "DeletePrepared", seen.slot, seen.tree,
                            seen.ino, seen.body)
       IN IF DeleteBound(rec) THEN Persist(rec, "deletecheck") ELSE Decide(Idle)

DeleteRecheck ==
    At("deletecheck") /\ Decide(IF DeleteBound(R) THEN Go("stage") ELSE Idle)

DeleteStage ==
    /\ At("stage")
    /\ IF CanMove(R.slot, Stage)
       THEN Commit(Move(disk, R.slot, Stage), Go("stagecheck")) ELSE Decide(Idle)

DeleteStaged ==
    /\ At("stagecheck") \/ At("staged")
    /\ IF At("staged") \/ DeleteDataMatches(R)
       THEN Persist([R EXCEPT !.stage = "DeleteDataStaged"], "erase")
       ELSE Decide(Pending)

\* resume_delete_staged: only a directory found staged by recovery may
\* already be incomplete.
DeleteErase ==
    /\ At("erase") \/ At("erasepartial")
    /\ Decide(CASE ~Exists(Stage) -> Go("erased")
                [] DeleteDataMatches(R) -> Go("remove")
                [] At("erasepartial") /\ DeleteDirectoryMatches(R) -> Go("remove")
                [] OTHER -> Pending)

\* remove_staged_delete_data: remove_dir_all may stop half way.
DeleteRemove ==
    /\ At("remove")
    /\ \/ /\ DeleteDirectoryMatches(R) \/ DeleteDataMatches(R)
          /\ Commit([disk EXCEPT !.tree[Stage] = NoFile], Go("erased"))
       \/ /\ DeleteDirectoryMatches(R) /\ CanFail
          /\ disk' = [disk EXCEPT !.tree[Stage].ver = 0]
          /\ budget' = [budget EXCEPT !.faults = @ + 1]
          /\ run' = Idle
          /\ UNCHANGED <<stable, held, ghost>>
       \/ /\ ~DeleteDirectoryMatches(R) /\ ~DeleteDataMatches(R)
          /\ Decide(Idle)

DeleteErased ==
    /\ At("erased")
    /\ IF Exists(Stage) \/ Exists(R.slot) THEN Decide(Pending)
       ELSE Persist([R EXCEPT !.stage = "DeleteDataRemoved"], "forget")

\* finish_delete_info: the receipts of the name, the metadata, the record.
FinishDeleteInfo ==
    \/ /\ At("forget") \/ At("forgetdrop")
       /\ Commit([disk EXCEPT !.undo = Discard(@, R.slot)],
                 Go(IF At("forget") THEN "deleteinfo" ELSE "drop"))
    \/ /\ At("deleteinfo")
       /\ CASE ~InfoExists(R.slot) -> Decide(Go("deleteend"))
            [] InfoMatches(R) ->
                 Commit([disk EXCEPT !.info[R.slot] = NoFile], Go("deleteend"))
            [] OTHER -> Decide(Pending)
    \/ At("deleteend") /\ Persist([R EXCEPT !.stage = "DeleteInfoRemoved"], "drop")

-----------------------------------------------------------------------------
(***************************************************************************)
(* Undo of a move to the Trash and of a put-back.                          *)
(***************************************************************************)
U == disk.undo[run.rid]
SaveReceipt(u, next) == Commit([disk EXCEPT !.undo[run.rid] = u], next)

\* promote_detached_forward_receipts.
Promote(d) ==
    Prune([i \in Ids |->
             IF d.undo[i] # NoFile /\ d.undo[i].stage = "ForwardPending"
                /\ ~(d.journal # NoFile /\ d.journal.id = i)
             THEN [d.undo[i] EXCEPT !.stage = "Ready"] ELSE d.undo[i]])

\* latest_record: an undo already begun before a ready one, then the newest.
Latest(undo) ==
    LET live == {i \in Ids : undo[i] # NoFile /\ undo[i].stage # "ForwardPending"}
        begun == {i \in live : undo[i].stage # "Ready"}
        from == IF begun # {} THEN begun ELSE live
    IN IF from = {} THEN 0 ELSE CHOOSE i \in from : \A j \in from : j <= i

UndoLatest ==
    /\ At("go") /\ run.op = "undo"
    /\ LET undo == Promote(disk)
           latest == Latest(undo)
       IN Commit([disk EXCEPT !.undo = undo],
                 IF latest = 0 THEN Idle
                 ELSE [run EXCEPT !.pc = "infer", !.rid = latest])

InSource(u) == SameAfterRename(disk.tree[Source], u.tree)
InTrash(u) == SameAfterRename(disk.tree[u.slot], u.tree)
UndoInfoMatches(u, identity) ==
    /\ InfoExists(u.slot) /\ disk.info[u.slot].body = u.body
    /\ identity => u.ino # 0 /\ disk.info[u.slot].ino = u.ino

\* resume_trash_inferred: how far an interrupted undo came.
UndoInferTrash ==
    LET back == InSource(U) /\ ~Exists(U.slot)
    IN CASE U.stage = "Ready" /\ back ->
              SaveReceipt([U EXCEPT !.stage = "TrashDataRestored"], run)
         [] U.stage = "TrashDataRestored" ->
              Decide(IF back THEN Go("undounlink") ELSE Idle)
         [] OTHER -> Decide(Go("undocheck"))

UndoInferRestore ==
    LET gone == ~Exists(Source) /\ InTrash(U)
        here == InSource(U) /\ ~Exists(U.slot)
        found(stage) == [U EXCEPT !.ino = disk.info[U.slot].ino, !.stage = stage]
    IN CASE U.stage = "Ready" /\ gone /\ UndoInfoMatches(U, FALSE) ->
              SaveReceipt(found("RestoreDataMoved"), run)
         [] U.stage = "Ready" /\ here /\ UndoInfoMatches(U, FALSE) ->
              SaveReceipt(found("RestoreInfoPublished"), run)
         [] U.stage = "RestoreInfoPublished" /\ gone /\ UndoInfoMatches(U, TRUE) ->
              SaveReceipt([U EXCEPT !.stage = "RestoreDataMoved"], run)
         [] U.stage = "RestoreDataMoved" ->
              Decide(IF gone /\ UndoInfoMatches(U, TRUE) THEN Go("undofinish") ELSE Idle)
         [] OTHER -> Decide(Go("undocheck"))

UndoInfer ==
    At("infer") /\ IF U.kind = "trash" THEN UndoInferTrash ELSE UndoInferRestore

\* Cancelled, refused because something changed, or bound.
UndoCheck ==
    /\ At("undocheck")
    /\ \/ Decide(Idle)
       \/ Decide(CASE U.kind = "trash" /\ ~Exists(Source) /\ InTrash(U)
                        /\ UndoInfoMatches(U, TRUE) -> Go("undomove")
                   [] U.kind = "restore" /\ U.stage = "Ready" /\ InSource(U)
                        /\ ~Exists(U.slot) /\ ~InfoExists(U.slot) -> Go("undoinfo")
                   [] U.kind = "restore" /\ U.stage = "RestoreInfoPublished"
                        /\ InSource(U) /\ ~Exists(U.slot)
                        /\ UndoInfoMatches(U, TRUE) -> Go("undomove")
                   [] OTHER -> Idle)

UndoInfo == CreateInfo("undoinfo", U.slot, Idle, "undofill")
UndoFill == FillInfo("undofill", U.slot, U.body, Go("undopublish"))
UndoPublish ==
    At("undopublish")
    /\ SaveReceipt([U EXCEPT !.stage = "RestoreInfoPublished", !.ino = run.made],
                   Go("undocheck"))

UndoMove ==
    /\ At("undomove")
    /\ LET from == IF U.kind = "trash" THEN U.slot ELSE Source
           to == IF U.kind = "trash" THEN Source ELSE U.slot
       IN IF CanMove(from, to) THEN Commit(Move(disk, from, to), Go("undomoved"))
          ELSE Decide(Idle)

UndoMoved ==
    /\ At("undomoved")
    /\ CASE U.kind = "trash" /\ InSource(U) ->
              SaveReceipt([U EXCEPT !.stage = "TrashDataRestored"], Go("undounlink"))
         [] U.kind = "restore" /\ InTrash(U) ->
              SaveReceipt([U EXCEPT !.stage = "RestoreDataMoved"], Go("undofinish"))
         [] OTHER -> Decide(Idle)

\* remove_trash_info, then finish.
UndoFinish ==
    \/ /\ At("undounlink")
       /\ CASE ~InfoExists(U.slot) -> Decide(Go("undofinish"))
            [] UndoInfoMatches(U, TRUE) ->
                 Commit([disk EXCEPT !.info[U.slot] = NoFile], Go("undofinish"))
            [] OTHER -> Decide(Idle)
    \/ At("undofinish") /\ SaveReceipt(NoFile, Idle)

-----------------------------------------------------------------------------
(***************************************************************************)
(* Listing, reviewing, resolving.                                          *)
(***************************************************************************)
\* list_in_layout: any torn metadata fails the whole listing; metadata
\* without an item is skipped.  The window holds one of the items.
List ==
    /\ At("go") /\ run.op = "list"
    /\ run' = Idle
    /\ seen' \in IF \E s \in Slots : InfoExists(s) /\ disk.info[s].body = "torn"
                 THEN {NoFile}
                 ELSE {NoFile} \cup
                      { [slot |-> s, tree |-> disk.tree[s],
                         ino |-> disk.info[s].ino, body |-> disk.info[s].body] :
                        s \in {t \in Slots : Exists(t) /\ InfoExists(t)} }
    /\ UNCHANGED <<disk, stable, review, budget, ghost>>

Snapshot(rec) ==
    [ rec |-> rec, src |-> disk.tree[Source], data |-> disk.tree[rec.slot],
      del |-> IF rec.op = "delete" THEN disk.tree[Stage] ELSE NoFile,
      info |-> disk.info[rec.slot] ]

\* (mutant) a visible item stands for the staged one
BugReviewAction(v) ==
    CASE v.data = NoFile /\ v.del # NoFile /\ v.info # NoFile -> "ReturnRemainingItem"
      [] v.data = NoFile /\ v.info = NoFile /\ v.del # NoFile -> "ReturnAndRebuild"
      [] v.data # NoFile /\ v.info = NoFile /\ v.del = NoFile -> "RebuildMetadata"
      [] v.data = NoFile /\ v.info # NoFile /\ v.del = NoFile -> "RemoveOrphanMetadata"
      [] OTHER -> "KeepExistingItems"

\* review_pending_locked: the only action offered for what was found.
ReviewAction(v) ==
    LET staged == v.rec.op = "delete" /\ v.rec.stage = "DeleteDataStaged"
        data == v.data # NoFile
        del == v.del # NoFile
        info == v.info # NoFile
        bound == info => v.info = [ino |-> v.rec.ino, body |-> v.rec.body]
    IN CASE staged /\ ~data /\ del /\ info -> "ReturnRemainingItem"
         [] staged /\ ~data /\ del /\ ~info -> "ReturnAndRebuild"
         [] data /\ ~del /\ ~info -> "RebuildMetadata"
         [] staged /\ data /\ del /\ bound -> "PreserveConflicting"
         [] ~data /\ ~del /\ info -> "RemoveOrphanMetadata"
         [] OTHER -> IF del \/ (data /\ ~info) THEN "RequiresManualRepair"
                     ELSE "KeepExistingItems"

\* A review without a record is empty; recovery left the record otherwise.
Capture ==
    /\ At("capture") \/ (At("go") /\ run.op = "review")
    /\ run' = Idle
    /\ review' = IF disk.journal = NoFile THEN NoFile ELSE Snapshot(disk.journal)
    /\ UNCHANGED <<disk, stable, seen, budget, ghost>>

Resolve ==
    /\ At("idle") /\ review # NoFile
    /\ Decide([Idle EXCEPT !.pc = "validate", !.phase = "main", !.op = "resolve"])

\* (mutant) validation is left to the next start
BugAccept(rec, next) == Persist(rec, next)

\* A record that does not validate is an error before anything is written.
Accept(rec, next) == IF Valid(rec) THEN Persist(rec, next) ELSE Decide(Idle)

\* (mutant) the bytes to rebuild are not recorded
BugRebuilding(rec, intent, tree) ==
    [rec EXCEPT !.intent = intent, !.rtree = tree, !.rino = 0, !.rbody = "ours"]

\* begin_metadata_rebuild.
Rebuilding(rec, intent, tree) ==
    [rec EXCEPT !.intent = intent, !.rtree = tree, !.rino = 0, !.rbody = "ours",
                !.rbytes = TRUE]

\* begin_conflicting_items_recovery.
KeepingBoth(v, s) ==
    [v.rec EXCEPT !.intent = "PreserveConflicting", !.rtree = v.del, !.rino = 0,
                  !.rbody = IF v.info # NoFile THEN v.rec.body ELSE "ours",
                  !.rbytes = TRUE, !.ptree = v.data, !.rslot = s,
                  !.pino = IF v.info # NoFile THEN v.info.ino ELSE 0]

\* validate_review, then the action of the review.
ResolveReview ==
    /\ At("validate")
    /\ LET rec == review.rec
           action == ReviewAction(review)
       IN IF disk.journal # rec \/ Snapshot(rec) # review THEN Decide(Idle)
          ELSE CASE action = "ReturnRemainingItem" ->
                      Accept([rec EXCEPT !.intent = "ReturnDeleteStage",
                                         !.rtree = review.del, !.rino = review.info.ino,
                                         !.rbody = review.info.body], "returned")
                 [] action \in {"ReturnAndRebuild", "RebuildMetadata"} ->
                      Accept(Rebuilding(rec, action,
                                        IF action = "RebuildMetadata"
                                        THEN review.data ELSE review.del), "rebuild")
                 [] action = "PreserveConflicting" ->
                      IF FreeSlots = {} THEN Decide(Idle)
                      ELSE Accept(KeepingBoth(review, Least(FreeSlots)), "keep")
                 [] action = "RemoveOrphanMetadata" ->
                      Commit([disk EXCEPT !.info[rec.slot] = NoFile],
                             [run EXCEPT !.pc = "drop", !.cur = rec])
                 [] action = "KeepExistingItems" ->
                      Decide([run EXCEPT !.pc = "drop", !.cur = rec])
                 [] action = "RequiresManualRepair" -> Decide(Idle)

-----------------------------------------------------------------------------
(***************************************************************************)
(* Accepted resolutions, also resumed by recovery.                         *)
(***************************************************************************)
\* recover_returned_delete_stage.
ReturnStage ==
    \/ At("returned") /\ Decide(Go(RecoverReturned(R)))
    \/ /\ At("return")
       /\ IF CanMove(Stage, R.slot)
          THEN Commit(Move(disk, Stage, R.slot), Go("returncheck")) ELSE Decide(Idle)
    \/ /\ At("returncheck")
       /\ Decide(IF ResolutionTreeMatches(R, R.slot, TRUE) THEN Go("drop") ELSE Pending)

\* An existing metadata file is adopted when it has the accepted bytes.
Adoptable(rec, s) ==
    /\ disk.info[s].body = rec.rbody
    /\ rec.rino # 0 => disk.info[s].ino = rec.rino
AdoptOrCreate(from, s, create, next) ==
    /\ At(from)
    /\ CASE ~InfoExists(s) -> Decide(Go(create))
         [] InfoExists(s) /\ Adoptable(R, s) ->
              Decide([run EXCEPT !.pc = next, !.made = disk.info[s].ino])
         [] OTHER -> Decide(Pending)

\* recover_rebuilt_metadata.
RebuildMove ==
    \/ /\ At("rebuild")
       /\ IF R.intent = "RebuildMetadata"
          THEN Decide(IF ResolutionTreeMatches(R, R.slot, FALSE)
                      THEN Go("rebuildinfo") ELSE Pending)
          ELSE Decide(CASE CanMove(Stage, R.slot) /\ ResolutionTreeMatches(R, Stage, FALSE)
                             -> Go("rebuildmove")
                        [] ~Exists(Stage) /\ ResolutionTreeMatches(R, R.slot, TRUE)
                             -> Go("rebuildinfo")
                        [] OTHER -> Pending)
    \/ /\ At("rebuildmove")
       /\ IF CanMove(Stage, R.slot)
          THEN Commit(Move(disk, Stage, R.slot), Go("rebuild")) ELSE Decide(Idle)

RebuildInfo ==
    \/ AdoptOrCreate("rebuildinfo", R.slot, "rebuildcreate", "rebuildsave")
    \/ CreateInfo("rebuildcreate", R.slot, Idle, "rebuildfill")
    \/ FillInfo("rebuildfill", R.slot, R.rbody, Go("rebuildsave"))

RebuildSave ==
    /\ At("rebuildsave")
    /\ LET complete == R.op = "trash" /\ ~Exists(Source) /\ DataMatchesAfterRename(R)
           bind == R.op # "trash" \/ R.stage # "Prepared" \/ complete
       IN Persist([R EXCEPT !.rino = run.made,
                            !.ino = IF bind THEN run.made ELSE @,
                            !.body = IF bind THEN R.rbody ELSE @,
                            !.stage = IF complete THEN "DataMoved" ELSE @],
                  IF complete THEN "rebuiltall" ELSE "rebuilt")

RebuildFinish ==
    /\ At("rebuilt") \/ At("rebuiltall")
    /\ IF ResolutionInfoMatches(R, R.slot)
       THEN Commit([disk EXCEPT !.undo = Discard(@, R.slot)],
                   Go(IF At("rebuilt") THEN "drop" ELSE "archive"))
       ELSE Decide(Pending)

\* recover_conflicting_items: metadata of the visible item.
KeepPrimaryInfo ==
    \/ /\ At("keep")
       /\ Decide(
            IF ~PrimaryTreeMatches(R) THEN Pending
            ELSE CASE R.pino # 0 ->
                        IF disk.info[R.slot] = [ino |-> R.pino, body |-> R.body]
                        THEN Go("keepcheck") ELSE Pending
                   [] R.pino = 0 /\ ~InfoExists(R.slot) -> Go("keepcreate")
                   [] R.pino = 0 /\ InfoExists(R.slot) ->
                        IF disk.info[R.slot].body = R.rbody
                        THEN [run EXCEPT !.pc = "keepsave", !.made = disk.info[R.slot].ino]
                        ELSE Pending)
    \/ CreateInfo("keepcreate", R.slot, Pending, "keepfill")
    \/ FillInfo("keepfill", R.slot, R.rbody, Go("keepsave"))
    \/ /\ At("keepsave")
       /\ Persist([R EXCEPT !.ino = run.made, !.body = R.rbody, !.pino = run.made],
                  "keepcheck")

\* Metadata of the recovered item, before the item is published.
KeepRecoveredInfo ==
    \/ /\ At("keepcheck")
       /\ Decide(IF /\ PrimaryTreeMatches(R) /\ InfoMatches(R)
                    /\ ~(Exists(Stage) /\ Exists(R.rslot))
                    /\ Exists(Stage) => ResolutionTreeMatches(R, Stage, FALSE)
                 THEN Go("keepinfo") ELSE Pending)
    \/ AdoptOrCreate("keepinfo", R.rslot, "keepnew", "keepbind")
    \/ CreateInfo("keepnew", R.rslot, Pending, "keepnewfill")
    \/ FillInfo("keepnewfill", R.rslot, R.rbody, Go("keepbind"))
    \/ At("keepbind") /\ Persist([R EXCEPT !.rino = run.made], "keepmove")

\* A name taken meanwhile takes the new metadata back.
KeepMove ==
    \/ /\ At("keepmove")
       /\ CASE ~Exists(Stage) -> Decide(Go("keepverify"))
            [] CanMove(Stage, R.rslot) ->
                 Commit(Move(disk, Stage, R.rslot), Go("keepverify"))
            [] OTHER -> IF ResolutionInfoMatches(R, R.rslot)
                        THEN Commit([disk EXCEPT !.info[R.rslot] = NoFile],
                                    Go("keepwithdraw"))
                        ELSE Decide(Pending)
    \/ At("keepwithdraw") /\ Persist([R EXCEPT !.rino = 0], "pending")
    \/ /\ At("keepverify")
       /\ Decide(IF /\ PrimaryTreeMatches(R) /\ InfoMatches(R) /\ ~Exists(Stage)
                    /\ ResolutionTreeMatches(R, R.rslot, TRUE)
                    /\ ResolutionInfoMatches(R, R.rslot)
                 THEN Go("drop") ELSE Pending)

-----------------------------------------------------------------------------
(***************************************************************************)
(* Everything else that happens to the disk.                               *)
(***************************************************************************)
\* Another program's change; it is durable when nothing else is unsynced.
Outside(d, made, places, removed) ==
    /\ CanInterfere
    /\ disk' = d
    /\ stable' = IF stable = disk THEN d ELSE stable
    /\ budget' = [budget EXCEPT !.outside = @ + 1,
                                !.fresh = IF made THEN @ + 1 ELSE @]
    /\ ghost' = [ghost EXCEPT !.touched = @ \cup places, !.removed = @ \cup removed]
    /\ UNCHANGED <<run, held>>

\* Also through a descriptor opened before the item moved.
OtherEdits(p) ==
    Exists(p) /\ Outside([disk EXCEPT !.tree[p].ver = @ + 1], FALSE, {p}, {})
OtherCreates(p) ==
    /\ ~Exists(p)
    /\ Outside([disk EXCEPT !.tree[p] = [obj |-> budget.fresh, ver |-> 1, at |-> 1],
                            !.home = IF p = Source THEN @ + 1 ELSE @],
               TRUE, {p}, {})
OtherRemoves(p) ==
    /\ Exists(p)
    /\ Outside([disk EXCEPT !.tree[p] = NoFile,
                            !.home = IF p = Source THEN @ + 1 ELSE @],
               FALSE, {p}, {disk.tree[p].obj})
OtherWritesInfo(s) ==
    /\ ~InfoExists(s)
    /\ Outside([disk EXCEPT !.info[s] = [ino |-> budget.fresh, body |-> "other"]],
               TRUE, {s}, {})
OtherRemovesInfo(s) ==
    InfoExists(s) /\ Outside([disk EXCEPT !.info[s] = NoFile], FALSE, {s}, {})
OtherUsesFolder == Outside([disk EXCEPT !.home = @ + 1], FALSE, {}, {})

Others ==
    \/ \E p \in Places : OtherEdits(p)
    \/ \E p \in Places \ {Stage} : OtherCreates(p) \/ OtherRemoves(p)
    \/ \E s \in Slots : OtherWritesInfo(s) \/ OtherRemovesInfo(s)
    \/ OtherUsesFolder

\* A call stops between two steps: an I/O error, or the process is killed.
Stop ==
    /\ ~At("idle") /\ CanFail
    /\ budget' = [budget EXCEPT !.faults = @ + 1]
    /\ run' = Idle
    /\ UNCHANGED <<disk, stable, held, ghost>>

\* With everything synced, a loss of power is a stop at most.
PowerLoss ==
    /\ CanFail /\ disk # stable
    /\ budget' = [budget EXCEPT !.faults = @ + 1]
    /\ disk' \in {disk, stable}
    /\ stable' = disk'
    /\ run' = Idle /\ seen' = NoFile /\ review' = NoFile
    /\ UNCHANGED ghost

Step ==
    \/ RecoverLocked \/ StaysPending
    \/ TrashPrepare \/ CancelPrepared \/ TrashInfo \/ TrashFill \/ TrashPublish
    \/ TrashRecheck \/ TrashMove \/ TrashMoved \/ Unpublish \/ Drop
    \/ FinishUndoable
    \/ RestorePrepare \/ RestoreRecheck \/ RestoreMove \/ RestoreMoved
    \/ FinishRestoreInfo
    \/ DeletePrepare \/ DeleteRecheck \/ DeleteStage \/ DeleteStaged \/ DeleteErase
    \/ DeleteRemove \/ DeleteErased \/ FinishDeleteInfo
    \/ UndoLatest \/ UndoInfer \/ UndoCheck \/ UndoInfo \/ UndoFill \/ UndoPublish
    \/ UndoMove \/ UndoMoved \/ UndoFinish
    \/ List \/ Capture \/ ResolveReview
    \/ ReturnStage \/ RebuildMove \/ RebuildInfo \/ RebuildSave \/ RebuildFinish
    \/ KeepPrimaryInfo \/ KeepRecoveredInfo \/ KeepMove

Next ==
    \/ \E op \in Operations \cup {"undo"} : Call(op)
    \/ \E op \in {"list", "review"} : Look(op)
    \/ Resolve
    \/ Step
    \/ Others
    \/ Stop
    \/ PowerLoss

TrashSpec == Init /\ [][Next]_vars

\* A call goes on until it returns, and whoever uses Files looks at the
\* recovery sheet and accepts what it offers, again and again.
TrashFairness ==
    /\ WF_vars(Step)
    /\ SF_vars(Look("review"))
    /\ SF_vars(Resolve)
TrashLiveSpec == TrashSpec /\ TrashFairness

-----------------------------------------------------------------------------
(***************************************************************************)
(* Properties.                                                             *)
(***************************************************************************)
Pcs == {"idle", "recover", "pending", "go", "info", "fill", "publish", "adopt",
        "recheck", "move", "moved", "unpublish", "unpublishagain", "drop",
        "dropagain", "archive", "finish", "activate", "restorecheck", "putback",
        "putbackcheck", "restored", "restoreinfo", "restoreunlink", "restoreend",
        "deletecheck", "stage", "stagecheck", "staged", "erase", "erasepartial",
        "remove", "erased", "forget", "forgetdrop", "deleteinfo", "deleteend",
        "infer", "undocheck", "undoinfo", "undofill", "undopublish", "undomove",
        "undomoved", "undounlink", "undofinish", "capture", "validate",
        "returned", "return", "returncheck", "rebuild", "rebuildmove",
        "rebuildinfo", "rebuildcreate", "rebuildfill", "rebuildsave", "rebuilt",
        "rebuiltall", "keep", "keepcreate", "keepfill", "keepsave", "keepcheck",
        "keepinfo", "keepnew", "keepnewfill", "keepbind", "keepmove",
        "keepwithdraw", "keepverify"}

\* The state is well formed; in particular the record on disk always
\* validates, so a later start can read it.
TrashTypeOK ==
    /\ \A d \in {disk, stable} :
         /\ DOMAIN d = {"tree", "info", "home", "journal", "undo"}
         /\ \A p \in Places : d.tree[p] = NoFile \/ d.tree[p] \in Tree
         /\ \A s \in Slots : d.info[s] = NoFile \/ d.info[s] \in Info
         /\ d.journal # NoFile => d.journal \in Record /\ Valid(d.journal)
                                  /\ d.journal.stage \in Stages[d.journal.op]
         /\ \A i \in Ids : d.undo[i] = NoFile \/ d.undo[i] \in Receipt
    /\ run.pc \in Pcs

Holds(d, o) == \E p \in Places : d.tree[p] # NoFile /\ d.tree[p].obj = o

\* No item is lost: an object that is on the disk and would survive a power
\* loss stays so until another program removes it or its deletion was
\* confirmed, whatever call stops where and whatever others change.
NothingLost ==
    [][\A o \in 1 .. budget.fresh :
         (Holds(disk, o) /\ Holds(stable, o)) =>
            \/ Holds(disk', o) /\ Holds(stable', o)
            \/ o \in ghost'.removed \cup ghost'.condemned]_vars

\* The hidden stage of a permanent deletion, which no window shows, is
\* never left without the record that brings it back or finishes it.
StageIsOwned ==
    \A d \in {disk, stable} :
        d.tree[Stage] # NoFile =>
            /\ d.journal # NoFile /\ d.journal.op = "delete"
            /\ d.journal.stage \in {"DeletePrepared", "DeleteDataStaged"}

\* An item is in the Trash only with complete metadata, which is what lets
\* it be listed and put back, unless another program touched that name.
ItemHasInfo ==
    \A d \in {disk, stable} : \A s \in Slots \ ghost.touched :
        d.tree[s] # NoFile => d.info[s] # NoFile /\ d.info[s].body # "torn"

ManualRepair ==
    /\ disk.journal # NoFile
    /\ ReviewAction(Snapshot(disk.journal)) = "RequiresManualRepair"

\* An interrupted transaction never blocks the Trash for good: recovery or
\* an accepted review ends it, or the review says it needs manual repair.
RecordsDrain ==
    disk.journal # NoFile ~> (disk.journal = NoFile \/ ManualRepair)

\* What list_in_layout takes for granted: an interrupted operation leaves
\* valid metadata behind, so no leftover makes the listing fail.
LeftoversAreValid ==
    At("idle") /\ disk.journal = NoFile =>
        \A s \in Slots \ ghost.touched :
            disk.info[s] # NoFile => disk.info[s].body # "torn"

\* What Files offers to undo can be undone while no other program touched
\* the item's places.
UndoOfferWorks ==
    LET undo == Promote(disk)
        u == undo[Latest(undo)]
    IN At("idle") /\ disk.journal = NoFile /\ Latest(undo) # 0 /\ ghost.touched = {} =>
         \/ InSource(u) /\ ~Exists(u.slot)
         \/ InTrash(u) /\ ~Exists(Source) /\ UndoInfoMatches(u, u.kind = "trash")

=============================================================================
