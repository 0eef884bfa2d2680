------------------------ MODULE NotesStoreBytesProof ------------------------
(***************************************************************************)
(* Why a writable library has the bytes of every attachment that it        *)
(* records, and no others (the inductive invariant Keeping); why the last  *)
(* known good may stand in for the primary (StandsIn); and why it still    *)
(* has the bytes it names (Backing).                                       *)
(***************************************************************************)
EXTENDS NotesStoreRecoveryProof

-----------------------------------------------------------------------------
(* The files of the attachments directory                                  *)

\* The files of an attachment are its own.
LEMMA PathFacts ==
    ASSUME NEW a \in Attachments
    PROVE  /\ Managed(a) \in AttachmentFiles /\ Staged(a) \in AttachmentFiles
           /\ Managed(a) # Staged(a)
           /\ \A b \in Attachments : b # a =>
                /\ Managed(b) \notin {Managed(a), Staged(a)}
                /\ Staged(b) \notin {Managed(a), Staged(a)}
  BY DEF Managed, Staged, AttachmentFiles

\* What a create, rename or unlink does to the attachments.
LEMMA PutAttachment ==
    ASSUME NEW d, IsDirectory(d, AttachmentType), NEW p \in AttachmentFiles, NEW c
    PROVE  /\ Put(d, p, c)[p].now = c
           /\ Images(Put(d, p, c)[p]) \subseteq Images(d[p]) \cup {c}
           /\ \A q \in AttachmentFiles \ {p} : Put(d, p, c)[q] = d[q]
  <1>1. DOMAIN d = AttachmentFiles
    BY AttachmentDomain DEF IsDirectory
  <1>2. Put(d, p, c)[p] = [now |-> c, may |-> d[p].may \cup {c}]
    BY <1>1 DEF Put
  <1>3. \A q \in AttachmentFiles \ {p} : Put(d, p, c)[q] = d[q]
    BY <1>1 DEF Put
  <1> QED BY <1>2, <1>3 DEF Images

\* After a sync every attachment file has one image.
LEMMA SyncAttachments ==
    ASSUME NEW d, IsDirectory(d, AttachmentType), NEW q \in AttachmentFiles
    PROVE  /\ Sync(d)[q].now = d[q].now
           /\ Images(Sync(d)[q]) = {d[q].now}
  <1>1. DOMAIN d = AttachmentFiles
    BY AttachmentDomain DEF IsDirectory
  <1> QED BY <1>1 DEF Sync, Images, OnDisk

\* After a power loss every attachment file has one of its images.
LEMMA PowerLossAttachments ==
    ASSUME NEW d, IsDirectory(d, AttachmentType), NEW e \in AfterPowerLoss(d),
           NEW q \in AttachmentFiles
    PROVE  /\ e[q].now \in Images(d[q])
           /\ Images(e[q]) = {e[q].now}
  <1>1. q \in DOMAIN d
    BY AttachmentDomain DEF IsDirectory
  <1>2. \/ e[q] = d[q] /\ d[q].may = {d[q].now}
        \/ \E c \in d[q].may : e[q] = OnDisk(c)
    BY <1>1, PowerLossFile
  <1>3. CASE e[q] = d[q] /\ d[q].may = {d[q].now}
    BY <1>3 DEF Images
  <1>4. ASSUME NEW c \in d[q].may, e[q] = OnDisk(c)
        PROVE  e[q].now \in Images(d[q]) /\ Images(e[q]) = {e[q].now}
    BY <1>4 DEF Images, OnDisk
  <1> QED BY <1>2, <1>3, <1>4

-----------------------------------------------------------------------------
(* What a step does to the attachments                                     *)

\* Each step moves the attachments to what is left of one half of its
\* operation.
Shifts(e) ==
    /\ e \in AttsMidway
    /\ \A p \in AttachmentFiles : atts'[p].now \in Images(e[p])
    /\ ~PowerLoss => \A p \in AttachmentFiles : atts'[p].now = e[p].now
    /\ spent'["faults"] = 0 /\ spent'["kills"] = 0 =>
         \/ \A p \in AttachmentFiles : atts'[p] = atts[p]
         \/ \A p \in AttachmentFiles : Images(atts'[p]) = {atts'[p].now}

\* Attachments that stay.
LEMMA StayShifts ==
    ASSUME UNCHANGED atts PROVE \E e \in AttsMidway : Shifts(e)
  <1>1. atts \in AttsMidway
    BY DEF AttsMidway
  <1> QED BY <1>1 DEF Shifts, Images

\* A directory that is, but for a sync, one half of the operation or the other.
LEMMA HalfShifts ==
    ASSUME TypeInv, NEW e \in AttsMidway, atts' = e \/ atts' = Sync(e),
           \/ spent'["faults"] # 0 \/ atts' = atts
           \/ \A p \in AttachmentFiles : Images(atts'[p]) = {atts'[p].now}
    PROVE  Shifts(e)
  <1>1. \A p \in AttachmentFiles : atts'[p].now = e[p].now
    BY AttsMidwayType, SyncAttachments
  <1>2. \A p \in AttachmentFiles : e[p].now \in Images(e[p])
    BY DEF Images
  <1> QED BY <1>1, <1>2 DEF Shifts

\* Replacing one file of the attachments.
LEMMA WriteShifts ==
    ASSUME TypeInv, NEW p \in AttachmentFiles, NEW c,
           Put(atts, p, c) \in AttsMidway, NEW r \in WriteVerified(atts, p, c),
           atts' = r.dir, Charge(r.ok)
    PROVE  \E e \in AttsMidway : Shifts(e)
  <1>1. /\ r.ok \in BOOLEAN /\ r.dir \in {atts, Put(atts, p, c), Sync(Put(atts, p, c))}
        /\ r.ok => r.dir = Sync(Put(atts, p, c))
    BY WriteVerifiedOutcome
  <1>2. atts \in AttsMidway
    BY DEF AttsMidway
  <1>3. CASE r.ok
    <2>1. \A q \in AttachmentFiles : Images(atts'[q]) = {atts'[q].now}
      BY <1>1, <1>3, AttsMidwayType, SyncAttachments
    <2> QED BY <1>1, <1>3, <2>1, HalfShifts
  <1>4. CASE ~r.ok
    <2>1. spent'["faults"] # 0
      BY <1>1, <1>4, ChargeCounts
    <2> QED BY <1>1, <1>2, <2>1, HalfShifts
  <1> QED BY <1>1, <1>3, <1>4

\* Removing one file of the attachments.
LEMMA RemoveShifts ==
    ASSUME TypeInv, NEW p \in AttachmentFiles,
           Put(atts, p, NoFile) \in AttsMidway, NEW r \in RemoveFileDurable(atts, p),
           atts' = r.dir, Charge(r.ok)
    PROVE  \E e \in AttsMidway : Shifts(e)
  <1>1. CASE atts[p].now = NoFile
    <2>1. r.dir = atts
      BY <1>1, ResultFields DEF RemoveFileDurable
    <2> QED BY <2>1, StayShifts
  <1>2. CASE atts[p].now # NoFile
    <2>1. r \in WriteVerified(atts, p, NoFile)
      BY <1>2 DEF RemoveFileDurable, WriteVerified
    <2> QED BY <2>1, WriteShifts
  <1> QED BY <1>1, <1>2

\* Creating one file of the attachments.
LEMMA NewShifts ==
    ASSUME TypeInv, NEW p \in AttachmentFiles, NEW c, atts[p].now = NoFile,
           Put(atts, p, c) \in AttsMidway, Put(atts, p, Torn) \in AttsMidway,
           NEW r \in WriteNew(atts, p, c), atts' = r.dir, Charge(r.ok)
    PROVE  \E e \in AttsMidway : Shifts(e)
  <1>0. IsDirectory(atts, AttachmentType) /\ atts \in AttsMidway
    BY DEF TypeInv, TypeOK, AttsMidway
  <1>1. r.ok \in BOOLEAN
    BY WriteNewOutcome
  <1>2. CASE r.ok
    <2>1. r.dir = Sync(Put(atts, p, c))
      BY <1>2, ResultFields DEF WriteNew
    <2>2. \A q \in AttachmentFiles : Images(atts'[q]) = {atts'[q].now}
      BY <2>1, AttsMidwayType, SyncAttachments
    <2> QED BY <2>1, <2>2, HalfShifts
  <1>3. CASE ~r.ok
    <2>1. spent'["faults"] # 0
      BY <1>1, <1>3, ChargeCounts
    <2>2. CASE r.dir \in {atts, Put(atts, p, c), Put(atts, p, Torn)}
      BY <1>0, <2>1, <2>2, HalfShifts
    <2>3. ASSUME NEW x \in {c, Torn}, r.dir = Put(Put(atts, p, x), p, NoFile)
          PROVE  Shifts(atts)
      <3>1. IsDirectory(Put(atts, p, x), AttachmentType)
        BY AttsMidwayType
      <3> DEFINE d == Put(atts, p, x)
      <3>2. /\ r.dir[p].now = NoFile
            /\ \A q \in AttachmentFiles \ {p} : r.dir[q] = d[q] /\ d[q] = atts[q]
        <4>1. \A q \in AttachmentFiles \ {p} : d[q] = atts[q]
          BY <1>0, PutAttachment
        <4> HIDE DEF d
        <4>2. r.dir = Put(d, p, NoFile) /\ IsDirectory(d, AttachmentType)
          BY <2>3, <3>1 DEF d
        <4> QED BY <4>1, <4>2, PutAttachment
      <3>3. \A q \in AttachmentFiles : atts'[q].now = atts[q].now
        BY <3>2
      <3> QED BY <1>0, <2>1, <3>3 DEF Shifts, Images
    <2>4. \/ r.dir \in {atts, Put(atts, p, c), Put(atts, p, Torn), Sync(Put(atts, p, c))}
          \/ \E x \in {c, Torn} : r.dir = Put(Put(atts, p, x), p, NoFile)
      BY WriteNewOutcome
    <2>5. r.dir = Sync(Put(atts, p, c)) => \E e \in AttsMidway : Shifts(e)
      BY <2>1, HalfShifts
    <2> QED BY <1>0, <2>2, <2>3, <2>4, <2>5
  <1> QED BY <1>1, <1>2, <1>3

\* The half-done operations of a step on the entry at hand.
LEMMA MidwayPuts ==
    ASSUME TypeInv, pc \in {"stage", "settle", "rollback"}, work.todo # {},
           NEW p \in AttachmentFiles, NEW c \in Bytes \cup {Torn, NoFile},
           LET m == Managed(Entry)
               g == Staged(Entry)
               New == NewBytes(Entry)
               v == <<p, c>>
           IN \/ /\ pc = "stage" /\ work.kind # "rewrite"
                 /\ atts[m].now = NoFile /\ v \in {<<m, Torn>>, <<m, New>>}
              \/ pc = "stage" /\ work.kind = "rewrite" /\ v = <<g, New>>
              \/ /\ pc = "settle" /\ work.kind \in Erasing
                 /\ atts[m].now = OldBytes(Entry) /\ v = <<m, NoFile>>
              \/ /\ pc = "settle" /\ work.kind = "rewrite"
                 /\ atts[m].now # New /\ atts[g].now = New /\ v = <<m, New>>
              \/ /\ pc = "settle" /\ work.kind = "rewrite"
                 /\ atts[m].now = New /\ v = <<g, NoFile>>
              \/ pc = "rollback" /\ work.kind = "rewrite" /\ v = <<g, NoFile>>
              \/ /\ pc = "rollback" /\ work.kind # "rewrite"
                 /\ atts[m].now = New /\ v = <<m, NoFile>>
    PROVE  Put(atts, p, c) \in AttsMidway
  <1> DEFINE w == <<p, c>>
  <1>1. w \in AttachmentFiles \X (Bytes \cup {Torn, NoFile}) /\ w[1] = p /\ w[2] = c
    OBVIOUS
  <1> QED BY <1>1, Zenon DEF AttsMidway

\* A step of staging or settling on the entry at hand.
LEMMA EntryShifts ==
    ASSUME TypeInv,
           \/ StageNew \/ StageRewrite \/ Erase \/ ReplaceManaged \/ RemoveStaged
           \/ RollBack
    PROVE  \E e \in AttsMidway : Shifts(e)
  <1>1. UNCHANGED atts => \E e \in AttsMidway : Shifts(e)
    BY StayShifts
  <1>2. pc \in {"stage", "settle", "rollback"} /\ work.todo # {}
    BY DEF StageNew, StageRewrite, Erase, ReplaceManaged, RemoveStaged, RollBack
  <1>3. /\ Managed(Entry) \in AttachmentFiles /\ Staged(Entry) \in AttachmentFiles
        /\ NewBytes(Entry) \in Bytes \cup {NoFile}
    BY <1>2, EntryType DEF WorkPcs
  <1>4. CASE StageNew
    <2>1. CASE UNCHANGED atts
      BY <1>1, <2>1
    <2>2. CASE /\ atts[Managed(Entry)].now = NoFile
               /\ \E r \in WriteNew(atts, Managed(Entry), NewBytes(Entry)) :
                    atts' = r.dir /\ Charge(r.ok)
      <3>1. pc = "stage" /\ work.kind # "rewrite"
        BY <1>4 DEF StageNew
      <3>2. /\ Put(atts, Managed(Entry), NewBytes(Entry)) \in AttsMidway
            /\ Put(atts, Managed(Entry), Torn) \in AttsMidway
        BY <1>2, <1>3, <2>2, <3>1, MidwayPuts
      <3> QED BY <1>3, <2>2, <3>2, NewShifts
    <2> QED BY <1>4, <2>1, <2>2, Zenon DEF StageNew
  <1>5. CASE StageRewrite
    <2>1. pc = "stage" /\ work.kind = "rewrite"
      BY <1>5 DEF StageRewrite
    <2>2. Put(atts, Staged(Entry), NewBytes(Entry)) \in AttsMidway
      BY <1>2, <1>3, <2>1, MidwayPuts
    <2>3. PICK r \in WriteVerified(atts, Staged(Entry), NewBytes(Entry)) :
            atts' = r.dir /\ Charge(r.ok)
      BY <1>5, Zenon DEF StageRewrite
    <2> QED BY <1>3, <2>2, <2>3, WriteShifts
  <1>6. CASE Erase
    <2>1. CASE UNCHANGED atts
      BY <1>1, <2>1
    <2>2. CASE /\ atts[Managed(Entry)].now = OldBytes(Entry)
               /\ \E r \in RemoveFileDurable(atts, Managed(Entry)) :
                    atts' = r.dir /\ Charge(r.ok)
      <3>1. pc = "settle" /\ work.kind \in Erasing
        BY <1>6 DEF Erase
      <3>2. Put(atts, Managed(Entry), NoFile) \in AttsMidway
        BY <1>2, <1>3, <2>2, <3>1, MidwayPuts
      <3> QED BY <1>3, <2>2, <3>2, RemoveShifts
    <2> QED BY <1>6, <2>1, <2>2, Zenon DEF Erase
  <1>7. CASE ReplaceManaged
    <2>1. CASE UNCHANGED atts
      BY <1>1, <2>1
    <2>2. CASE /\ atts[Staged(Entry)].now = NewBytes(Entry)
               /\ \E r \in WriteVerified(atts, Managed(Entry), NewBytes(Entry)) :
                    atts' = r.dir /\ Charge(r.ok)
      <3>1. pc = "settle" /\ work.kind = "rewrite"
            /\ atts[Managed(Entry)].now # NewBytes(Entry)
        BY <1>7 DEF ReplaceManaged
      <3>2. Put(atts, Managed(Entry), NewBytes(Entry)) \in AttsMidway
        BY <1>2, <1>3, <2>2, <3>1, MidwayPuts
      <3> QED BY <1>3, <2>2, <3>2, WriteShifts
    <2> QED BY <1>7, <2>1, <2>2, Zenon DEF ReplaceManaged
  <1>8. CASE RemoveStaged
    <2>1. /\ pc = "settle" /\ work.kind = "rewrite"
          /\ atts[Managed(Entry)].now = NewBytes(Entry)
      BY <1>8 DEF RemoveStaged
    <2>2. Put(atts, Staged(Entry), NoFile) \in AttsMidway
      BY <1>2, <1>3, <2>1, MidwayPuts
    <2>3. PICK r \in RemoveFileDurable(atts, Staged(Entry)) : atts' = r.dir /\ Charge(r.ok)
      BY <1>8, Zenon DEF RemoveStaged
    <2> QED BY <1>3, <2>2, <2>3, RemoveShifts
  <1>9. CASE RollBack
    <2> DEFINE p == IF work.kind = "rewrite" THEN Staged(Entry) ELSE Managed(Entry)
    <2>1. CASE UNCHANGED atts
      BY <1>1, <2>1
    <2>2. CASE /\ ~(work.kind # "rewrite" /\ atts[p].now \notin {NoFile, NewBytes(Entry)})
               /\ \E r \in RemoveFileDurable(atts, p) : atts' = r.dir /\ Charge(r.ok)
      <3>1. pc = "rollback"
        BY <1>9 DEF RollBack
      <3>2. CASE work.kind = "rewrite"
        <4>1. Put(atts, Staged(Entry), NoFile) \in AttsMidway
          BY <1>2, <1>3, <3>1, <3>2, MidwayPuts
        <4> QED BY <1>3, <2>2, <3>2, <4>1, RemoveShifts
      <3>3. CASE work.kind # "rewrite" /\ atts[Managed(Entry)].now = NoFile
        <4>1. PICK r \in RemoveFileDurable(atts, Managed(Entry)) : atts' = r.dir
          BY <2>2, <3>3
        <4>2. r.dir = atts
          BY <3>3, <4>1, ResultFields DEF RemoveFileDurable
        <4> QED BY <1>1, <4>1, <4>2
      <3>4. CASE work.kind # "rewrite" /\ atts[Managed(Entry)].now = NewBytes(Entry)
        <4>1. Put(atts, Managed(Entry), NoFile) \in AttsMidway
          BY <1>2, <1>3, <3>1, <3>4, MidwayPuts
        <4> QED BY <1>3, <2>2, <3>4, <4>1, RemoveShifts
      <3> QED BY <2>2, <3>2, <3>3, <3>4
    <2> QED BY <1>9, <2>1, <2>2, Zenon DEF RollBack
  <1> QED BY <1>4, <1>5, <1>6, <1>7, <1>8, <1>9

\* Every step.
LEMMA NextShifts ==
    ASSUME TypeInv, [Next]_vars PROVE \E e \in AttsMidway : Shifts(e)
  <1>1. UNCHANGED atts => \E e \in AttsMidway : Shifts(e)
    BY StayShifts
  <1>2. CASE SaveStep
    <2>1. StageNew \/ StageRewrite \/ UNCHANGED atts
      BY <1>2 DEF SaveStep, Begin, WriteIntent, StageDone, Preflight, WriteJournal,
                  WritePrimary, WriteLastGood, RemoveJournal
    <2> QED BY <1>1, <2>1, EntryShifts
  <1>3. CASE SettleStep
    <2>1. Erase \/ ReplaceManaged \/ RemoveStaged \/ RollBack \/ UNCHANGED atts
      BY <1>3 DEF SettleStep, VerifyStaged, Settled, RemoveIntent
    <2> QED BY <1>1, <2>1, EntryShifts
  <1>4. CASE LoadStep \/ Return \/ User \/ ReadFault \/ UNCHANGED vars
    <2>1. UNCHANGED atts
      BY <1>4 DEF LoadStep, RecoverJournal, FinishLastGood, ClearJournal, ReadPrimary,
                  RestorePrimary, RecoverIntent, Return, User, Open, Retry, Discard, Resolve,
                  Quit, Commit, ReadFault, vars
    <2> QED BY <1>1, <2>1
  <1>5. CASE Kill
    <2>1. atts' \in AttsMidway
      BY <1>5 DEF Kill
    <2>2. spent'["kills"] # 0
      BY <1>5 DEF Kill, Spend, SpendRestore, TypeInv, TypeOK, FailureKinds
    <2> QED BY <2>1, <2>2 DEF Shifts, Images
  <1>6. CASE PowerLoss
    <2>1. PICK e \in AttsMidway : atts' \in AfterPowerLoss(e)
      BY <1>6 DEF PowerLoss
    <2>2. \A q \in AttachmentFiles : /\ atts'[q].now \in Images(e[q])
                                     /\ Images(atts'[q]) = {atts'[q].now}
      BY <2>1, AttsMidwayType, PowerLossAttachments
    <2> QED BY <1>6, <2>1, <2>2 DEF Shifts
  <1>7. CASE \E f \in RootFiles : Decay(f)
    <2>1. UNCHANGED atts
      BY <1>7 DEF Decay
    <2> QED BY <1>1, <2>1
  <1> QED BY <1>2, <1>3, <1>4, <1>5, <1>6, <1>7 DEF Next, Step, Failure

-----------------------------------------------------------------------------
(* What is visible after a step                                            *)

\* Where no operation failed, every file but the journal stays synced.
LEMMA SyncedStays ==
    ASSUME TypeInv, Synced, [Next]_vars PROVE Synced'
  <1> SUFFICES ASSUME spent'["faults"] = 0, spent'["kills"] = 0
               PROVE  /\ \A f \in Unjournaled : Images(root'[f]) = {root'[f].now}
                      /\ \A f \in AttachmentFiles : Images(atts'[f]) = {atts'[f].now}
    BY DEF Synced, Unjournaled
  <1>1. spent["faults"] = 0 /\ spent["kills"] = 0
    <2>1. \A k \in {"faults", "kills"} : spent[k] \in Nat /\ spent'[k] >= spent[k]
      BY SpentGrows DEF FailureKinds
    <2> QED BY <2>1
  <1>2. /\ \A f \in Unjournaled : Images(root[f]) = {root[f].now}
        /\ \A f \in AttachmentFiles : Images(atts[f]) = {atts[f].now}
    BY <1>1 DEF Synced, Unjournaled
  <1>3. \A f \in AttachmentFiles : Images(atts'[f]) = {atts'[f].now}
    BY <1>2, NextShifts DEF Shifts
  <1>4. ASSUME NEW f \in RootFiles, Decay(f), NEW q \in Unjournaled
        PROVE  Images(root'[q]) = {root'[q].now}
    <2>1. DOMAIN root = RootFiles /\ q \in RootFiles
      BY RootDomain DEF TypeInv, TypeOK, IsDirectory, Unjournaled
    <2>2. root'[q] = root[q] \/ root'[q] = [now |-> Corrupt, may |-> {Corrupt}]
      BY <1>4, <2>1 DEF Decay
    <2> QED BY <1>2, <2>2 DEF Images
  <1>5. ASSUME ~ \E f \in RootFiles : Decay(f)
        PROVE  \A f \in Unjournaled : Images(root'[f]) = {root'[f].now}
    BY <1>2, <1>5, NextMoves DEF Moves
  <1> QED BY <1>3, <1>4, <1>5

\* Half an operation changes one file.
LEMMA MidwayIsPut ==
    ASSUME TypeInv
    PROVE  /\ \A d \in RootMidway :
                d = root \/ \E f \in RootFiles : \E c : d = Put(root, f, c)
           /\ \A e \in AttsMidway :
                e = atts \/ \E p \in AttachmentFiles : \E c : e = Put(atts, p, c)
  <1>1. ASSUME NEW d \in RootMidway
        PROVE  d = root \/ \E f \in RootFiles : \E c : d = Put(root, f, c)
    <2>1. CASE pc \in {"write_intent", "remove_intent"}
      <3>1. work.kind \in RootFiles
        BY <2>1 DEF TypeInv, Control, Works, RootFiles, EndPcs
      <3>2. d = root \/ \E c : d = Put(root, work.kind, c)
        BY <2>1 DEF RootMidway
      <3> QED BY <3>1, <3>2
    <2>2. CASE pc \notin {"write_intent", "remove_intent"}
      <3>1. d = root \/ \E f \in {"primary", "last_good", "journal"} : \E c : d = Put(root, f, c)
        BY <2>2 DEF RootMidway
      <3> QED BY <3>1 DEF RootFiles
    <2> QED BY <2>1, <2>2
  <1>2. ASSUME NEW e \in AttsMidway
        PROVE  e = atts \/ \E p \in AttachmentFiles : \E c : e = Put(atts, p, c)
    <2>1. \/ e = atts
          \/ \E w \in AttachmentFiles \X (Bytes \cup {Torn, NoFile}) :
               e = Put(atts, w[1], w[2])
      BY DEF AttsMidway
    <2> QED BY <2>1
  <1> QED BY <1>1, <1>2

\* What is seen of the two directories after the step is d and e.
Shows(d, e) ==
    /\ d \in RootMidway /\ e \in AttsMidway
    /\ \A f \in Unjournaled : root'[f].now = d[f].now
    /\ \A p \in AttachmentFiles : atts'[p].now = e[p].now

\* Where power losses have not come on top of other failures, a step shows
\* one half of its operation or the other.
LEMMA NextShows ==
    ASSUME TypeInv, Synced, [Next]_vars, Trusted', OneKindOfFailure'
    PROVE  \E d, e : Shows(d, e)
  <1>0. IsDirectory(root, RootType) /\ IsDirectory(atts, AttachmentType)
        /\ root \in RootMidway /\ atts \in AttsMidway
    BY DEF TypeInv, TypeOK, RootMidway, AttsMidway
  <1>1. PICK d \in RootMidway : Moves(d)
    BY TrustedBefore, NextMoves
  <1>2. PICK e \in AttsMidway : Shifts(e)
    BY NextShifts
  <1>3. CASE ~PowerLoss
    BY <1>1, <1>2, <1>3 DEF Moves, Shifts, Shows
  <1>4. CASE PowerLoss
    <2>1. spent["faults"] = 0 /\ spent["kills"] = 0
      <3>1. /\ spent["faults"] \in Nat /\ spent'["faults"] >= spent["faults"]
            /\ spent["kills"] \in Nat /\ spent'["kills"] >= spent["kills"]
            /\ spent["losses"] \in Nat
        BY SpentGrows DEF FailureKinds
      <3>2. spent'["losses"] = spent["losses"] + 1
        BY <1>4 DEF PowerLoss, Spend, TypeInv, TypeOK, FailureKinds
      <3> QED BY <3>1, <3>2 DEF OneKindOfFailure
    <2>2. /\ \A f \in Unjournaled : Images(root[f]) = {root[f].now}
          /\ \A p \in AttachmentFiles : Images(atts[p]) = {atts[p].now}
      BY <2>1 DEF Synced, Unjournaled
    <2>3. \E x \in {root, d} : \A f \in Unjournaled : root'[f].now = x[f].now
      <3>0. \A q \in Unjournaled : root'[q].now \in Images(d[q])
        BY <1>1 DEF Moves, Shrinks
      <3>1. CASE d = root
        BY <2>2, <3>0, <3>1
      <3>2. ASSUME NEW f \in RootFiles, NEW c, d = Put(root, f, c)
            PROVE  \E x \in {root, d} : \A q \in Unjournaled : root'[q].now = x[q].now
        <4>1. /\ d[f].now = c /\ Images(d[f]) \subseteq Images(root[f]) \cup {c}
              /\ \A q \in RootFiles \ {f} : d[q] = root[q]
          BY <1>0, <3>2, PutFiles
        <4>2. \A q \in Unjournaled \ {f} : root'[q].now = root[q].now /\ d[q] = root[q]
          BY <2>2, <3>0, <4>1 DEF Unjournaled
        <4>3. f \in Unjournaled => root'[f].now \in {root[f].now, c}
          BY <2>2, <3>0, <4>1
        <4> QED BY <4>1, <4>2, <4>3
      <3> QED BY <3>1, <3>2, MidwayIsPut
    <2>4. \E y \in {atts, e} : \A p \in AttachmentFiles : atts'[p].now = y[p].now
      <3>0. \A q \in AttachmentFiles : atts'[q].now \in Images(e[q])
        BY <1>2 DEF Shifts
      <3>1. CASE e = atts
        BY <2>2, <3>0, <3>1
      <3>2. ASSUME NEW p \in AttachmentFiles, NEW c, e = Put(atts, p, c)
            PROVE  \E y \in {atts, e} : \A q \in AttachmentFiles : atts'[q].now = y[q].now
        <4>1. /\ e[p].now = c /\ Images(e[p]) \subseteq Images(atts[p]) \cup {c}
              /\ \A q \in AttachmentFiles \ {p} : e[q] = atts[q]
          BY <1>0, <3>2, PutAttachment
        <4>2. \A q \in AttachmentFiles \ {p} : atts'[q].now = atts[q].now /\ e[q] = atts[q]
          BY <2>2, <3>0, <4>1
        <4>3. atts'[p].now \in {atts[p].now, c}
          BY <2>2, <3>0, <4>1
        <4> QED BY <4>1, <4>2, <4>3
      <3> QED BY <3>1, <3>2, MidwayIsPut
    <2> QED BY <1>0, <2>3, <2>4 DEF Shows
  <1> QED BY <1>3, <1>4

-----------------------------------------------------------------------------
(* The pending candidate                                                   *)

\* Most steps go on, or end their call with an error.
LEMMA GoesOn ==
    ASSUME TypeInv, SaveStep \/ SettleStep \/ LoadStep \/ ReadFault
    PROVE  \/ \E l : Continue(l)
           \/ Fail /\ call = "commit"
           \/ LoadFails /\ call \in {"open", "retry"}
  <1>1. \A b, l : Noting(b, l) => \E m : Continue(m)
    BY Zenon DEF Noting
  <1>2. \A s, f : Loaded(s, f) => \E m : Continue(m)
    BY Zenon DEF Loaded
  <1>3. /\ pc \in SavePcs => call = "commit"
        /\ pc \in LoadPcs => call \in {"open", "retry"}
    BY DEF TypeInv, Control
  <1>4. CASE SaveStep
    <2>1. pc \in SavePcs
      BY <1>4 DEF SaveStep, Begin, WriteIntent, StageNew, StageRewrite, StageDone, Preflight,
                  WriteJournal, WritePrimary, WriteLastGood, RemoveJournal, SavePcs
    <2>2. CASE StageNew
      BY <1>3, <2>1, <2>2, Zenon DEF StageNew
    <2>3. CASE StageRewrite
      BY <1>3, <2>1, <2>3, Zenon DEF StageRewrite
    <2>4. CASE Begin \/ WriteIntent \/ StageDone \/ Preflight
      BY <1>3, <2>1, <2>4 DEF Begin, WriteIntent, StageDone, Preflight
    <2>5. CASE WriteJournal \/ WritePrimary \/ WriteLastGood \/ RemoveJournal
      BY <1>3, <2>1, <2>5 DEF WriteJournal, WritePrimary, WriteLastGood, RemoveJournal
    <2> QED BY <1>4, <2>2, <2>3, <2>4, <2>5 DEF SaveStep
  <1>5. CASE SettleStep
    <2>1. CASE Erase
      BY <1>1, <2>1, Zenon DEF Erase
    <2>2. CASE ReplaceManaged
      BY <1>1, <2>2 DEF ReplaceManaged
    <2>3. CASE RemoveStaged
      BY <1>1, <2>3 DEF RemoveStaged
    <2>4. CASE VerifyStaged \/ Settled
      BY <1>1, <2>4 DEF VerifyStaged, Settled
    <2>5. CASE RollBack
      BY <1>1, <2>5 DEF RollBack
    <2>6. CASE RemoveIntent
      BY <1>1, <2>6 DEF RemoveIntent
    <2> QED BY <1>5, <2>1, <2>2, <2>3, <2>4, <2>5, <2>6 DEF SettleStep
  <1>6. CASE LoadStep
    <2>1. pc \in LoadPcs
      BY <1>6 DEF LoadStep, RecoverJournal, FinishLastGood, ClearJournal, ReadPrimary,
                  RestorePrimary, RecoverIntent, LoadPcs
    <2>2. CASE RecoverJournal
      BY <1>3, <2>1, <2>2 DEF RecoverJournal
    <2>3. CASE FinishLastGood \/ ClearJournal
      BY <1>1, <2>3 DEF FinishLastGood, ClearJournal
    <2>4. CASE ReadPrimary
      BY <1>2, <1>3, <2>1, <2>4 DEF ReadPrimary
    <2>5. CASE RestorePrimary
      BY <1>2, <1>3, <2>1, <2>5 DEF RestorePrimary
    <2>6. CASE RecoverIntent
      BY <1>1, <2>6 DEF RecoverIntent
    <2> QED BY <1>6, <2>2, <2>3, <2>4, <2>5, <2>6 DEF LoadStep
  <1>7. CASE ReadFault
    <2>1. CASE pc \in {"begin", "stage", "preflight"} /\ Fail
      BY <1>3, <2>1 DEF SavePcs
    <2>2. CASE pc \in {"recover_journal", "read_primary"} /\ LoadFails
      BY <1>3, <2>2 DEF LoadPcs
    <2>3. CASE \E l : Continue(l)
      BY <2>3
    <2> QED BY <1>1, <1>7, <2>1, <2>2, <2>3, Zenon DEF ReadFault
  <1> QED BY <1>4, <1>5, <1>6, <1>7

\* The primary is written by a commit and by the restoring of it only.
LEMMA PrimaryMoves ==
    ASSUME TypeInv, [Next]_vars, Trusted', ~PowerLoss
    PROVE  \/ root'["primary"].now = root["primary"].now
           \/ pc = "write_primary" /\ root'["primary"].now = job.candidate
           \/ pc = "restore_primary" /\ root'["primary"].now = root["last_good"].now
  <1>0. IsDirectory(root, RootType) /\ "primary" \in Unjournaled
    BY DEF TypeInv, TypeOK, Unjournaled, RootFiles, Intents
  <1>1. PICK d \in RootMidway : root'["primary"].now = d["primary"].now
    BY <1>0, TrustedBefore, NextMoves DEF Moves
  <1>2. ASSUME NEW f \in RootFiles, f # "primary", NEW c
        PROVE  Put(root, f, c)["primary"] = root["primary"]
    BY <1>0, <1>2, PutFiles DEF Unjournaled
  <1>3. \A c : Put(root, "primary", c)["primary"].now = c
    BY <1>0, PutFiles DEF Unjournaled
  <1>4. CASE pc \in {"write_intent", "remove_intent"}
    <2>1. work.kind \in RootFiles /\ work.kind # "primary"
      BY <1>4 DEF TypeInv, Control, Works, RootFiles, EndPcs, Intents
    <2>2. d = root \/ \E c : d = Put(root, work.kind, c)
      BY <1>4 DEF RootMidway
    <2> QED BY <1>1, <1>2, <2>1, <2>2
  <1>5. CASE pc \notin {"write_intent", "remove_intent", "write_primary", "restore_primary"}
    <2>1. d = root \/ \E f \in {"last_good", "journal"} : \E c : d = Put(root, f, c)
      BY <1>5 DEF RootMidway
    <2> QED BY <1>1, <1>2, <2>1 DEF RootFiles
  <1>6. CASE pc = "write_primary"
    <2>1. d = root \/ d = Put(root, "primary", job.candidate)
      BY <1>6 DEF RootMidway
    <2> QED BY <1>1, <1>3, <1>6, <2>1
  <1>7. CASE pc = "restore_primary"
    <2>1. d = root \/ d = Put(root, "primary", root["last_good"].now)
      BY <1>7 DEF RootMidway
    <2> QED BY <1>1, <1>3, <1>7, <2>1
  <1> QED BY <1>4, <1>5, <1>6, <1>7

\* While a library is held and the disk is trusted, nothing is restored.
LEMMA NoRestoring ==
    ASSUME TypeInv, Known, held \in Libraries, PendingOnDisk
    PROVE  pc # "restore_primary"
  <1> SUFFICES ASSUME pc = "restore_primary" PROVE FALSE
    OBVIOUS
  <1>1. root["last_good"].now # NoFile /\ root["primary"].now = NoFile
    BY SnapshotFacts DEF TypeInv, Control, Known, LoadKnows
  <1>2. held.baseline # NoFile
    BY <1>1 DEF Known, HeldKnows
  <1>3. (phase = "pending" \/ call = "commit") /\ root["primary"].now = job.candidate
    BY <1>1, <1>2 DEF PendingOnDisk
  <1>4. job \in Jobs
    BY <1>3 DEF TypeInv, Control, Pending
  <1> QED BY <1>1, <1>3, <1>4, KnownFacts, SnapshotFacts

\* The library that a call returns is loaded from the primary.
LEMMA ReturnsPrimary ==
    ASSUME TypeInv, Known, pc = "return"
    PROVE  lib \in Libraries /\ Decoded(lib) /\ lib.baseline = root["primary"].now
  <1>1. lib \in Libraries
    BY DEF TypeInv, Control, EndPcs
  <1>2. CASE call # "commit"
    BY <1>1, <1>2 DEF Known, LoadKnows, EndPcs
  <1>3. CASE call = "commit"
    <2>1. job \in Jobs
      BY <1>3 DEF TypeInv, Control
    <2>2. job.candidate # NoFile
      BY <2>1, KnownFacts, SnapshotFacts
    <2> QED BY <1>1, <1>3, <2>2 DEF Known, SaveKnows, EndPcs, Decoded
  <1> QED BY <1>2, <1>3

\* A retry that meets its own disk meets the library it holds or its candidate.
LEMMA RetryMeets ==
    ASSUME TypeInv, Known, PendingOnDisk, pc = "return", call = "retry"
    PROVE  lib.snapshot \in {job.candidate, held.snapshot}
  <1>1. lib \in Libraries /\ Decoded(lib) /\ lib.baseline = root["primary"].now
    BY ReturnsPrimary
  <1>2. held \in Libraries /\ job \in Jobs
    BY DEF TypeInv, Control
  <1>3. Decoded(held) /\ job.candidate # NoFile
    BY <1>2, KnownFacts, SnapshotFacts DEF Known, HeldKnows
  <1> QED BY <1>1, <1>2, <1>3 DEF PendingOnDisk, Decoded

\* An edit keeps the bytes of the library it was made on.
LEMMA SaveKeepsBytes ==
    ASSUME NEW s \in Snapshots, NEW c \in Candidates("save", s)
    PROVE  c.bytes = s.bytes
  <1>1. c \in Drafts /\ \A a \in Attachments : Recast("save", s.bytes[a], c.bytes[a])
    BY CandidateShape
  <1>2. \A a \in Attachments : c.bytes[a] = s.bytes[a]
    BY <1>1 DEF Recast, Erasing
  <1>3. s.bytes \in [Attachments -> Bytes \cup {NoFile}]
    BY BumpedType
  <1>4. c.bytes \in [Attachments -> Bytes \cup {NoFile}]
    BY <1>1 DEF Drafts
  <1> QED BY <1>2, <1>3, <1>4

\* A step that goes on keeps what is known of the pending candidate.
LEMMA GoesOnRetrying ==
    ASSUME TypeInv, Recoverable, Retrying, [Next]_vars,
           SaveStep \/ SettleStep \/ LoadStep \/ ReadFault
    PROVE  Retrying'
  <1>1. \/ \E l : Continue(l)
        \/ Fail /\ call = "commit"
        \/ LoadFails /\ call \in {"open", "retry"}
    BY GoesOn
  <1>2. UNCHANGED <<held, job>>
    BY <1>1 DEF Continue, Fail, LoadFails
  <1>3. \/ UNCHANGED <<phase, call>>
        \/ phase' = "pending" /\ call' = "none" /\ (call = "commit" \/ call = "retry")
        \/ phase' = "closed" /\ call' = "none" /\ call = "open"
    BY <1>1 DEF Continue, Fail, LoadFails, Leave
  <1>4. call' = "retry" => phase' \in Pending
    BY <1>3 DEF Retrying
  <1>5. ASSUME Trusted' PROVE PendingOnDisk' /\ EditKeepsBytes'
    <2>1. Trusted /\ Readable /\ Known /\ PendingOnDisk /\ EditKeepsBytes
      BY <1>5, TrustedBefore DEF Retrying, Recoverable
    <2>3. CASE held \in Libraries
      <3>0. ~PowerLoss
        BY <1>2, <2>3, DistinctAssumption DEF PowerLoss, Vanish
      <3>1. \/ root'["primary"].now = root["primary"].now
            \/ pc = "write_primary" /\ root'["primary"].now = job.candidate
        BY <1>5, <2>1, <2>3, <3>0, PrimaryMoves, NoRestoring
      <3>2. pc = "write_primary" => call = "commit"
        BY DEF TypeInv, Control, SavePcs
      <3>3. call = "open" => phase = "closed"
        BY DEF TypeInv, Control
      <3>4. PendingOnDisk'
        BY <1>2, <1>3, <2>1, <3>1, <3>2, <3>3 DEF PendingOnDisk
      <3>5. phase' \in Pending \/ call' = "commit" => phase \in Pending \/ call = "commit"
        BY <1>3 DEF Retrying, Pending
      <3> QED BY <1>2, <2>1, <3>4, <3>5 DEF EditKeepsBytes
    <2>4. CASE held \notin Libraries
      <3>1. phase' # "conflict"
        BY <1>3, <2>1 DEF PendingOnDisk
      <3> QED BY <1>2, <2>4, <3>1 DEF PendingOnDisk, EditKeepsBytes
    <2> QED BY <2>3, <2>4
  <1> QED BY <1>4, <1>5 DEF Retrying

\* So does the end of a call.
LEMMA ReturnRetrying ==
    ASSUME TypeInv, Recoverable, Retrying, [Next]_vars, Return PROVE Retrying'
  <1>1. CASE Accept
    <2>1. phase' = "ready" /\ call' = "none" /\ held' = lib /\ pc = "return" /\ UNCHANGED root
      BY <1>1 DEF Return, Accept, Report, Leave
    <2>2. ASSUME Trusted' PROVE held'.baseline = root'["primary"].now
      BY <2>1, <2>2, TrustedBefore, ReturnsPrimary DEF Recoverable
    <2> QED BY <2>1, <2>2 DEF Retrying, PendingOnDisk, EditKeepsBytes, Pending
  <1>2. CASE /\ call = "retry" /\ lib.snapshot \notin {job.candidate, held.snapshot}
             /\ Leave(IF job.op = "save" THEN "conflict" ELSE "pending")
    <2>1. call' = "none" /\ pc = "return"
      BY <1>2 DEF Leave, Return
    <2>2. ~Trusted'
      BY <1>2, <2>1, TrustedBefore, RetryMeets DEF Recoverable, Retrying
    <2> QED BY <2>1, <2>2 DEF Retrying
  <1>3. CASE /\ call = "retry" /\ lib.snapshot = held.snapshot
             /\ held' = lib /\ call' = "commit" /\ UNCHANGED <<root, phase, job>>
    <2>1. pc = "return"
      BY DEF Return
    <2>2. ASSUME Trusted' PROVE PendingOnDisk' /\ EditKeepsBytes'
      <3>1. Known /\ PendingOnDisk /\ EditKeepsBytes /\ phase \in Pending
        BY <1>3, <2>2, TrustedBefore DEF Recoverable, Retrying
      <3>2. lib.baseline = root["primary"].now
        BY <2>1, <3>1, ReturnsPrimary
      <3>3. held \in Libraries
        BY <1>3 DEF TypeInv, Control
      <3> QED BY <1>3, <3>1, <3>2, <3>3 DEF PendingOnDisk, EditKeepsBytes
    <2> QED BY <1>3, <2>2 DEF Retrying
  <1> QED BY <1>1, <1>2, <1>3 DEF Return

\* So does what the user does.
LEMMA UserRetrying ==
    ASSUME TypeInv, Recoverable, Retrying, [Next]_vars, User PROVE Retrying'
  <1>1. CASE Open
    <2>1. phase = "closed" /\ call' = "open" /\ UNCHANGED <<root, phase, held, job>> /\ call = "none"
      BY <1>1 DEF Open
    <2>2. ASSUME Trusted' PROVE PendingOnDisk' /\ EditKeepsBytes'
      BY <2>1, <2>2, TrustedBefore DEF Retrying, PendingOnDisk, EditKeepsBytes, Pending
    <2> QED BY <2>1, <2>2 DEF Retrying
  <1>2. CASE Retry
    <2>1. phase \in Pending /\ call' = "retry" /\ UNCHANGED <<root, phase, held, job>> /\ call = "none"
      BY <1>2 DEF Retry
    <2>2. ASSUME Trusted' PROVE PendingOnDisk' /\ EditKeepsBytes'
      BY <2>1, <2>2, TrustedBefore DEF Retrying, PendingOnDisk, EditKeepsBytes, Pending
    <2> QED BY <2>1, <2>2 DEF Retrying
  <1>3. CASE Discard
    <2>1. call' # "retry"
      BY <1>3 DEF Discard
    <2> QED BY <1>3, <2>1, TrustedBefore DEF Retrying
  <1>4. CASE Quit
    <2>1. call' = "none" /\ phase' = "closed" /\ held' \notin Libraries
      BY <1>4, DistinctAssumption DEF Quit, Vanish, Leave
    <2> QED BY <2>1 DEF Retrying, PendingOnDisk, EditKeepsBytes
  <1>5. CASE Resolve
    <2>1. phase = "conflict" /\ call' = "commit"
      BY <1>5 DEF Resolve
    <2> QED BY <2>1, TrustedBefore DEF Retrying, PendingOnDisk
  <1>6. ASSUME phase = "ready", call = "none", NEW op \in Ops,
               NEW c \in Candidates(op, held.snapshot), Commit(op, c)
        PROVE  Retrying'
    <2>1. /\ call' = "commit" /\ job' = [op |-> op, candidate |-> c]
          /\ UNCHANGED <<root, phase, held>>
      BY <1>6 DEF Commit
    <2>2. held \in Libraries
      BY <1>6 DEF TypeInv, Control
    <2>3. op = "save" => c.bytes = held.snapshot.bytes
      BY <1>6, <2>2, SaveKeepsBytes DEF Libraries
    <2>4. ASSUME Trusted' PROVE PendingOnDisk' /\ EditKeepsBytes'
      <3>1. PendingOnDisk
        BY <2>4, TrustedBefore DEF Retrying
      <3>2. root["primary"].now = held.baseline
        BY <1>6, <2>2, <3>1 DEF PendingOnDisk
      <3> QED BY <1>6, <2>1, <2>3, <3>2 DEF PendingOnDisk, EditKeepsBytes
    <2> QED BY <2>1, <2>4 DEF Retrying
  <1> QED BY <1>1, <1>2, <1>3, <1>4, <1>5, <1>6, Zenon DEF User

\* Every step keeps it.
LEMMA RetryingStays ==
    ASSUME TypeInv, Recoverable, Retrying, [Next]_vars PROVE Retrying'
  <1>1. CASE Kill \/ PowerLoss
    <2>1. call' = "none" /\ phase' = "closed" /\ held' \notin Libraries
      BY <1>1, DistinctAssumption DEF Kill, PowerLoss, Vanish, Leave
    <2> QED BY <2>1 DEF Retrying, PendingOnDisk, EditKeepsBytes
  <1>2. CASE \E f \in RootFiles : Decay(f)
    <2>1. UNCHANGED <<call, phase>>
      BY <1>2 DEF Decay
    <2> QED BY <1>2, <2>1, TrustedBefore DEF Retrying
  <1>3. CASE UNCHANGED vars
    <2>1. UNCHANGED <<root, call, phase, held, job, spent>>
      BY <1>3 DEF vars
    <2> QED BY <2>1 DEF Retrying, PendingOnDisk, EditKeepsBytes, Trusted, PrimaryTrusted
  <1> QED BY <1>1, <1>2, <1>3, GoesOnRetrying, ReturnRetrying, UserRetrying
          DEF Next, Step, Failure

-----------------------------------------------------------------------------
(* The intent of the call in progress, and every other                     *)

\* Putting a file leaves every other one alone.
LEMMA PutAside ==
    ASSUME NEW d, IsDirectory(d, RootType), NEW f \in RootFiles, NEW c,
           NEW q \in RootFiles, q # f
    PROVE  Put(d, f, c)[q] = d[q]
  <1>1. \A p \in RootFiles \ {f} : Put(d, f, c)[p] = d[p]
    BY PutFiles
  <1> QED BY <1>1

\* While a call goes on, only the writing and the removal of an intent touch
\* the visible intents.
LEMMA IntentsStay ==
    ASSUME TypeInv, [Next]_vars, pc' # "idle", pc \notin {"write_intent", "remove_intent"}
    PROVE  (\A k \in Intents : root'[k].now = root[k].now) /\ Present' = Present
  <1>1. ~PowerLoss
    BY DEF PowerLoss, Vanish, Leave
  <1>2. ~ \E f \in RootFiles : Decay(f)
    BY DEF Decay, TypeInv, Control
  <1>3. PICK d \in RootMidway : \A f \in Unjournaled : root'[f].now = d[f].now
    BY <1>1, <1>2, NextMoves DEF Moves
  <1>4. IsDirectory(root, RootType) /\ Intents \subseteq Unjournaled
    BY DEF TypeInv, TypeOK, Unjournaled, RootFiles, Intents
  <1>5. d = root \/ \E f \in {"primary", "last_good", "journal"} : \E c : d = Put(root, f, c)
    BY DEF RootMidway
  <1>6. ASSUME NEW f \in {"primary", "last_good", "journal"}, NEW c, NEW k \in Intents
        PROVE  Put(root, f, c)[k] = root[k]
    <2>1. f \in RootFiles /\ k \in RootFiles /\ f # k
      BY DEF RootFiles, Intents
    <2> QED BY <1>4, <2>1, PutAside
  <1>7. \A k \in Intents : root'[k].now = root[k].now
    BY <1>3, <1>4, <1>5, <1>6
  <1> QED BY <1>7 DEF Present

\* An intent that stays on the disk stays the one that is worked on.
LEMMA WorkingStays ==
    ASSUME Working, work.kind \in Intents, \A k \in Intents : root'[k].now = root[k].now,
           work'.kind = work.kind, work'.intent = work.intent
    PROVE  Working'
  BY DEF Working, Present

\* A notice ends the work on an intent.
LEMMA NotedBlocks ==
    ASSUME lib \in Libraries, Noting(TRUE, "return")
    PROVE  pc' = "return" /\ lib'.blocked
  BY DEF Noting, Continue, Libraries

\* What is worked on is still what is on the disk.
LEMMA SaveWork ==
    ASSUME TypeInv, OwnIntentOnly, WorkIsOnDisk, [Next]_vars, pc' # "idle", SaveStep
    PROVE  WorkIsOnDisk'
  <1>0. pc \in SavePcs /\ call = "commit" /\ held \in Libraries /\ job \in Jobs
    <2>1. pc \in SavePcs
      BY DEF SaveStep, Begin, WriteIntent, StageNew, StageRewrite, StageDone, Preflight,
             WriteJournal, WritePrimary, WriteLastGood, RemoveJournal, SavePcs
    <2> QED BY <2>1 DEF TypeInv, Control
  <1>1. ~Fail
    BY DEF Fail, Leave
  <1>2. pc # "write_intent" => \A k \in Intents : root'[k].now = root[k].now
    BY <1>0, IntentsStay DEF SavePcs
  <1>3. pc # "write_intent" => Present' = Present
    BY <1>0, IntentsStay DEF SavePcs
  <1>4. CASE Begin
    <2>1. UNCHANGED <<held, job>> /\ pc = "begin"
      BY <1>1, <1>4 DEF Begin, Continue
    <2>2. CASE ~Refused /\ job.op = "save" /\ Continue("preflight")
      <3>1. Present = {} /\ pc' = "preflight"
        BY <2>2 DEF Refused, Present, Continue
      <3> QED BY <1>3, <2>1, <2>2, <3>1 DEF WorkIsOnDisk, SavePcs
    <2>3. CASE ~Refused /\ job.op # "save" /\ Continue("write_intent") /\ work' = [kind |-> job.op, intent |-> Own, todo |-> Entries(Own)]
      <3>1. job.candidate \in Candidates(job.op, held.snapshot)
        BY <2>3 DEF Refused
      <3>2. Proper(job.op, Own)
        BY <3>1 DEF Proper, Own
      <3>3. /\ work'.kind = job.op /\ work'.intent = Own /\ work'.todo = Entries(Own)
            /\ pc' = "write_intent"
        BY <2>3 DEF Continue
      <3> QED BY <2>1, <3>2, <3>3 DEF WorkIsOnDisk, SavePcs
    <2> QED BY <1>1, <1>4, <2>2, <2>3 DEF Begin, Own
  <1>5. CASE WriteIntent
    <2>1. PICK r \in WriteVerified(root, work.kind, work.intent) :
            /\ root' = r.dir /\ r.ok
            /\ Continue(IF work.kind \in Staging THEN "stage" ELSE "preflight")
            /\ UNCHANGED <<lib, work>>
      BY <1>1, <1>5 DEF WriteIntent
    <2>2. /\ pc = "write_intent" /\ work \in Works /\ IsDirectory(root, RootType)
          /\ Present = {} /\ work.intent = Own /\ work.kind = job.op
      BY <1>5 DEF WriteIntent, TypeInv, TypeOK, Control, OwnIntentOnly, WorkIsOnDisk
    <2>3. /\ work.kind \in RootFiles /\ work.kind \in Intents
          /\ work.intent \in RootType[work.kind] /\ work.intent # NoFile
      BY <2>2, RootDomain, DistinctAssumption DEF Works
    <2>4. PICK e \in {root, Put(root, work.kind, work.intent)} :
            /\ \A q \in RootFiles : r.dir[q].now = e[q].now
            /\ e = Put(root, work.kind, work.intent)
      BY <2>1, <2>2, <2>3, VerifiedMoves
    <2>5. /\ root'[work.kind].now = work.intent
          /\ \A k \in Intents \ {work.kind} : root'[k].now = root[k].now
      <3>1. \A f \in RootFiles : \A c :
              /\ Put(root, f, c)[f].now = c
              /\ \A k \in RootFiles \ {f} : Put(root, f, c)[k] = root[k]
        BY <2>2, PutFiles
      <3>2. Intents \subseteq RootFiles
        BY DEF RootFiles
      <3> QED BY <2>1, <2>3, <2>4, <3>1, <3>2
    <2>6. UNCHANGED <<held, job, work>> /\ pc' \in {"stage", "preflight"}
          /\ (pc' = "stage" => work.kind \in Staging)
      BY <2>1 DEF Continue
    <2>7. Present' = {work.kind}
      BY <2>2, <2>3, <2>5 DEF Present
    <2>8. Working' /\ Own' = Own
      BY <2>5, <2>6, <2>7 DEF Working, Own
    <2>9. job.op # "save"
      BY <2>2, <2>3 DEF Intents
    <2> QED BY <2>2, <2>6, <2>8, <2>9 DEF WorkIsOnDisk, SavePcs
  <1>6. CASE pc \in SavePcs \ {"begin", "write_intent", "remove_journal"}
    <2>1. /\ UNCHANGED <<held, job>>
          /\ pc' \in SavePcs \ {"begin", "write_intent"} \/ (pc' = "return" /\ lib'.blocked)
          /\ pc' = "stage" => pc = "stage"
          /\ work' = work \/ EntryDone
      <3>1. CASE StageNew
        <4>1. Continue("stage") /\ EntryDone /\ pc = "stage"
          BY <1>1, <3>1, Zenon DEF StageNew
        <4> QED BY <4>1 DEF Continue, SavePcs
      <3>2. CASE StageRewrite
        <4>1. Continue("stage") /\ EntryDone /\ pc = "stage"
          BY <1>1, <3>2, Zenon DEF StageRewrite
        <4> QED BY <4>1 DEF Continue, SavePcs
      <3>3. CASE StageDone \/ Preflight
        BY <1>1, <3>3 DEF StageDone, Preflight, Continue, SavePcs
      <3>4. CASE WriteJournal
        <4>1. Continue("write_primary") /\ UNCHANGED work
          BY <1>1, <3>4 DEF WriteJournal
        <4> QED BY <4>1 DEF Continue, SavePcs
      <3>5. CASE WritePrimary
        <4>1. Continue("write_last_good") /\ UNCHANGED work
          BY <1>1, <3>5 DEF WritePrimary
        <4> QED BY <4>1 DEF Continue, SavePcs
      <3>6. CASE WriteLastGood
        <4>1. PICK r \in WriteVerified(root, "last_good", job.candidate) :
                /\ lib' = Saved(~r.ok) /\ Continue(IF r.ok THEN "remove_journal" ELSE "return")
                /\ UNCHANGED work
          BY <3>6, Zenon DEF WriteLastGood
        <4>2. r.ok \in BOOLEAN
          BY WriteVerifiedOutcome
        <4>3. ~r.ok => lib'.blocked
          BY <4>1, SavedFields
        <4> QED BY <4>1, <4>2, <4>3 DEF Continue, SavePcs
      <3> QED BY <1>6, <3>1, <3>2, <3>3, <3>4, <3>5, <3>6
              DEF SaveStep, Begin, WriteIntent, RemoveJournal
    <2>2. CASE job.op = "save"
      BY <1>2, <1>3, <1>6, <2>1, <2>2 DEF WorkIsOnDisk, SavePcs
    <2>3. CASE job.op # "save"
      <3>1. Working /\ work.kind = job.op /\ work.intent = Own
        BY <1>6, <2>3 DEF WorkIsOnDisk
      <3>2. job.op \in Intents
        BY <1>0, <2>3, ConstantsAssumption DEF Jobs
      <3>3. work'.kind = work.kind /\ work'.intent = work.intent
        <4>1. CASE EntryDone
          <5>1. pc = "stage" => work \in Works
            BY DEF TypeInv, Control
          <5>2. work \in Works
            BY <1>6, <2>3 DEF TypeInv, Control
          <5> QED BY <4>1, <5>2 DEF EntryDone, Works
        <4> QED BY <2>1, <4>1
      <3>4. Working'
        BY <1>2, <1>6, <3>1, <3>2, <3>3, WorkingStays
      <3>5. Own' = Own
        BY <2>1 DEF Own
      <3> QED BY <1>6, <2>1, <2>3, <3>1, <3>3, <3>4, <3>5 DEF WorkIsOnDisk, SavePcs
    <2> QED BY <2>2, <2>3
  <1>7. CASE RemoveJournal
    <2>1. PICK r \in RemoveFile(root, "journal") :
            /\ lib' = Saved(~r.ok) /\ Continue(IF r.ok THEN AfterCommit ELSE "return")
            /\ work' = IF r.ok /\ job.op # "save"
                       THEN [work EXCEPT !.todo = Entries(work.intent)] ELSE work
      BY <1>7, Zenon DEF RemoveJournal
    <2>2. r.ok \in BOOLEAN /\ pc = "remove_journal"
      BY <1>7, RemoveFileOutcome DEF RemoveJournal
    <2>3. CASE ~r.ok
      <3>1. pc' = "return" /\ lib'.blocked
        BY <2>1, <2>3, SavedFields DEF Continue
      <3> QED BY <3>1 DEF WorkIsOnDisk, SavePcs
    <2>4. CASE r.ok /\ job.op = "save"
      <3>1. pc' = "return"
        BY <2>1, <2>4 DEF Continue, AfterCommit
      <3>2. Present = {}
        BY <2>2, <2>4 DEF WorkIsOnDisk, SavePcs
      <3> QED BY <1>3, <2>2, <3>1, <3>2 DEF WorkIsOnDisk, SavePcs
    <2>5. CASE r.ok /\ job.op # "save"
      <3>1. pc' \in {"settle", "remove_intent"}
        BY <2>1, <2>5 DEF Continue, AfterCommit
      <3>2. Working /\ work.kind = job.op
        BY <2>2, <2>5 DEF WorkIsOnDisk, SavePcs
      <3>3. job.op \in Intents
        BY <1>0, <2>5, ConstantsAssumption DEF Jobs
      <3>4. work \in Works
        BY <2>2, <2>5 DEF TypeInv, Control, SavePcs
      <3>5. work'.kind = work.kind /\ work'.intent = work.intent
        BY <2>1, <2>5, <3>4 DEF Works
      <3>6. Working'
        BY <1>2, <2>2, <3>2, <3>3, <3>5, WorkingStays
      <3> QED BY <3>1, <3>6 DEF WorkIsOnDisk, SavePcs
    <2> QED BY <2>2, <2>3, <2>4, <2>5
  <1>8. pc = "begin" => Begin
    BY DEF SaveStep, Begin, WriteIntent, StageNew, StageRewrite, StageDone, Preflight,
           WriteJournal, WritePrimary, WriteLastGood, RemoveJournal
  <1>9. pc = "write_intent" => WriteIntent
    BY DEF SaveStep, Begin, WriteIntent, StageNew, StageRewrite, StageDone, Preflight,
           WriteJournal, WritePrimary, WriteLastGood, RemoveJournal
  <1>10. pc = "remove_journal" => RemoveJournal
    BY DEF SaveStep, Begin, WriteIntent, StageNew, StageRewrite, StageDone, Preflight,
           WriteJournal, WritePrimary, WriteLastGood, RemoveJournal
  <1> QED BY <1>0, <1>4, <1>5, <1>6, <1>7, <1>8, <1>9, <1>10

\* Settling an intent works on it until it is removed.
LEMMA SettleWork ==
    ASSUME TypeInv, WorkIsOnDisk, [Next]_vars, pc' # "idle", SettleStep
    PROVE  WorkIsOnDisk'
  <1>0. /\ pc \in {"settle", "rollback", "remove_intent"} /\ Working
        /\ work \in Works /\ lib \in Libraries
    <2>1. pc \in {"settle", "rollback", "remove_intent"}
      BY DEF SettleStep, Erase, ReplaceManaged, RemoveStaged, VerifyStaged, RollBack,
             Settled, RemoveIntent
    <2> QED BY <2>1 DEF WorkIsOnDisk, TypeInv, Control, LoadPcs, EndPcs
  <1>1. CASE pc # "remove_intent"
    <2>1. \/ pc' = "return" /\ lib'.blocked
          \/ /\ pc' \in {"settle", "rollback", "remove_intent"}
             /\ work'.kind = work.kind /\ work'.intent = work.intent
      <3>1. EntryDone => work'.kind = work.kind /\ work'.intent = work.intent
        BY <1>0 DEF EntryDone, Works
      <3>2. Noting(TRUE, "return") => pc' = "return" /\ lib'.blocked
        BY <1>0, NotedBlocks
      <3>3. CASE Erase
        <4>1. (EntryDone /\ Continue("settle")) \/ Noting(TRUE, "return")
          BY <3>3, Zenon DEF Erase
        <4> QED BY <3>1, <3>2, <4>1 DEF Continue
      <3>4. CASE ReplaceManaged
        <4>1. (UNCHANGED work /\ Continue("settle")) \/ Noting(TRUE, "return")
          BY <3>4 DEF ReplaceManaged
        <4> QED BY <3>2, <4>1 DEF Continue
      <3>5. CASE RemoveStaged
        <4>1. (EntryDone /\ Continue("settle")) \/ Noting(TRUE, "return")
          BY <3>5 DEF RemoveStaged
        <4> QED BY <3>1, <3>2, <4>1 DEF Continue
      <3>6. CASE VerifyStaged
        <4>1. (work' = [work EXCEPT !.todo = {}] /\ Continue("settle")) \/ Noting(TRUE, "return")
          BY <3>6 DEF VerifyStaged
        <4>2. work' = [work EXCEPT !.todo = {}] =>
                work'.kind = work.kind /\ work'.intent = work.intent
          BY <1>0 DEF Works
        <4> QED BY <3>2, <4>1, <4>2 DEF Continue
      <3>7. CASE RollBack
        <4>1. (EntryDone /\ Continue("rollback")) \/ Noting(TRUE, "return")
          BY <3>7 DEF RollBack
        <4> QED BY <3>1, <3>2, <4>1 DEF Continue
      <3>8. CASE Settled
        BY <3>8 DEF Settled, Continue
      <3> QED BY <1>1, <3>3, <3>4, <3>5, <3>6, <3>7, <3>8 DEF SettleStep, RemoveIntent
    <2>2. \A k \in Intents : root'[k].now = root[k].now
      BY <1>0, <1>1, IntentsStay
    <2>3. CASE work'.kind = work.kind /\ work'.intent = work.intent
               /\ pc' \in {"settle", "rollback", "remove_intent"}
      <3>1. work.kind \in Intents
        BY <1>0 DEF Works
      <3>2. Working'
        BY <1>0, <2>2, <2>3, <3>1, WorkingStays
      <3> QED BY <2>3, <3>2 DEF WorkIsOnDisk, SavePcs
    <2> QED BY <2>1, <2>3 DEF WorkIsOnDisk, SavePcs
  <1>2. CASE pc = "remove_intent"
    <2>1. PICK r \in RemoveFileDurable(root, work.kind) :
            root' = r.dir /\ Noting(~r.ok, "return")
      BY <1>2, Zenon DEF SettleStep, Erase, ReplaceManaged, RemoveStaged, VerifyStaged,
                         RollBack, Settled, RemoveIntent
    <2>2. r.ok \in BOOLEAN /\ pc' = "return"
      BY <2>1, RemoveFileDurableOutcome DEF Noting, Continue
    <2>3. CASE ~r.ok
      <3>1. lib'.blocked
        BY <1>0, <2>1, <2>3, NotedBlocks
      <3> QED BY <2>2, <3>1 DEF WorkIsOnDisk, SavePcs
    <2>4. CASE r.ok
      <3>0. /\ IsDirectory(root, RootType) /\ work.kind \in RootFiles
            /\ work.kind \in Intents /\ Intents \subseteq RootFiles
        BY <1>0 DEF TypeInv, TypeOK, Works, RootFiles
      <3>1. /\ NoFile \in RootType[work.kind] /\ root[work.kind].now # NoFile
        BY <1>0, <3>0, RootDomain DEF Working, Present
      <3>2. r \in WriteVerified(root, work.kind, NoFile)
        BY <2>1, <3>1 DEF RemoveFileDurable, WriteVerified
      <3>3. \A q \in RootFiles : r.dir[q].now = Put(root, work.kind, NoFile)[q].now
        BY <2>4, <3>0, <3>1, <3>2, VerifiedMoves
      <3>4. \A k \in Intents : root'[k].now = NoFile
        <4>1. \A f \in RootFiles : \A c :
                /\ Put(root, f, c)[f].now = c
                /\ \A k \in RootFiles \ {f} : Put(root, f, c)[k] = root[k]
          BY <3>0, PutFiles
        <4>2. \A k \in Intents \ {work.kind} : root[k].now = NoFile
          BY <1>0 DEF Working, Present
        <4> QED BY <2>1, <3>0, <3>3, <4>1, <4>2
      <3>5. Present' = {}
        BY <3>4 DEF Present
      <3> QED BY <2>2, <3>5 DEF WorkIsOnDisk, SavePcs
    <2> QED BY <2>2, <2>3, <2>4
  <1> QED BY <1>0, <1>1, <1>2

\* A load works on the one intent that it finds.
LEMMA LoadWork ==
    ASSUME TypeInv, [Next]_vars, pc' # "idle", LoadStep \/ ReadFault
    PROVE  WorkIsOnDisk'
  <1>1. CASE RecoverIntent
    <2>1. pc = "recover_intent" /\ lib \in Libraries
      BY <1>1 DEF RecoverIntent, TypeInv, Control, LoadPcs
    <2>2. (\A k \in Intents : root'[k].now = root[k].now) /\ Present' = Present
      BY <2>1, IntentsStay
    <2>3. CASE Present = {} /\ Noting(FALSE, "return")
      <3>1. pc' = "return"
        BY <2>3 DEF Noting, Continue
      <3> QED BY <2>2, <2>3, <3>1 DEF WorkIsOnDisk, SavePcs
    <2>4. CASE Noting(TRUE, "return")
      BY <2>1, <2>4, NotedBlocks DEF WorkIsOnDisk, SavePcs
    <2>5. ASSUME NEW k \in Present, Present = {k}, NEW entries, NEW l \in {"rollback", "settle"},
                 work' = [kind |-> k, intent |-> root[k].now, todo |-> entries],
                 Continue(l)
          PROVE  WorkIsOnDisk'
      <3>1. work'.kind = k /\ work'.intent = root[k].now /\ pc' \in {"rollback", "settle"}
        BY <2>5 DEF Continue
      <3>2. Working'
        BY <2>2, <2>5, <3>1 DEF Working, Present
      <3> QED BY <3>1, <3>2 DEF WorkIsOnDisk, SavePcs
    <2>6. \/ Present = {} /\ Noting(FALSE, "return")
          \/ Noting(TRUE, "return")
          \/ \E k \in Present : \E entries : \E l \in {"rollback", "settle"} :
               /\ Present = {k} /\ Continue(l)
               /\ work' = [kind |-> k, intent |-> root[k].now, todo |-> entries]
      BY <1>1 DEF RecoverIntent
    <2> QED BY <2>3, <2>4, <2>5, <2>6
  <1>2. CASE LoadStep /\ ~RecoverIntent
    <2>1. pc' \in LoadPcs \ {"rollback"}
      <3>1. \A b, l : Noting(b, l) => pc' = l
        BY DEF Noting, Continue
      <3>2. \A s, f : Loaded(s, f) => pc' = "recover_intent"
        BY DEF Loaded, Continue
      <3>3. ~LoadFails
        BY DEF LoadFails, Leave
      <3>4. CASE RecoverJournal
        BY <3>3, <3>4 DEF RecoverJournal, Continue, LoadPcs
      <3>5. CASE FinishLastGood
        <4>1. \E b : \E l \in {"clear_journal", "read_primary"} : Noting(b, l)
          BY <3>5 DEF FinishLastGood
        <4> QED BY <3>1, <4>1 DEF LoadPcs
      <3>6. CASE ClearJournal
        <4>1. \E b : Noting(b, "read_primary")
          BY <3>6 DEF ClearJournal
        <4> QED BY <3>1, <4>1 DEF LoadPcs
      <3>7. CASE ReadPrimary
        <4>1. Continue("restore_primary") \/ \E s, f : Loaded(s, f)
          BY <3>3, <3>7 DEF ReadPrimary
        <4> QED BY <3>2, <4>1 DEF Continue, LoadPcs
      <3>8. CASE RestorePrimary
        <4>1. \E s, f : Loaded(s, f)
          BY <3>3, <3>8 DEF RestorePrimary
        <4> QED BY <3>2, <4>1 DEF LoadPcs
      <3> QED BY <1>2, <3>4, <3>5, <3>6, <3>7, <3>8 DEF LoadStep
    <2> QED BY <2>1 DEF WorkIsOnDisk, LoadPcs, SavePcs
  <1>3. CASE ReadFault
    <2>1. ~Fail /\ ~LoadFails
      BY DEF Fail, LoadFails, Leave
    <2>2. Continue("restore_primary") \/ (Noting(TRUE, "return") /\ lib \in Libraries)
      BY <1>3, <2>1 DEF ReadFault, TypeInv, Control, LoadPcs, EndPcs
    <2>3. (pc' = "return" /\ lib'.blocked) \/ pc' = "restore_primary"
      BY <2>2, NotedBlocks DEF Continue
    <2> QED BY <2>3 DEF WorkIsOnDisk, SavePcs
  <1> QED BY <1>1, <1>2, <1>3

\* Every step.
LEMMA WorkStays ==
    ASSUME TypeInv, OwnIntentOnly, WorkIsOnDisk, [Next]_vars PROVE WorkIsOnDisk'
  <1>1. CASE pc' = "idle"
    BY <1>1 DEF WorkIsOnDisk, SavePcs
  <1>2. CASE pc' # "idle"
    <2>1. CASE Return \/ User
      <3>1. pc' \in {"begin", "recover_journal"} \/ UNCHANGED pc
        BY <1>2, <2>1 DEF Return, Accept, Leave, User, Open, Retry, Discard, Resolve, Quit,
                          Vanish, Commit
      <3>2. User /\ UNCHANGED pc => pc = "idle"
        BY DEF User, Open, Retry, Discard, Resolve, Quit, Commit, TypeInv, Control
      <3>3. Return => pc' # pc
        BY DEF Return, Accept, Leave
      <3>4. pc' \in {"begin", "recover_journal"}
        BY <1>2, <2>1, <3>1, <3>2, <3>3
      <3> QED BY <3>4 DEF WorkIsOnDisk, SavePcs
    <2>2. CASE Kill \/ PowerLoss \/ \E f \in RootFiles : Decay(f)
      <3>1. pc' = "idle"
        BY <2>2 DEF Kill, PowerLoss, Vanish, Leave, Decay, TypeInv, Control
      <3> QED BY <1>2, <3>1
    <2>3. CASE UNCHANGED vars
      <3>1. UNCHANGED <<root, job, pc, lib, work, held>>
        BY <2>3 DEF vars
      <3> QED BY <3>1 DEF WorkIsOnDisk, Working, Present, Own, Proper
    <2> QED BY <1>2, <2>1, <2>2, <2>3, SaveWork, SettleWork, LoadWork DEF Next, Step, Failure
  <1> QED BY <1>1, <1>2

\* Every intent stays one that a commit of its kind may have written.
LEMMA ProperStays ==
    ASSUME TypeInv, IntentsAreProper, WorkIsOnDisk, [Next]_vars PROVE IntentsAreProper'
  <1>0. IsDirectory(root, RootType) /\ Intents \subseteq RootFiles
        /\ Intents \subseteq Unjournaled
    BY DEF TypeInv, TypeOK, Unjournaled, RootFiles, Intents
  <1>1. ASSUME NEW f \in RootFiles, Decay(f) PROVE IntentsAreProper'
    <2>1. \A k \in Intents : root'[k] = root[k] \/ root'[k] = [now |-> Corrupt, may |-> {Corrupt}]
      BY <1>0, <1>1, RootDomain DEF Decay, IsDirectory
    <2>2. \A k \in Intents : Images(root'[k]) \ {Corrupt} \subseteq Images(root[k])
      BY <2>1 DEF Images
    <2> QED BY <2>2 DEF IntentsAreProper, Proper
  <1>2. ASSUME ~ \E f \in RootFiles : Decay(f) PROVE IntentsAreProper'
    <2>1. PICK d \in RootMidway : Moves(d)
      BY <1>2, NextMoves
    <2>2. ASSUME NEW k \in Intents, NEW i \in Images(root'[k]) \ {NoFile, Corrupt}
          PROVE  Proper(k, i)
      <3>1. i \in Images(d[k])
        BY <1>0, <2>1, <2>2 DEF Moves, Shrinks
      <3>2. CASE pc = "write_intent" /\ k = work.kind
        <4>1. d = root \/ d = Put(root, k, work.intent)
          BY <3>2 DEF RootMidway
        <4>2. \A c : Images(Put(root, k, c)[k]) \subseteq Images(root[k]) \cup {c}
          BY <1>0, PutFiles
        <4>3. i \in Images(root[k]) \/ i = work.intent
          BY <3>1, <4>1, <4>2
        <4> QED BY <2>2, <3>2, <4>3 DEF IntentsAreProper, WorkIsOnDisk
      <3>3. CASE ~(pc = "write_intent" /\ k = work.kind)
        <4>1. i \in Images(root[k])
          BY <2>2, <3>1, <3>3, MidwayIntents
        <4> QED BY <2>2, <4>1 DEF IntentsAreProper
      <3> QED BY <3>2, <3>3
    <2> QED BY <2>2 DEF IntentsAreProper, Proper
  <1> QED BY <1>1, <1>2

\* A commit that has begun goes on or gives up.
LEMMA SaveGoesOn ==
    ASSUME SaveStep PROVE pc' \notin {"idle", "begin"} \/ Fail
  <1>1. AfterCommit \in {"return", "remove_intent", "settle"}
    BY DEF AfterCommit
  <1>2. CASE StageNew
    BY <1>2, Zenon DEF StageNew, Continue
  <1>3. CASE StageRewrite
    BY <1>3, Zenon DEF StageRewrite, Continue
  <1>4. CASE Begin \/ WriteIntent \/ StageDone \/ Preflight
    BY <1>4 DEF Begin, WriteIntent, StageDone, Preflight, Continue
  <1>5. CASE WriteJournal
    <2>1. Continue("write_primary") \/ Fail
      BY <1>5 DEF WriteJournal
    <2> QED BY <2>1 DEF Continue
  <1>6. CASE WritePrimary \/ WriteLastGood \/ RemoveJournal
    BY <1>1, <1>6 DEF WritePrimary, WriteLastGood, RemoveJournal, Continue
  <1> QED BY <1>2, <1>3, <1>4, <1>5, <1>6 DEF SaveStep

\* A library that is held keeps to have no intent beside it.
LEMMA NoIntentHeldStays ==
    ASSUME TypeInv, WorkIsOnDisk, NoIntentHeld, [Next]_vars PROVE NoIntentHeld'
  <1> SUFFICES ASSUME Trusted', Holding', pc' \in {"idle", "begin"} PROVE Present' = {}
    BY DEF NoIntentHeld
  <1>1. Trusted /\ ~ReadFault /\ ~Discard /\ \A f \in RootFiles : ~Decay(f)
    BY TrustedBefore
  <1>2. CASE pc = "return" /\ ~lib.blocked /\ UNCHANGED root
    BY <1>2 DEF WorkIsOnDisk, Present
  <1>3. CASE Holding /\ UNCHANGED held
    <2>1. ~Fail
      BY DEF Fail, Leave, Holding
    <2>2. ~SaveStep
      BY <2>1, SaveGoesOn
    <2>3. ~SettleStep /\ ~LoadStep
      BY SettlingHoldsNot
    <2>4. ~Kill /\ ~PowerLoss /\ ~Quit
      BY VanishedHolds DEF Kill, PowerLoss, Quit
    <2>5. Return => pc = "return"
      BY DEF Return
    <2>6. ~Return
      BY <1>3, <2>5 DEF Holding, TypeInv, Control
    <2>7. User => pc = "idle" /\ UNCHANGED root
      <3>1. User => call = "none"
        BY <2>4 DEF User, Open, Retry, Discard, Resolve, Commit
      <3>2. User => UNCHANGED root
        BY DEF User, Open, Retry, Discard, Resolve, Quit, Commit
      <3> QED BY <3>1, <3>2 DEF TypeInv, Control
    <2>8. UNCHANGED vars => UNCHANGED <<root, pc>>
      BY DEF vars
    <2>9. User \/ UNCHANGED vars
      BY <1>1, <2>2, <2>3, <2>4, <2>6 DEF Next, Step, Failure
    <2>10. pc \in {"idle", "begin"} /\ UNCHANGED root
      BY <2>7, <2>8, <2>9
    <2> QED BY <1>1, <1>3, <2>10 DEF NoIntentHeld, Present
  <1> QED BY <1>2, <1>3, HeldBefore

-----------------------------------------------------------------------------
(* The bytes of the attachments, half an operation on                      *)

\* What an intent of each kind does to the bytes that it names.
LEMMA IntentShape ==
    ASSUME NEW k \in Intents, NEW i \in IntentRecords, Proper(k, i)
    PROVE  /\ i.base # i.candidate
           /\ i.candidate.revision = i.base.revision + 1 /\ i.base.revision \in Nat
           /\ \A a \in Attachments \ Entries(i) : i.base.bytes[a] = i.candidate.bytes[a]
           /\ \A a \in Entries(i) :
                LET old == i.base.bytes[a]
                    new == i.candidate.bytes[a]
                IN /\ a \in Attachments /\ old # new
                   /\ k \in {"import", "bundle"} => old = NoFile /\ new \in Bytes
                   /\ k \in Erasing => old \in Bytes /\ new = NoFile
                   /\ k = "rewrite" => old \in Bytes /\ new \in Bytes
  <1>1. /\ i.base \in Snapshots /\ i.candidate \in Candidates(k, i.base)
        /\ i.base.revision \in Nat
    BY SnapshotFacts DEF IntentRecords, Proper
  <1>2. /\ i.candidate.revision = i.base.revision + 1
        /\ \A a \in Attachments : Recast(k, i.base.bytes[a], i.candidate.bytes[a])
    BY <1>1, CandidateShape
  <1>3. i.base # i.candidate
    BY <1>1, <1>2
  <1>4. \A a \in Attachments : i.base.bytes[a] \in Bytes \cup {NoFile}
    BY <1>1 DEF Snapshots
  <1>5. ASSUME NEW a \in Entries(i)
        PROVE  LET old == i.base.bytes[a]
                   new == i.candidate.bytes[a]
               IN /\ a \in Attachments /\ old # new
                  /\ k \in {"import", "bundle"} => old = NoFile /\ new \in Bytes
                  /\ k \in Erasing => old \in Bytes /\ new = NoFile
                  /\ k = "rewrite" => old \in Bytes /\ new \in Bytes
    <2>1. a \in Attachments /\ i.base.bytes[a] # i.candidate.bytes[a]
      BY <1>5 DEF Entries
    <2> QED BY <1>2, <1>4, <2>1 DEF Recast, Erasing
  <1>6. \A a \in Attachments \ Entries(i) : i.base.bytes[a] = i.candidate.bytes[a]
    BY DEF Entries
  <1> QED BY <1>1, <1>2, <1>3, <1>5, <1>6

\* Only what is visible counts.
LEMMA SameBytes ==
    ASSUME NEW d, NEW e, NEW x, NEW y, BytesMatch(d, e), Found(x) = Found(d),
           \A k \in Intents : x[k].now = d[k].now,
           \A p \in AttachmentFiles : y[p].now = e[p].now
    PROVE  BytesMatch(x, y)
  <1>1. \A a \in Attachments : /\ y[Managed(a)].now = e[Managed(a)].now
                               /\ y[Staged(a)].now = e[Staged(a)].now
    BY PathFacts
  <1>2. \A k \in Intents : \A a : Names(x, k, a) <=> Names(d, k, a)
    BY DEF Names
  <1>3. ASSUME NEW a \in Attachments, \A k \in Intents : ~Names(x, k, a)
        PROVE  Exact(y, a, Found(x))
    BY <1>1, <1>2, <1>3 DEF BytesMatch, Exact
  <1>4. ASSUME NEW a \in Attachments, NEW k \in Intents, Names(x, k, a)
        PROVE  Underway(y, k, x[k].now, a, Found(x))
    <2>1. Underway(e, k, d[k].now, a, Found(d))
      BY <1>2, <1>4 DEF BytesMatch
    <2> QED BY <1>1, <2>1 DEF Underway
  <1> QED BY <1>3, <1>4 DEF BytesMatch

\* Without intents, or with the one intent of the call in progress.
LEMMA BytesBeside ==
    ASSUME NEW d, NEW e
    PROVE  /\ (\A k \in Intents : d[k].now = NoFile) =>
                (BytesMatch(d, e) <=> \A a \in Attachments : Exact(e, a, Found(d)))
           /\ \A k \in Intents :
                /\ d[k].now # NoFile
                /\ \A l \in Intents \ {k} : d[l].now = NoFile
                => (BytesMatch(d, e) <=>
                      /\ \A a \in Attachments \ Entries(d[k].now) : Exact(e, a, Found(d))
                      /\ \A a \in Entries(d[k].now) : Underway(e, k, d[k].now, a, Found(d)))
  <1>1. ASSUME \A k \in Intents : d[k].now = NoFile
        PROVE  BytesMatch(d, e) <=> \A a \in Attachments : Exact(e, a, Found(d))
    <2>1. \A k \in Intents : \A a : ~Names(d, k, a)
      BY <1>1 DEF Names
    <2> QED BY <2>1 DEF BytesMatch
  <1>2. ASSUME NEW k \in Intents, d[k].now # NoFile,
               \A l \in Intents \ {k} : d[l].now = NoFile
        PROVE  BytesMatch(d, e) <=>
                 /\ \A a \in Attachments \ Entries(d[k].now) : Exact(e, a, Found(d))
                 /\ \A a \in Entries(d[k].now) : Underway(e, k, d[k].now, a, Found(d))
    <2>1. \A l \in Intents : \A a : Names(d, l, a) <=> l = k /\ a \in Entries(d[k].now)
      BY <1>2 DEF Names
    <2>2. Entries(d[k].now) \subseteq Attachments
      BY DEF Entries
    <2> QED BY <2>1, <2>2 DEF BytesMatch
  <1> QED BY <1>1, <1>2

\* The library that is held is what the disk loads as.
LEMMA FoundHeld ==
    ASSUME TypeInv, Known, HeldIsOnDisk, Holding
    PROVE  Found(root) = held.snapshot
  <1>1. LoadsAs(root, held.baseline) /\ Decoded(held)
    BY DEF HeldIsOnDisk, Known, HeldKnows, Holding
  <1>2. root["primary"].now = held.baseline
        /\ (held.baseline = NoFile => root["last_good"].now = NoFile)
    BY <1>1, KnownFacts DEF LoadsAs
  <1> QED BY <1>1, <1>2 DEF Found, Decoded

\* A load has found what it takes for the library.
LEMMA FoundLoaded ==
    ASSUME TypeInv, Known, lib \in Libraries, Decoded(lib),
           lib.baseline = root["primary"].now,
           lib.baseline = NoFile => root["last_good"].now = NoFile
    PROVE  Found(root) = lib.snapshot
  BY DEF Found, Decoded

\* What a step may rely on while the disk is trusted.
Sound ==
    /\ TypeInv /\ Known /\ Slack = {}
    /\ HeldIsOnDisk /\ Authority(root) /\ OwnIntentOnly
    /\ EditKeepsBytes /\ IntentsAreProper /\ WorkIsOnDisk
    /\ BytesMatch(root, atts) /\ BytesDone

\* The one intent that is worked on.
LEMMA WorkingIntent ==
    ASSUME Sound, Working, work \in Works
    PROVE  /\ work.kind \in Intents /\ work.kind \in RootFiles
           /\ work.intent \in IntentRecords /\ work.intent # NoFile
           /\ root[work.kind].now = work.intent
           /\ \A l \in Intents \ {work.kind} : root[l].now = NoFile
           /\ Proper(work.kind, work.intent)
           /\ \A a \in Attachments \ Entries(work.intent) : Exact(atts, a, Found(root))
           /\ \A a \in Entries(work.intent) :
                Underway(atts, work.kind, work.intent, a, Found(root))
  <1>1. work.kind \in Intents /\ work.intent \in IntentRecords
    BY DEF Works
  <1>2. work.intent # NoFile /\ work.intent # Corrupt /\ work.kind \in RootFiles
    BY <1>1, DistinctAssumption DEF RootFiles
  <1>3. /\ root[work.kind].now = work.intent
        /\ \A l \in Intents \ {work.kind} : root[l].now = NoFile
    BY DEF Working, Present
  <1>4. Proper(work.kind, work.intent)
    BY <1>1, <1>2, <1>3 DEF Sound, IntentsAreProper, Images
  <1>5. BytesMatch(root, atts)
    BY DEF Sound
  <1> QED BY <1>1, <1>2, <1>3, <1>4, <1>5, BytesBeside

\* An intent that has just been written finds the attachments as they were.
LEMMA WriteIntentBytes ==
    ASSUME Sound, pc = "write_intent"
    PROVE  BytesMatch(Put(root, work.kind, work.intent), atts)
  <1> DEFINE d == Put(root, work.kind, work.intent)
  <1>0. TypeInv /\ Known /\ HeldIsOnDisk /\ OwnIntentOnly /\ WorkIsOnDisk
    BY DEF Sound
  <1>1. /\ IsDirectory(root, RootType) /\ work \in Works /\ held \in Libraries
        /\ ~held.blocked /\ Present = {} /\ work.intent = Own
        /\ Proper(work.kind, work.intent)
    BY <1>0 DEF TypeInv, TypeOK, Control, SavePcs, OwnIntentOnly, WorkIsOnDisk
  <1>2. work.kind \in Intents /\ work.intent \in IntentRecords /\ work.kind \in RootFiles
        /\ work.intent # NoFile /\ "primary" # work.kind /\ "last_good" # work.kind
    BY <1>1, DistinctAssumption DEF Works, RootFiles, Intents
  <1>3. Found(root) = held.snapshot /\ Own.base = held.snapshot
    BY <1>0, <1>1, FoundHeld DEF Holding, Own
  <1>4. /\ d[work.kind].now = work.intent
        /\ \A q \in RootFiles \ {work.kind} : d[q] = root[q]
    <2>1. \A f \in RootFiles : \A c :
            /\ Put(root, f, c)[f].now = c
            /\ \A q \in RootFiles \ {f} : Put(root, f, c)[q] = root[q]
      BY <1>1, PutFiles
    <2> QED BY <1>2, <2>1
  <1> HIDE DEF d
  <1>5. Found(d) = Found(root)
    BY <1>2, <1>4 DEF Found, RootFiles
  <1>6. \A k \in Intents : root[k].now = NoFile
    BY <1>1 DEF Present
  <1>7. \A l \in Intents \ {work.kind} : d[l].now = NoFile
    BY <1>4, <1>6 DEF RootFiles
  <1>8. \A a \in Attachments : Exact(atts, a, Found(root))
    BY <1>6, BytesBeside DEF Sound
  <1>9. ASSUME NEW a \in Entries(work.intent)
        PROVE  Underway(atts, work.kind, work.intent, a, Found(d))
    <2>1. a \in Attachments
      BY <1>9 DEF Entries
    <2>2. /\ atts[Managed(a)].now = work.intent.base.bytes[a]
          /\ atts[Staged(a)].now = NoFile
      BY <1>1, <1>3, <1>8, <2>1 DEF Exact
    <2>3. work.kind \in {"import", "bundle"} => work.intent.base.bytes[a] = NoFile
      BY <1>1, <1>2, <1>9, IntentShape
    <2> QED BY <1>1, <1>2, <1>3, <1>5, <2>2, <2>3 DEF Underway, Midst, Intents, Erasing
  <1>10. \A a \in Attachments \ Entries(work.intent) : Exact(atts, a, Found(d))
    BY <1>5, <1>8
  <1>11. BytesMatch(d, atts)
    BY <1>2, <1>4, <1>7, <1>9, <1>10, BytesBeside
  <1> QED BY <1>11 DEF d

\* The candidate that becomes the primary finds the attachments as its intent
\* has prepared them.
LEMMA WritePrimaryBytes ==
    ASSUME Sound, pc = "write_primary"
    PROVE  BytesMatch(Put(root, "primary", job.candidate), atts)
  <1> DEFINE c == job.candidate
             d == Put(root, "primary", c)
  <1>0. /\ TypeInv /\ Known /\ WorkIsOnDisk /\ EditKeepsBytes /\ BytesDone
        /\ BytesMatch(root, atts)
    BY DEF Sound
  <1>1. /\ IsDirectory(root, RootType) /\ held \in Libraries /\ job \in Jobs
        /\ call = "commit"
        /\ job.op # "save" => work \in Works
    BY <1>0 DEF TypeInv, TypeOK, Control, SavePcs
  <1>2. c # NoFile /\ c \in Snapshots
    BY <1>0, <1>1, KnownFacts, SnapshotFacts
  <1>3. Found(root) = held.snapshot
    BY <1>0, <1>1 DEF Known, SaveKnows, HeldKnows, Decoded, Found
  <1>4. d["primary"].now = c /\ \A q \in RootFiles \ {"primary"} : d[q] = root[q]
    <2>1. \A f \in RootFiles : \A x :
            /\ Put(root, f, x)[f].now = x
            /\ \A q \in RootFiles \ {f} : Put(root, f, x)[q] = root[q]
      BY <1>1, PutFiles
    <2>2. "primary" \in RootFiles
      BY DEF RootFiles
    <2> QED BY <2>1, <2>2
  <1> HIDE DEF d
  <1>5. Found(d) = c
    BY <1>2, <1>4 DEF Found
  <1>6. \A k \in Intents : d[k].now = root[k].now
    BY <1>4 DEF RootFiles, Intents
  <1>7. CASE job.op = "save"
    <2>1. \A k \in Intents : root[k].now = NoFile
      BY <1>0, <1>7 DEF WorkIsOnDisk, SavePcs, Present
    <2>2. c.bytes = held.snapshot.bytes
      BY <1>0, <1>1, <1>7 DEF EditKeepsBytes
    <2>3. \A a \in Attachments : Exact(atts, a, held.snapshot)
      BY <1>0, <1>3, <2>1, BytesBeside
    <2>4. \A a \in Attachments : Exact(atts, a, c)
      BY <2>2, <2>3 DEF Exact
    <2>5. BytesMatch(d, atts)
      BY <1>5, <1>6, <2>1, <2>4, BytesBeside
    <2> QED BY <2>5 DEF d
  <1>8. CASE job.op # "save"
    <2> DEFINE k == work.kind
               i == work.intent
    <2>1. Working /\ k = job.op /\ i = Own /\ work \in Works
      BY <1>0, <1>1, <1>8 DEF WorkIsOnDisk, SavePcs
    <2>2. /\ k \in Intents /\ i \in IntentRecords /\ i # NoFile /\ root[k].now = i
          /\ \A l \in Intents \ {k} : root[l].now = NoFile
          /\ Proper(k, i)
          /\ \A a \in Attachments \ Entries(i) : Exact(atts, a, held.snapshot)
          /\ \A a \in Entries(i) : Underway(atts, k, i, a, held.snapshot)
      BY <1>3, <2>1, WorkingIntent
    <2>3. i.base = held.snapshot /\ i.candidate = c
      BY <2>1 DEF Own
    <2>4. k \in Staging => \A a \in Entries(i) : Ready(atts, k, a, c.bytes[a])
      BY <1>0, <2>1, <2>3 DEF BytesDone, NewBytes
    <2> HIDE DEF k, i
    <2>5. \A a \in Attachments \ Entries(i) : Exact(atts, a, c)
      BY <2>2, <2>3, IntentShape DEF Exact
    <2>6. ASSUME NEW a \in Entries(i) PROVE Underway(atts, k, i, a, c)
      <3>1. c # i.base
        BY <2>2, <2>3, IntentShape
      <3>2. Midst(k, TRUE, i.base.bytes[a], c.bytes[a],
                  atts[Managed(a)].now, atts[Staged(a)].now)
        BY <2>2, <2>3, <2>6 DEF Underway
      <3>3. k \in Staging => Ready(atts, k, a, c.bytes[a])
        BY <2>4, <2>6
      <3>4. Midst(k, FALSE, i.base.bytes[a], c.bytes[a],
                  atts[Managed(a)].now, atts[Staged(a)].now)
        BY <3>2, <3>3 DEF Midst, Ready, Staging, Erasing
      <3> QED BY <2>3, <3>1, <3>4 DEF Underway
    <2>7. d[k].now = i /\ \A l \in Intents \ {k} : d[l].now = NoFile
      BY <1>6, <2>2
    <2>8. BytesMatch(d, atts)
      BY <1>5, <2>2, <2>5, <2>6, <2>7, BytesBeside
    <2> QED BY <2>8 DEF d
  <1> QED BY <1>7, <1>8

\* An intent is removed when every attachment matches the library without it.
LEMMA RemoveIntentBytes ==
    ASSUME Sound, pc = "remove_intent"
    PROVE  BytesMatch(Put(root, work.kind, NoFile), atts)
  <1> DEFINE d == Put(root, work.kind, NoFile)
  <1>1. IsDirectory(root, RootType) /\ work \in Works /\ Working
    BY DEF Sound, TypeInv, TypeOK, Control, WorkIsOnDisk
  <1>2. work.kind \in Intents /\ work.kind \in RootFiles
        /\ \A l \in Intents \ {work.kind} : root[l].now = NoFile
    BY <1>1, WorkingIntent
  <1>3. d[work.kind].now = NoFile /\ \A q \in RootFiles \ {work.kind} : d[q] = root[q]
    <2>1. \A f \in RootFiles : \A c :
            /\ Put(root, f, c)[f].now = c
            /\ \A q \in RootFiles \ {f} : Put(root, f, c)[q] = root[q]
      BY <1>1, PutFiles
    <2> QED BY <1>2, <2>1
  <1>4. \A a \in Attachments : Exact(atts, a, Found(root))
    BY DEF Sound, BytesDone
  <1> HIDE DEF d
  <1>5. Found(d) = Found(root)
    BY <1>2, <1>3 DEF Found, RootFiles, Intents
  <1>6. \A k \in Intents : d[k].now = NoFile
    BY <1>2, <1>3 DEF RootFiles
  <1>7. BytesMatch(d, atts)
    BY <1>4, <1>5, <1>6, BytesBeside
  <1> QED BY <1>7 DEF d

\* Half an operation on the root, whatever the call is at.
LEMMA RootMidwayBytes ==
    ASSUME Sound, NEW d \in RootMidway PROVE BytesMatch(d, atts)
  <1>0. TypeInv /\ Known /\ BytesMatch(root, atts) /\ IsDirectory(root, RootType)
    BY DEF Sound, TypeInv, TypeOK
  <1>1. ASSUME NEW f \in {"primary", "last_good", "journal"}, NEW c, d = Put(root, f, c),
               Found(d) = Found(root)
        PROVE  BytesMatch(d, atts)
    <2>1. f \in RootFiles /\ \A k \in Intents : k \in RootFiles /\ k # f
      BY DEF RootFiles, Intents
    <2>2. \A k \in Intents : Put(root, f, c)[k] = root[k]
      BY <1>0, <2>1, PutAside
    <2>3. \A k \in Intents : d[k].now = root[k].now
      BY <1>1, <2>2
    <2> QED BY <1>0, <1>1, <2>3, SameBytes
  <1>2. ASSUME NEW f \in RootFiles, NEW c
        PROVE  /\ Put(root, f, c)[f].now = c
               /\ \A q \in RootFiles \ {f} : Put(root, f, c)[q] = root[q]
    BY <1>0, PutFiles
  <1>3. "primary" \in RootFiles /\ "last_good" \in RootFiles /\ "journal" \in RootFiles
    BY DEF RootFiles
  <1>4. \A c : Found(Put(root, "journal", c)) = Found(root)
    BY <1>2, <1>3 DEF Found
  <1>5. \A c : root["primary"].now # NoFile => Found(Put(root, "last_good", c)) = Found(root)
    BY <1>2, <1>3 DEF Found
  <1>6. CASE d = root
    BY <1>0, <1>6
  <1>7. CASE pc = "write_intent" /\ d = Put(root, work.kind, work.intent)
    BY <1>7, WriteIntentBytes
  <1>8. CASE pc = "write_primary" /\ d = Put(root, "primary", job.candidate)
    BY <1>8, WritePrimaryBytes
  <1>9. CASE pc = "remove_intent" /\ d = Put(root, work.kind, NoFile)
    BY <1>9, RemoveIntentBytes
  <1>10. CASE pc = "write_journal" /\ d # root
    <2>1. PICK c : d = Put(root, "journal", c)
      BY <1>10 DEF RootMidway
    <2> QED BY <1>1, <1>4, <2>1
  <1>11. CASE pc = "write_last_good" /\ d = Put(root, "last_good", job.candidate)
    <2>1. job \in Jobs
      BY <1>0, <1>11 DEF TypeInv, Control, SavePcs
    <2>2. root["primary"].now # NoFile
      BY <1>0, <1>11, <2>1, KnownFacts, SnapshotFacts DEF Known, SaveKnows
    <2> QED BY <1>1, <1>5, <1>11, <2>2
  <1>12. CASE /\ pc = "finish_last_good"
              /\ d = Put(root, "last_good", root["journal"].now.candidate)
    <2>1. root["journal"].now \in Journals
      BY <1>0, <1>12 DEF TypeInv, Control
    <2>2. root["primary"].now # NoFile
      BY <1>0, <1>12, <2>1, SnapshotFacts DEF Known, LoadKnows
    <2> QED BY <1>1, <1>5, <1>12, <2>2
  <1>13. CASE pc = "restore_primary" /\ d = Put(root, "primary", root["last_good"].now)
    <2>1. root["primary"].now = NoFile /\ root["last_good"].now # NoFile
      BY <1>0, <1>13, SnapshotFacts DEF Known, LoadKnows, TypeInv, Control
    <2>2. d["primary"].now = root["last_good"].now
      BY <1>2, <1>3, <1>13
    <2>3. Found(d) = Found(root)
      BY <2>1, <2>2 DEF Found
    <2> QED BY <1>1, <1>13, <2>3
  <1> QED BY <1>6, <1>7, <1>8, <1>9, <1>10, <1>11, <1>12, <1>13 DEF RootMidway

\* What the disk loads as while an intent is being staged, settled or rolled
\* back.
LEMMA FoundWorking ==
    ASSUME Sound, pc \in {"stage", "settle", "rollback"}
    PROVE  /\ work \in Works /\ Working /\ work.todo \subseteq Entries(work.intent)
           /\ Found(root) = IF pc = "settle" THEN work.intent.candidate
                                             ELSE work.intent.base
  <1>0. /\ TypeInv /\ Known /\ HeldIsOnDisk /\ OwnIntentOnly /\ WorkIsOnDisk /\ BytesDone
    BY DEF Sound
  <1>1. work \in Works /\ Working
    BY <1>0 DEF TypeInv, Control, WorkIsOnDisk, SavePcs
  <1>2. work.todo \subseteq Entries(work.intent)
    BY <1>0 DEF BytesDone
  <1>3. CASE pc = "stage"
    <2>1. held \in Libraries /\ ~held.blocked /\ work.intent = Own
      BY <1>0, <1>3 DEF TypeInv, Control, SavePcs, OwnIntentOnly, WorkIsOnDisk
    <2>2. Found(root) = held.snapshot
      BY <1>0, <1>3, <2>1, FoundHeld DEF Holding
    <2> QED BY <1>1, <1>2, <1>3, <2>1, <2>2 DEF Own
  <1> QED BY <1>0, <1>1, <1>2, <1>3 DEF BytesDone

\* Half an operation on the attachments.
LEMMA AttsMidwayBytes ==
    ASSUME Sound, NEW e \in AttsMidway PROVE BytesMatch(root, e)
  <1>0. TypeInv /\ BytesMatch(root, atts) /\ IsDirectory(atts, AttachmentType)
    BY DEF Sound, TypeInv, TypeOK
  <1>1. CASE e = atts
    BY <1>0, <1>1
  <1>2. CASE e # atts
    <2> DEFINE k == work.kind
               i == work.intent
               x == Entry
               old == OldBytes(Entry)
               new == NewBytes(Entry)
    <2>1. PICK w \in AttachmentFiles \X (Bytes \cup {Torn, NoFile}) :
            /\ e = Put(atts, w[1], w[2])
            /\ pc \in {"stage", "settle", "rollback"} /\ work.todo # {}
            /\ \/ /\ pc = "stage" /\ work.kind # "rewrite"
                  /\ atts[Managed(x)].now = NoFile
                  /\ w \in {<<Managed(x), Torn>>, <<Managed(x), new>>}
               \/ pc = "stage" /\ work.kind = "rewrite" /\ w = <<Staged(x), new>>
               \/ pc = "settle" /\ work.kind \in Erasing /\ w = <<Managed(x), NoFile>>
               \/ /\ pc = "settle" /\ work.kind = "rewrite"
                  /\ atts[Staged(x)].now = new /\ w = <<Managed(x), new>>
               \/ /\ pc = "settle" /\ work.kind = "rewrite"
                  /\ atts[Managed(x)].now = new /\ w = <<Staged(x), NoFile>>
               \/ pc = "rollback" /\ work.kind = "rewrite" /\ w = <<Staged(x), NoFile>>
               \/ /\ pc = "rollback" /\ work.kind # "rewrite"
                  /\ atts[Managed(x)].now = new /\ w = <<Managed(x), NoFile>>
      BY <1>2 DEF AttsMidway
    <2>2. /\ work \in Works /\ Working /\ work.todo \subseteq Entries(i)
          /\ Found(root) = IF pc = "settle" THEN i.candidate ELSE i.base
      BY <2>1, FoundWorking
    <2>3. /\ k \in Intents /\ i \in IntentRecords /\ i # NoFile /\ root[k].now = i
          /\ \A l \in Intents \ {k} : root[l].now = NoFile
          /\ Proper(k, i)
          /\ \A a \in Attachments \ Entries(i) : Exact(atts, a, Found(root))
          /\ \A a \in Entries(i) : Underway(atts, k, i, a, Found(root))
      BY <2>2, WorkingIntent
    <2>4. x \in Entries(i) /\ x \in Attachments
      <3>0. work.todo \subseteq Attachments
        BY <2>2 DEF Entries
      <3>1. x \in work.todo
        BY <2>1, <3>0, EntryInTodo DEF Entry
      <3> QED BY <2>2, <3>1 DEF Entries
    <2>5. /\ i.base # i.candidate /\ old # new
          /\ old = i.base.bytes[x] /\ new = i.candidate.bytes[x]
          /\ k \in {"import", "bundle"} => old = NoFile /\ new \in Bytes
          /\ k \in Erasing => old \in Bytes /\ new = NoFile
          /\ k = "rewrite" => old \in Bytes /\ new \in Bytes
      BY <2>3, <2>4, IntentShape DEF OldBytes, NewBytes
    <2>6. /\ w[1] \in {Managed(x), Staged(x)}
          /\ w[1] \in AttachmentFiles
      BY <2>1
    <2>7. /\ e[w[1]].now = w[2]
          /\ \A q \in AttachmentFiles \ {w[1]} : e[q] = atts[q]
      <3>1. \A p \in AttachmentFiles : \A c :
              /\ Put(atts, p, c)[p].now = c
              /\ \A q \in AttachmentFiles \ {p} : Put(atts, p, c)[q] = atts[q]
        BY <1>0, PutAttachment
      <3> QED BY <2>1, <2>6, <3>1
    <2>8. \A a \in Attachments : a # x =>
            /\ e[Managed(a)] = atts[Managed(a)] /\ e[Staged(a)] = atts[Staged(a)]
      BY <2>4, <2>6, <2>7, PathFacts
    <2>9. /\ Managed(x) # Staged(x)
          /\ w[1] = Managed(x) => e[Managed(x)].now = w[2] /\ e[Staged(x)] = atts[Staged(x)]
          /\ w[1] = Staged(x) => e[Staged(x)].now = w[2] /\ e[Managed(x)] = atts[Managed(x)]
      BY <2>4, <2>7, PathFacts
    <2>10. Midst(k, pc # "settle", old, new, atts[Managed(x)].now, atts[Staged(x)].now)
      <3>1. (Found(root) = i.base) = (pc # "settle")
        BY <2>2, <2>5
      <3> QED BY <2>3, <2>4, <2>5, <3>1 DEF Underway
    <2>11. Midst(k, pc # "settle", old, new, e[Managed(x)].now, e[Staged(x)].now)
      <3> HIDE DEF old, new, x
      <3>1. k \in {"import", "bundle", "rewrite"} \cup Erasing
        BY <2>3 DEF Intents, Erasing
      <3>2. NoFile \notin Bytes
        BY DistinctAssumption
      <3>3. CASE pc = "stage"
        BY <2>1, <2>5, <2>9, <2>10, <3>1, <3>2, <3>3 DEF Midst, Erasing
      <3>4. CASE pc = "settle"
        BY <2>1, <2>5, <2>9, <2>10, <3>1, <3>2, <3>4 DEF Midst, Erasing
      <3>5. CASE pc = "rollback"
        BY <2>1, <2>5, <2>9, <2>10, <3>1, <3>2, <3>5 DEF Midst, Erasing
      <3> QED BY <2>1, <3>3, <3>4, <3>5
    <2>12. Underway(e, k, i, x, Found(root))
      <3>1. (Found(root) = i.base) = (pc # "settle")
        BY <2>2, <2>5
      <3> QED BY <2>5, <2>11, <3>1 DEF Underway
    <2>13. \A a \in Attachments \ Entries(i) : Exact(e, a, Found(root))
      BY <2>3, <2>4, <2>8 DEF Exact
    <2>14. \A a \in Entries(i) : Underway(e, k, i, a, Found(root))
      <3>1. Entries(i) \subseteq Attachments
        BY DEF Entries
      <3> QED BY <2>3, <2>8, <2>12, <3>1 DEF Underway
    <2> QED BY <2>3, <2>13, <2>14, BytesBeside
  <1> QED BY <1>1, <1>2

\* A failure that has come alone came alone before.
LEMMA OneKindBefore ==
    ASSUME TypeInv, [Next]_vars, OneKindOfFailure' PROVE OneKindOfFailure
  <1>1. \A k \in {"faults", "kills", "losses"} : spent[k] \in Nat /\ spent'[k] >= spent[k]
    BY SpentGrows DEF FailureKinds
  <1> QED BY <1>1 DEF OneKindOfFailure

\* What every step of a trusted disk starts from.
LEMMA SoundBefore ==
    ASSUME TypeInv, Recoverable, Settling, Keeping, [Next]_vars, Trusted', OneKindOfFailure'
    PROVE  Sound /\ Synced
  <1>1. Trusted /\ Readable /\ Slack = {} /\ OneKindOfFailure
    BY TrustedBefore, OneKindBefore
  <1> QED BY <1>1 DEF Sound, Recoverable, Settling, Keeping, Retrying

\* Every step leaves the attachments matching the library.
LEMMA BytesMatchStays ==
    ASSUME Sound, Synced, [Next]_vars, Trusted', OneKindOfFailure'
    PROVE  BytesMatch(root', atts')
  <1>1. PICK d, e : Shows(d, e)
    BY NextShows DEF Sound
  <1>2. BytesMatch(d, e)
    <2>1. CASE pc \in {"stage", "settle", "rollback"}
      <3>1. d = root
        BY <1>1, <2>1 DEF Shows, RootMidway
      <3> QED BY <1>1, <3>1, AttsMidwayBytes DEF Shows
    <2>2. CASE pc \notin {"stage", "settle", "rollback"}
      <3>1. e = atts
        BY <1>1, <2>2 DEF Shows, AttsMidway
      <3> QED BY <1>1, <3>1, RootMidwayBytes DEF Shows
    <2> QED BY <2>1, <2>2
  <1>3. /\ {"primary", "last_good"} \cup Intents \subseteq Unjournaled
        /\ \A f \in Unjournaled : root'[f].now = d[f].now
        /\ \A p \in AttachmentFiles : atts'[p].now = e[p].now
    BY <1>1 DEF Shows, Unjournaled, RootFiles, Intents
  <1>4. Found(root') = Found(d)
    BY <1>3 DEF Found
  <1> QED BY <1>2, <1>3, <1>4, SameBytes

-----------------------------------------------------------------------------
(* What the call in progress has done to the entries of its intent         *)

\* The visible outcome of a step on one file of the attachments.
LEMMA AttachmentOutcome ==
    ASSUME TypeInv, NEW p \in AttachmentFiles, NEW c
    PROVE  /\ \A r \in WriteVerified(atts, p, c) :
                r.ok => /\ r.dir[p].now = c
                        /\ \A q \in AttachmentFiles \ {p} : r.dir[q].now = atts[q].now
           /\ \A r \in RemoveFileDurable(atts, p) :
                r.ok => /\ r.dir[p].now = NoFile
                        /\ \A q \in AttachmentFiles \ {p} : r.dir[q].now = atts[q].now
  <1>0. IsDirectory(atts, AttachmentType)
    BY DEF TypeInv, TypeOK
  <1>1. \A x : /\ Sync(Put(atts, p, x))[p].now = x
               /\ \A q \in AttachmentFiles \ {p} : Sync(Put(atts, p, x))[q].now = atts[q].now
    <2>1. DOMAIN atts = AttachmentFiles
      BY <1>0, AttachmentDomain DEF IsDirectory
    <2> QED BY <2>1 DEF Sync, Put, OnDisk
  <1>2. ASSUME NEW r \in WriteVerified(atts, p, c), r.ok
        PROVE  /\ r.dir[p].now = c
               /\ \A q \in AttachmentFiles \ {p} : r.dir[q].now = atts[q].now
    BY <1>1, <1>2, WriteVerifiedOutcome
  <1>3. ASSUME NEW r \in RemoveFileDurable(atts, p), r.ok
        PROVE  /\ r.dir[p].now = NoFile
               /\ \A q \in AttachmentFiles \ {p} : r.dir[q].now = atts[q].now
    <2>1. CASE atts[p].now = NoFile
      <3>1. r.dir = atts
        BY <2>1, ResultFields DEF RemoveFileDurable
      <3> QED BY <2>1, <3>1
    <2>2. CASE atts[p].now # NoFile
      <3>1. r.dir = Sync(Put(atts, p, NoFile))
        BY <1>3, <2>2, ResultFields DEF RemoveFileDurable
      <3> QED BY <1>1, <3>1
    <2> QED BY <2>1, <2>2
  <1> QED BY <1>2, <1>3

\* A file that is created leaves the others alone.
LEMMA NewOutcome ==
    ASSUME TypeInv, NEW p \in AttachmentFiles, NEW c, NEW r \in WriteNew(atts, p, c),
           NEW q \in AttachmentFiles \ {p}
    PROVE  r.dir[q].now = atts[q].now
  <1>1. DOMAIN atts = AttachmentFiles
    BY AttachmentDomain DEF TypeInv, TypeOK, IsDirectory
  <1>2. \A x : /\ Put(atts, p, x)[q] = atts[q] /\ DOMAIN Put(atts, p, x) = AttachmentFiles
               /\ Put(Put(atts, p, x), p, NoFile)[q] = atts[q]
               /\ Sync(Put(atts, p, x))[q].now = atts[q].now
    BY <1>1 DEF Sync, Put, OnDisk
  <1>3. \/ r.dir \in {atts, Put(atts, p, c), Put(atts, p, Torn), Sync(Put(atts, p, c))}
        \/ \E x \in {c, Torn} : r.dir = Put(Put(atts, p, x), p, NoFile)
    BY WriteNewOutcome
  <1> QED BY <1>2, <1>3

\* The steps at which nothing is claimed.
LEMMA NothingDone ==
    ASSUME pc' \notin {"stage", "preflight", "write_journal", "write_primary", "settle",
                       "rollback", "remove_intent"}
    PROVE  BytesDone'
  BY DEF BytesDone

\* The entry at hand.
LEMMA EntryFacts ==
    ASSUME Sound, pc \in {"stage", "settle", "rollback"}, work.todo # {}
    PROVE  LET k == work.kind
               i == work.intent
               old == OldBytes(Entry)
               new == NewBytes(Entry)
           IN /\ work \in Works /\ Working /\ k \in Intents
              /\ Entry \in work.todo /\ work.todo \subseteq Entries(i) /\ Entry \in Attachments
              /\ Entries(i) \subseteq Attachments
              /\ k \in {"import", "bundle"} => old = NoFile /\ new \in Bytes
              /\ k \in Erasing => old \in Bytes /\ new = NoFile
              /\ k = "rewrite" => old \in Bytes /\ new \in Bytes
              /\ Midst(k, pc # "settle", old, new,
                       atts[Managed(Entry)].now, atts[Staged(Entry)].now)
              /\ Found(root).bytes[Entry] = IF pc = "settle" THEN new ELSE old
  <1> DEFINE k == work.kind
             i == work.intent
             x == Entry
  <1>1. /\ work \in Works /\ Working /\ work.todo \subseteq Entries(i)
        /\ Found(root) = IF pc = "settle" THEN i.candidate ELSE i.base
    BY FoundWorking
  <1>2. /\ k \in Intents /\ i \in IntentRecords /\ Proper(k, i)
        /\ \A a \in Entries(i) : Underway(atts, k, i, a, Found(root))
    BY <1>1, WorkingIntent
  <1>3. Entries(i) \subseteq Attachments
    BY DEF Entries
  <1>4. x \in work.todo
    BY <1>1, <1>3, EntryInTodo DEF Entry
  <1>5. /\ i.base # i.candidate
        /\ OldBytes(x) = i.base.bytes[x] /\ NewBytes(x) = i.candidate.bytes[x]
        /\ k \in {"import", "bundle"} => OldBytes(x) = NoFile /\ NewBytes(x) \in Bytes
        /\ k \in Erasing => OldBytes(x) \in Bytes /\ NewBytes(x) = NoFile
        /\ k = "rewrite" => OldBytes(x) \in Bytes /\ NewBytes(x) \in Bytes
    BY <1>1, <1>2, <1>4, IntentShape DEF OldBytes, NewBytes
  <1>6. (Found(root) = i.base) = (pc # "settle")
    BY <1>1, <1>5
  <1>7. Midst(k, pc # "settle", OldBytes(x), NewBytes(x),
              atts[Managed(x)].now, atts[Staged(x)].now)
    BY <1>1, <1>2, <1>4, <1>5, <1>6 DEF Underway
  <1>8. Found(root).bytes[x] = IF pc = "settle" THEN NewBytes(x) ELSE OldBytes(x)
    BY <1>1, <1>5
  <1> QED BY <1>1, <1>2, <1>3, <1>4, <1>5, <1>7, <1>8

\* What the end of the work on an entry changes.
LEMMA EntryDoneFields ==
    ASSUME work \in Works, EntryDone
    PROVE  /\ work'.kind = work.kind /\ work'.intent = work.intent
           /\ work'.todo = work.todo \ {Entry}
  BY DEF EntryDone, Works

\* An entry that is staged is ready.
LEMMA EntryStaged ==
    ASSUME Sound, pc = "stage", work.todo # {}, EntryDone, Continue("stage"),
           NEW p \in {Managed(Entry), Staged(Entry)},
           \A q \in AttachmentFiles \ {p} : atts'[q].now = atts[q].now,
           Ready(atts', work.kind, Entry, NewBytes(Entry))
    PROVE  BytesDone'
  <1> DEFINE i == work.intent
             x == Entry
  <1>1. /\ work \in Works /\ x \in Attachments /\ work.todo \subseteq Entries(i)
        /\ Entries(i) \subseteq Attachments
    BY EntryFacts
  <1>2. /\ work'.kind = work.kind /\ work'.intent = i /\ work'.todo = work.todo \ {x}
        /\ pc' = "stage"
    BY <1>1, EntryDoneFields DEF Continue
  <1>3. \A a \in Entries(i) \ work.todo : Ready(atts, work.kind, a, i.candidate.bytes[a])
    BY DEF Sound, BytesDone, NewBytes
  <1>4. ASSUME NEW a \in Entries(i) \ work'.todo
        PROVE  Ready(atts', work.kind, a, i.candidate.bytes[a])
    <2>1. CASE a = x
      BY <2>1 DEF NewBytes
    <2>2. CASE a # x
      <3>1. a \in Entries(i) \ work.todo /\ a \in Attachments
        BY <1>1, <1>2, <1>4, <2>2
      <3>2. /\ atts'[Managed(a)].now = atts[Managed(a)].now
            /\ atts'[Staged(a)].now = atts[Staged(a)].now
        BY <1>1, <2>2, <3>1, PathFacts
      <3> QED BY <1>3, <3>1, <3>2 DEF Ready
    <2> QED BY <2>1, <2>2
  <1>5. work'.todo \subseteq Entries(work'.intent)
    BY <1>1, <1>2
  <1>6. \A a \in Entries(work'.intent) \ work'.todo :
          Ready(atts', work'.kind, a, work'.intent.candidate.bytes[a])
    BY <1>2, <1>4
  <1> QED BY <1>2, <1>5, <1>6 DEF BytesDone, NewBytes

\* An entry that is settled or rolled back is exact.
LEMMA EntrySettled ==
    ASSUME Sound, pc \in {"settle", "rollback"}, work.todo # {}, EntryDone, Continue(pc),
           UNCHANGED root, NEW p \in {Managed(Entry), Staged(Entry)},
           \A q \in AttachmentFiles \ {p} : atts'[q].now = atts[q].now,
           Exact(atts', Entry, Found(root))
    PROVE  BytesDone'
  <1> DEFINE i == work.intent
             x == Entry
             s == Found(root)
  <1>1. /\ work \in Works /\ x \in Attachments /\ work.todo \subseteq Entries(i)
        /\ Entries(i) \subseteq Attachments
    BY EntryFacts
  <1>2. /\ work'.kind = work.kind /\ work'.intent = i /\ work'.todo = work.todo \ {x}
        /\ pc' = pc /\ Found(root') = s
    BY <1>1, EntryDoneFields DEF Continue, Found
  <1>3. /\ \A a \in Entries(i) \ work.todo : Exact(atts, a, s)
        /\ s = IF pc = "settle" THEN i.candidate ELSE i.base
    BY DEF Sound, BytesDone
  <1> HIDE DEF s
  <1>4. ASSUME NEW a \in Entries(i) \ work'.todo PROVE Exact(atts', a, s)
    <2>1. CASE a = x
      BY <2>1 DEF s
    <2>2. CASE a # x
      <3>1. a \in Entries(i) \ work.todo /\ a \in Attachments
        BY <1>1, <1>2, <1>4, <2>2
      <3>2. /\ atts'[Managed(a)].now = atts[Managed(a)].now
            /\ atts'[Staged(a)].now = atts[Staged(a)].now
        BY <1>1, <2>2, <3>1, PathFacts
      <3> QED BY <1>3, <3>1, <3>2 DEF Exact
    <2> QED BY <2>1, <2>2
  <1>5. work'.todo \subseteq Entries(work'.intent)
    BY <1>1, <1>2
  <1>6. \A a \in Entries(work'.intent) \ work'.todo : Exact(atts', a, Found(root'))
    BY <1>2, <1>4
  <1> QED BY <1>2, <1>3, <1>5, <1>6 DEF BytesDone

\* Giving up, and ending the work with a notice, claim nothing.
LEMMA EndsNothingDone ==
    ASSUME Fail \/ LoadFails \/ \E b : Noting(b, "return") PROVE BytesDone'
  <1>1. pc' \in {"idle", "return"}
    BY DEF Fail, LoadFails, Leave, Noting, Continue
  <1> QED BY <1>1, NothingDone

\* The staging of one entry.
LEMMA StageEntryBytes ==
    ASSUME Sound, StageNew \/ StageRewrite PROVE BytesDone'
  <1>0. pc = "stage" /\ work.todo # {} /\ TypeInv
    BY DEF StageNew, StageRewrite, Sound
  <1>1. /\ Entry \in Attachments
        /\ Managed(Entry) \in AttachmentFiles /\ Staged(Entry) \in AttachmentFiles
    <2>1. Entry \in Attachments
      BY <1>0, EntryFacts
    <2> QED BY <2>1, PathFacts
  <1>2. CASE StageNew
    <2> DEFINE p == Managed(Entry)
    <2>0. work.kind # "rewrite"
      BY <1>2 DEF StageNew
    <2>1. CASE Fail
      BY <2>1, EndsNothingDone
    <2>2. CASE atts[p].now = NewBytes(Entry) /\ EntryDone /\ Continue("stage") /\ UNCHANGED atts
      <3>1. Ready(atts', work.kind, Entry, NewBytes(Entry))
        BY <2>0, <2>2 DEF Ready
      <3> QED BY <1>0, <2>2, <3>1, EntryStaged
    <2>3. ASSUME NEW r \in WriteNew(atts, p, NewBytes(Entry)), atts' = r.dir,
                 r.dir[p].now = NewBytes(Entry), EntryDone, Continue("stage")
          PROVE  BytesDone'
      <3>1. Ready(atts', work.kind, Entry, NewBytes(Entry))
        BY <2>0, <2>3 DEF Ready
      <3>2. \A q \in AttachmentFiles \ {p} : atts'[q].now = atts[q].now
        BY <1>0, <1>1, <2>3, NewOutcome
      <3> QED BY <1>0, <2>3, <3>1, <3>2, EntryStaged
    <2>4. \/ Fail
          \/ atts[p].now = NewBytes(Entry) /\ EntryDone /\ Continue("stage") /\ UNCHANGED atts
          \/ \E r \in WriteNew(atts, p, NewBytes(Entry)) :
               /\ atts' = r.dir
               /\ IF r.dir[p].now = NewBytes(Entry)
                  THEN EntryDone /\ Continue("stage") ELSE Fail
      BY <1>2, Zenon DEF StageNew
    <2> QED BY <2>1, <2>2, <2>3, <2>4
  <1>3. CASE StageRewrite
    <2> DEFINE p == Staged(Entry)
    <2>1. CASE Fail
      BY <2>1, EndsNothingDone
    <2>2. ASSUME NEW r \in WriteVerified(atts, p, NewBytes(Entry)), atts' = r.dir, r.ok,
                 EntryDone, Continue("stage")
          PROVE  BytesDone'
      <3>1. /\ atts'[p].now = NewBytes(Entry)
            /\ \A q \in AttachmentFiles \ {p} : atts'[q].now = atts[q].now
        BY <1>0, <1>1, <2>2, AttachmentOutcome
      <3>2. work.kind = "rewrite"
        BY <1>3 DEF StageRewrite
      <3>3. Ready(atts', work.kind, Entry, NewBytes(Entry))
        BY <3>1, <3>2 DEF Ready
      <3> QED BY <1>0, <2>2, <3>1, <3>3, EntryStaged
    <2>3. \/ Fail
          \/ \E r \in WriteVerified(atts, p, NewBytes(Entry)) :
               atts' = r.dir /\ r.ok /\ EntryDone /\ Continue("stage")
      BY <1>3, Zenon DEF StageRewrite
    <2> QED BY <2>1, <2>2, <2>3
  <1> QED BY <1>2, <1>3

\* The erasing of one entry.
LEMMA EraseBytes ==
    ASSUME Sound, Erase PROVE BytesDone'
  <1> DEFINE p == Managed(Entry)
  <1>0. pc = "settle" /\ work.todo # {} /\ TypeInv /\ UNCHANGED root /\ work.kind \in Erasing
    BY DEF Erase, Sound
  <1>1. /\ p \in AttachmentFiles /\ Staged(Entry) \in AttachmentFiles
        /\ p # Staged(Entry)
        /\ atts[Staged(Entry)].now = NoFile /\ Found(root).bytes[Entry] = NoFile
    <2>1. /\ Entry \in Attachments
          /\ Midst(work.kind, FALSE, OldBytes(Entry), NewBytes(Entry), atts[p].now,
                   atts[Staged(Entry)].now)
          /\ Found(root).bytes[Entry] = NewBytes(Entry) /\ NewBytes(Entry) = NoFile
      BY <1>0, EntryFacts
    <2> QED BY <1>0, <2>1, PathFacts DEF Midst, Erasing
  <1>2. CASE Noting(TRUE, "return")
    BY <1>2, EndsNothingDone
  <1>3. CASE atts[p].now = NoFile /\ EntryDone /\ Continue("settle") /\ UNCHANGED atts
    <2>1. Exact(atts', Entry, Found(root))
      BY <1>1, <1>3 DEF Exact
    <2> QED BY <1>0, <1>3, <2>1, EntrySettled
  <1>4. ASSUME NEW r \in RemoveFileDurable(atts, p), atts' = r.dir, r.ok,
               EntryDone, Continue("settle")
        PROVE  BytesDone'
    <2>1. /\ atts'[p].now = NoFile
          /\ \A q \in AttachmentFiles \ {p} : atts'[q].now = atts[q].now
      BY <1>0, <1>1, <1>4, AttachmentOutcome
    <2>2. Exact(atts', Entry, Found(root))
      BY <1>1, <2>1 DEF Exact
    <2> QED BY <1>0, <1>4, <2>1, <2>2, EntrySettled
  <1>5. \/ Noting(TRUE, "return")
        \/ atts[p].now = NoFile /\ EntryDone /\ Continue("settle") /\ UNCHANGED atts
        \/ \E r \in RemoveFileDurable(atts, p) :
             atts' = r.dir /\ r.ok /\ EntryDone /\ Continue("settle")
    BY Zenon DEF Erase
  <1> QED BY <1>2, <1>3, <1>4, <1>5

\* The two halves of the finish of a rewrite.
LEMMA RewriteBytes ==
    ASSUME Sound, ReplaceManaged \/ RemoveStaged PROVE BytesDone'
  <1> DEFINE m == Managed(Entry)
             g == Staged(Entry)
  <1>0. /\ pc = "settle" /\ work.todo # {} /\ TypeInv /\ UNCHANGED root
        /\ work.kind = "rewrite" /\ BytesDone
    BY DEF ReplaceManaged, RemoveStaged, Sound
  <1>1. /\ Entry \in Attachments /\ m \in AttachmentFiles /\ g \in AttachmentFiles /\ m # g
        /\ Found(root).bytes[Entry] = NewBytes(Entry)
        /\ Entry \in work.todo /\ Entries(work.intent) \subseteq Attachments
    <2>1. /\ Entry \in Attachments /\ Found(root).bytes[Entry] = NewBytes(Entry)
          /\ Entry \in work.todo /\ Entries(work.intent) \subseteq Attachments
      BY <1>0, EntryFacts
    <2> QED BY <2>1, PathFacts
  <1>2. CASE Noting(TRUE, "return")
    BY <1>2, EndsNothingDone
  <1>3. CASE ReplaceManaged
    <2>1. ASSUME NEW r \in WriteVerified(atts, m, NewBytes(Entry)), atts' = r.dir, r.ok,
                 Continue("settle"), UNCHANGED work
          PROVE  BytesDone'
      <3>1. \A q \in AttachmentFiles \ {m} : atts'[q].now = atts[q].now
        BY <1>0, <1>1, <2>1, AttachmentOutcome
      <3>2. ASSUME NEW a \in Entries(work.intent) \ work.todo
            PROVE  Exact(atts', a, Found(root))
        <4>1. a \in Attachments /\ a # Entry /\ Exact(atts, a, Found(root))
          BY <1>0, <1>1, <3>2 DEF BytesDone
        <4>2. /\ atts'[Managed(a)].now = atts[Managed(a)].now
              /\ atts'[Staged(a)].now = atts[Staged(a)].now
          BY <1>1, <3>1, <4>1, PathFacts
        <4> QED BY <4>1, <4>2 DEF Exact
      <3>3. Found(root') = Found(root) /\ pc' = "settle"
        BY <1>0, <2>1 DEF Found, Continue
      <3> QED BY <1>0, <2>1, <3>2, <3>3 DEF BytesDone
    <2>2. \/ Noting(TRUE, "return")
          \/ \E r \in WriteVerified(atts, m, NewBytes(Entry)) :
               atts' = r.dir /\ r.ok /\ Continue("settle") /\ UNCHANGED work
      BY <1>3, Zenon DEF ReplaceManaged
    <2> QED BY <1>2, <2>1, <2>2
  <1>4. CASE RemoveStaged
    <2>1. ASSUME NEW r \in RemoveFileDurable(atts, g), atts' = r.dir, r.ok,
                 EntryDone, Continue("settle")
          PROVE  BytesDone'
      <3>1. /\ atts'[g].now = NoFile
            /\ \A q \in AttachmentFiles \ {g} : atts'[q].now = atts[q].now
        BY <1>0, <1>1, <2>1, AttachmentOutcome
      <3>2. atts[m].now = NewBytes(Entry)
        BY <1>4 DEF RemoveStaged
      <3>3. Exact(atts', Entry, Found(root))
        BY <1>1, <3>1, <3>2 DEF Exact
      <3> QED BY <1>0, <2>1, <3>1, <3>3, EntrySettled
    <2>2. \/ Noting(TRUE, "return")
          \/ \E r \in RemoveFileDurable(atts, g) :
               atts' = r.dir /\ r.ok /\ EntryDone /\ Continue("settle")
      BY <1>4, Zenon DEF RemoveStaged
    <2> QED BY <1>2, <2>1, <2>2
  <1> QED BY <1>3, <1>4

\* The check of an accepted import or bundle.
LEMMA VerifyStagedBytes ==
    ASSUME Sound, VerifyStaged PROVE BytesDone'
  <1>0. /\ pc = "settle" /\ work.todo # {} /\ work.kind \in {"import", "bundle"}
        /\ UNCHANGED <<root, atts>> /\ BytesDone
    BY DEF VerifyStaged, Sound
  <1>1. /\ work \in Works /\ Working /\ Found(root) = work.intent.candidate
        /\ Entries(work.intent) \subseteq Attachments
    BY <1>0, FoundWorking DEF Entries
  <1>2. CASE Noting(TRUE, "return")
    BY <1>2, EndsNothingDone
  <1>3. CASE /\ \A a \in work.todo : atts[Managed(a)].now = NewBytes(a)
             /\ work' = [work EXCEPT !.todo = {}] /\ Continue("settle")
    <2>1. work'.intent = work.intent /\ work'.todo = {} /\ pc' = "settle"
      BY <1>1, <1>3 DEF Works, Continue
    <2>2. ASSUME NEW a \in Entries(work.intent) PROVE Exact(atts, a, Found(root))
      <3>1. CASE a \in work.todo
        <4>1. atts[Managed(a)].now = Found(root).bytes[a]
          BY <1>1, <1>3, <3>1 DEF NewBytes
        <4>2. Underway(atts, work.kind, work.intent, a, Found(root))
              /\ work.intent.base # work.intent.candidate
          BY <1>1, <2>2, WorkingIntent, IntentShape
        <4>3. atts[Staged(a)].now = NoFile
          BY <1>0, <1>1, <4>2 DEF Underway, Midst, Erasing
        <4> QED BY <4>1, <4>3 DEF Exact
      <3>2. CASE a \notin work.todo
        BY <1>0, <2>2, <3>2 DEF BytesDone
      <3> QED BY <3>1, <3>2
    <2>3. \A a : Exact(atts', a, Found(root')) <=> Exact(atts, a, Found(root))
      BY <1>0
    <2> QED BY <1>0, <1>1, <2>1, <2>2, <2>3 DEF BytesDone
  <1> QED BY <1>2, <1>3 DEF VerifyStaged

\* The rolling back of one entry.
LEMMA RollBackBytes ==
    ASSUME Sound, RollBack PROVE BytesDone'
  <1> DEFINE m == Managed(Entry)
             g == Staged(Entry)
             p == IF work.kind = "rewrite" THEN g ELSE m
  <1>0. pc = "rollback" /\ work.todo # {} /\ TypeInv /\ UNCHANGED root
    BY DEF RollBack, Sound
  <1>1. /\ Entry \in Attachments /\ work.kind \in Intents
        /\ Found(root).bytes[Entry] = OldBytes(Entry)
        /\ work.kind \in {"import", "bundle"} => OldBytes(Entry) = NoFile
        /\ work.kind \in Erasing => OldBytes(Entry) \in Bytes /\ NewBytes(Entry) = NoFile
        /\ Midst(work.kind, TRUE, OldBytes(Entry), NewBytes(Entry), atts[m].now, atts[g].now)
    BY <1>0, EntryFacts
  <1>2. /\ m \in AttachmentFiles /\ g \in AttachmentFiles /\ m # g
        /\ p \in AttachmentFiles /\ p \in {m, g}
    BY <1>1, PathFacts
  <1>3. CASE Noting(TRUE, "return")
    BY <1>3, EndsNothingDone
  <1>4. ASSUME ~(work.kind # "rewrite" /\ atts[p].now \notin {NoFile, NewBytes(Entry)}),
               NEW r \in RemoveFileDurable(atts, p), atts' = r.dir, r.ok,
               EntryDone, Continue("rollback")
        PROVE  BytesDone'
    <2>1. /\ atts'[p].now = NoFile
          /\ \A q \in AttachmentFiles \ {p} : atts'[q].now = atts[q].now
      BY <1>0, <1>2, <1>4, AttachmentOutcome
    <2>2. CASE work.kind = "rewrite"
      <3>1. p = g /\ atts'[g].now = NoFile /\ atts'[m].now = atts[m].now
        BY <1>2, <2>1, <2>2
      <3>2. atts[m].now = OldBytes(Entry)
        BY <1>1, <2>2 DEF Midst, Erasing
      <3>3. Exact(atts', Entry, Found(root))
        BY <1>1, <3>1, <3>2 DEF Exact
      <3> QED BY <1>0, <1>2, <1>4, <2>1, <3>3, EntrySettled
    <2>3. CASE work.kind # "rewrite"
      <3>1. p = m /\ atts'[m].now = NoFile /\ atts'[g].now = atts[g].now
        BY <1>2, <2>1, <2>3
      <3>2. work.kind \notin Erasing
        BY <1>1, <1>4, <2>3, DistinctAssumption DEF Midst, Erasing
      <3>3. atts[g].now = NoFile /\ OldBytes(Entry) = NoFile
        BY <1>1, <2>3, <3>2 DEF Midst, Erasing, Intents
      <3>4. Exact(atts', Entry, Found(root))
        BY <1>1, <3>1, <3>3 DEF Exact
      <3> QED BY <1>0, <1>2, <1>4, <2>1, <3>4, EntrySettled
    <2> QED BY <2>2, <2>3
  <1>5. \/ Noting(TRUE, "return")
        \/ /\ ~(work.kind # "rewrite" /\ atts[p].now \notin {NoFile, NewBytes(Entry)})
           /\ \E r \in RemoveFileDurable(atts, p) :
                atts' = r.dir /\ r.ok /\ EntryDone /\ Continue("rollback")
    BY Zenon DEF RollBack
  <1> QED BY <1>3, <1>4, <1>5

\* Every entry is settled.
LEMMA SettledBytes ==
    ASSUME Sound, Settled PROVE BytesDone'
  <1>0. /\ pc \in {"settle", "rollback"} /\ work.todo = {} /\ pc' = "remove_intent"
        /\ UNCHANGED <<root, atts>> /\ BytesDone
    BY DEF Settled, Sound, Continue
  <1>1. work \in Works /\ Working
    BY <1>0, FoundWorking
  <1>2. \A a \in Attachments \ Entries(work.intent) : Exact(atts, a, Found(root))
    BY <1>1, WorkingIntent
  <1>3. \A a \in Entries(work.intent) : Exact(atts, a, Found(root))
    BY <1>0 DEF BytesDone
  <1>4. \A a \in Attachments : Exact(atts', a, Found(root'))
    BY <1>0, <1>2, <1>3
  <1> QED BY <1>0, <1>4 DEF BytesDone

\* The steps of a save that leave the attachments alone, up to the primary.
LEMMA SaveBytes ==
    ASSUME Sound, [Next]_vars,
           Begin \/ WriteIntent \/ StageDone \/ Preflight \/ WriteJournal
    PROVE  BytesDone'
  <1>0. /\ TypeInv /\ WorkIsOnDisk /\ BytesDone /\ UNCHANGED atts
    BY DEF Sound, Begin, WriteIntent, StageDone, Preflight, WriteJournal
  <1>1. CASE Fail
    BY <1>1, EndsNothingDone
  <1>2. CASE Begin /\ ~Fail
    <2>1. (job.op = "save" /\ Continue("preflight")) \/ Continue("write_intent")
      BY <1>2 DEF Begin
    <2> QED BY <2>1 DEF Continue, BytesDone, Staging
  <1>3. CASE WriteIntent /\ ~Fail
    <2>1. /\ Continue(IF work.kind \in Staging THEN "stage" ELSE "preflight")
          /\ UNCHANGED work /\ pc = "write_intent"
      BY <1>3 DEF WriteIntent
    <2>2. work.kind = job.op /\ work.todo = Entries(work.intent)
      BY <1>0, <2>1 DEF WorkIsOnDisk
    <2>3. pc' = (IF work.kind \in Staging THEN "stage" ELSE "preflight") /\ job' = job
      BY <2>1 DEF Continue
    <2> QED BY <2>1, <2>2, <2>3 DEF BytesDone
  <1>4. CASE StageDone
    <2>1. /\ pc = "stage" /\ work.todo = {} /\ pc' = "preflight"
          /\ UNCHANGED <<work, job>>
      BY <1>4 DEF StageDone, Continue
    <2>2. \A a \in Entries(work.intent) : Ready(atts, work.kind, a, NewBytes(a))
      BY <1>0, <2>1 DEF BytesDone
    <2> QED BY <1>0, <2>1, <2>2 DEF BytesDone, NewBytes
  <1>5. CASE Preflight /\ ~Fail
    <2>1. /\ pc = "preflight" /\ pc' = "write_journal" /\ UNCHANGED <<work, job>>
      BY <1>5 DEF Preflight, Continue
    <2> QED BY <1>0, <2>1 DEF BytesDone, NewBytes
  <1>6. CASE WriteJournal /\ ~Fail
    <2>1. /\ pc = "write_journal" /\ pc' = "write_primary" /\ UNCHANGED <<work, job>>
      BY <1>6 DEF WriteJournal, Continue
    <2> QED BY <1>0, <2>1 DEF BytesDone, NewBytes
  <1> QED BY <1>1, <1>2, <1>3, <1>4, <1>5, <1>6

\* The end of the save proper: what is left of an intent is still to be settled.
LEMMA RemoveJournalBytes ==
    ASSUME Sound, RemoveJournal PROVE BytesDone'
  <1>0. /\ pc = "remove_journal" /\ UNCHANGED atts /\ TypeInv /\ Known /\ WorkIsOnDisk
        /\ IsDirectory(root, RootType) /\ job \in Jobs
    BY DEF RemoveJournal, Sound, TypeInv, TypeOK, Control, SavePcs
  <1>1. PICK r \in RemoveFile(root, "journal") :
          /\ root' = r.dir /\ Continue(IF r.ok THEN AfterCommit ELSE "return")
          /\ work' = IF r.ok /\ job.op # "save"
                     THEN [work EXCEPT !.todo = Entries(work.intent)] ELSE work
    BY Zenon DEF RemoveJournal
  <1>2. CASE ~r.ok \/ job.op = "save"
    <2>1. pc' = "return"
      BY <1>1, <1>2 DEF Continue, AfterCommit
    <2> QED BY <2>1, NothingDone
  <1>3. CASE r.ok /\ job.op # "save"
    <2>1. Working /\ work.kind = job.op /\ work.intent = Own /\ work \in Works
      BY <1>0, <1>3 DEF WorkIsOnDisk, SavePcs, TypeInv, Control
    <2>2. /\ work'.kind = work.kind /\ work'.intent = work.intent
          /\ work'.todo = Entries(work.intent)
      BY <1>1, <1>3, <2>1 DEF Works
    <2>3. job.candidate # NoFile /\ root["primary"].now = job.candidate
      BY <1>0, KnownFacts, SnapshotFacts DEF Known, SaveKnows
    <2>4. root'["primary"] = root["primary"]
      <3>1. "primary" \in Unjournaled
        BY DEF Unjournaled, RootFiles
      <3> QED BY <1>0, <1>1, <3>1, UnjournaledFiles
    <2>5. Found(root) = work.intent.candidate /\ Found(root') = work.intent.candidate
      BY <2>1, <2>3, <2>4 DEF Found, Own
    <2>6. pc' = AfterCommit /\ job' = job
      BY <1>1, <1>3 DEF Continue
    <2>7. CASE job.op \in {"import", "bundle"}
      <3>1. pc' = "remove_intent"
        BY <2>6, <2>7 DEF AfterCommit
      <3>2. ASSUME NEW a \in Attachments PROVE Exact(atts, a, Found(root))
        <4>1. CASE a \notin Entries(work.intent)
          BY <2>1, <4>1, WorkingIntent
        <4>2. CASE a \in Entries(work.intent)
          <5>1. Underway(atts, work.kind, work.intent, a, Found(root))
                /\ work.intent.base # work.intent.candidate
            BY <2>1, <4>2, WorkingIntent, IntentShape
          <5> QED BY <2>1, <2>5, <2>7, <5>1 DEF Underway, Midst, Erasing, Exact
        <4> QED BY <4>1, <4>2
      <3>3. \A a \in Attachments : Exact(atts', a, Found(root'))
        BY <1>0, <2>5, <3>2
      <3> QED BY <3>1, <3>3 DEF BytesDone
    <2>8. CASE job.op \notin {"import", "bundle"}
      <3>1. pc' = "settle"
        BY <1>3, <2>6, <2>8 DEF AfterCommit
      <3> QED BY <2>2, <2>5, <3>1 DEF BytesDone
    <2> QED BY <2>7, <2>8
  <1>4. r.ok \in BOOLEAN
    BY RemoveFileOutcome
  <1> QED BY <1>2, <1>3, <1>4

\* What a load begins to settle or to roll back.
LEMMA RecoverIntentBytes ==
    ASSUME Sound, RecoverIntent PROVE BytesDone'
  <1>0. /\ pc = "recover_intent" /\ UNCHANGED <<root, atts>> /\ TypeInv /\ Known
        /\ lib \in Libraries /\ BytesMatch(root, atts) /\ IntentsAreProper
        /\ Authority(root) /\ IsDirectory(root, RootType) /\ call # "commit"
    BY DEF RecoverIntent, Sound, TypeInv, TypeOK, Control, LoadPcs
  <1>1. /\ Decoded(lib) /\ lib.baseline = root["primary"].now
        /\ lib.baseline = NoFile => root["last_good"].now = NoFile
    BY <1>0 DEF Known, LoadKnows
  <1>2. Found(root) = lib.snapshot /\ Found(root') = lib.snapshot
    BY <1>0, <1>1, FoundLoaded DEF Found
  <1>3. CASE \E b : Noting(b, "return")
    BY <1>3, EndsNothingDone
  <1>4. ASSUME NEW k \in Present, Present = {k}, root[k].now # Corrupt,
               NEW i, i = root[k].now,
               NEW entries, NEW l,
               work' = [kind |-> k, intent |-> i, todo |-> entries], Continue(l),
               \/ /\ lib.snapshot = i.base /\ l = "rollback"
                  /\ entries = IF k \in Staging THEN Entries(i) ELSE {}
               \/ /\ lib.snapshot = i.candidate \/ Descends(k, i, lib.snapshot)
                  /\ l = "settle" /\ entries = Entries(i)
        PROVE  BytesDone'
    <2>1. /\ k \in Intents /\ i # NoFile /\ i \in Images(root[k])
          /\ \A x \in Intents \ {k} : root[x].now = NoFile
      BY <1>4 DEF Present, Images
    <2>2. i \in IntentRecords /\ Proper(k, i)
      BY <1>0, <1>4, <2>1 DEF Authority, IntentsAreProper
    <2>3. lib.snapshot \in {i.base, i.candidate}
      <3>1. root["primary"].now \in P(root)
        BY <1>0, KnownFacts
      <3>2. root["primary"].now # NoFile => root["primary"].now \in Findable(root)
        BY <3>1 DEF Findable
      <3> QED BY <1>0, <1>1, <2>1, <3>1, <3>2 DEF Authority, Decoded
    <2>4. /\ i.base # i.candidate /\ i.candidate.revision = i.base.revision + 1
          /\ i.base.revision \in Nat
          /\ \A a \in Entries(i) : k \in Erasing => i.base.bytes[a] # NoFile
      BY <2>1, <2>2, IntentShape, DistinctAssumption
    <2>5. ~Descends(k, i, lib.snapshot)
      <3> SUFFICES ASSUME lib.snapshot.revision > i.candidate.revision PROVE FALSE
        BY DEF Descends
      <3> QED BY <2>3, <2>4
    <2>6. work'.kind = k /\ work'.intent = i /\ work'.todo = entries /\ pc' = l
      BY <1>4 DEF Continue
    <2>7. CASE l = "settle"
      <3>1. lib.snapshot = i.candidate /\ entries = Entries(i)
        BY <1>4, <2>5, <2>7
      <3> QED BY <1>2, <2>6, <2>7, <3>1 DEF BytesDone
    <2>8. CASE l = "rollback"
      <3>1. lib.snapshot = i.base /\ entries = IF k \in Staging THEN Entries(i) ELSE {}
        BY <1>4, <2>8
      <3>2. ASSUME NEW a \in Entries(i) \ entries PROVE Exact(atts, a, Found(root))
        <4>1. k \in Erasing
          BY <2>1, <3>1, <3>2 DEF Staging, Erasing, Intents
        <4>2. Underway(atts, k, i, a, Found(root))
          BY <1>0, <1>4, <2>1, <3>2, BytesBeside
        <4> QED BY <1>2, <3>1, <4>1, <4>2 DEF Underway, Midst, Erasing, Exact
      <3>3. \A a \in Entries(i) \ entries : Exact(atts', a, Found(root'))
        BY <1>0, <3>2
      <3> QED BY <1>2, <2>6, <2>8, <3>1, <3>3 DEF BytesDone
    <2> QED BY <1>4, <2>7, <2>8
  <1>5. \/ \E b : Noting(b, "return")
        \/ \E k \in Present : \E i : \E entries : \E l :
             /\ Present = {k} /\ root[k].now # Corrupt /\ i = root[k].now
             /\ work' = [kind |-> k, intent |-> i, todo |-> entries] /\ Continue(l)
             /\ \/ /\ lib.snapshot = i.base /\ l = "rollback"
                   /\ entries = IF k \in Staging THEN Entries(i) ELSE {}
                \/ /\ lib.snapshot = i.candidate \/ Descends(k, i, lib.snapshot)
                   /\ l = "settle" /\ entries = Entries(i)
    BY DEF RecoverIntent
  <1> QED BY <1>3, <1>4, <1>5

\* Every step does to the entries of its intent what it claims.
LEMMA BytesDoneStays ==
    ASSUME Sound, [Next]_vars, Trusted' PROVE BytesDone'
  <1>0. TypeInv
    BY DEF Sound
  <1>1. CASE WritePrimary \/ WriteLastGood
    <2>1. pc' \in {"write_last_good", "remove_journal", "return", "idle"}
      BY <1>1 DEF WritePrimary, WriteLastGood, Continue, Fail, Leave
    <2> QED BY <2>1, NothingDone
  <1>2. CASE RemoveIntent
    <2>1. \E b : Noting(b, "return")
      BY <1>2 DEF RemoveIntent
    <2> QED BY <2>1, EndsNothingDone
  <1>3. CASE LoadStep /\ ~RecoverIntent
    <2>1. pc' \in (LoadPcs \ {"rollback"}) \cup {"idle"}
      <3>1. \A b, l : Noting(b, l) => pc' = l
        BY DEF Noting, Continue
      <3>2. \A s, f : Loaded(s, f) => pc' = "recover_intent"
        BY DEF Loaded, Continue
      <3>3. LoadFails => pc' = "idle"
        BY DEF LoadFails, Leave
      <3>4. CASE RecoverJournal
        BY <3>3, <3>4 DEF RecoverJournal, Continue, LoadPcs
      <3>5. CASE FinishLastGood
        <4>1. \E b : \E l \in {"clear_journal", "read_primary"} : Noting(b, l)
          BY <3>5 DEF FinishLastGood
        <4> QED BY <3>1, <4>1 DEF LoadPcs
      <3>6. CASE ClearJournal
        <4>1. \E b : Noting(b, "read_primary")
          BY <3>6 DEF ClearJournal
        <4> QED BY <3>1, <4>1 DEF LoadPcs
      <3>7. CASE ReadPrimary
        <4>1. Continue("restore_primary") \/ LoadFails \/ \E s, f : Loaded(s, f)
          BY <3>7 DEF ReadPrimary
        <4> QED BY <3>2, <3>3, <4>1 DEF Continue, LoadPcs
      <3>8. CASE RestorePrimary
        <4>1. LoadFails \/ \E s, f : Loaded(s, f)
          BY <3>8 DEF RestorePrimary
        <4> QED BY <3>2, <3>3, <4>1 DEF LoadPcs
      <3> QED BY <1>3, <3>4, <3>5, <3>6, <3>7, <3>8 DEF LoadStep
    <2> QED BY <2>1, NothingDone DEF LoadPcs
  <1>4. CASE Return \/ User \/ Kill \/ PowerLoss
    <2>1. pc' \in {"idle", "begin", "recover_journal"}
      <3>1. CASE Return
        BY <3>1 DEF Return, Accept, Leave
      <3>2. CASE Kill \/ PowerLoss \/ Quit
        BY <3>2 DEF Kill, PowerLoss, Quit, Vanish, Leave
      <3>3. CASE Open \/ Retry \/ Resolve \/ \E op, c : Commit(op, c)
        BY <3>3 DEF Open, Retry, Resolve, Commit
      <3>4. CASE Discard
        BY <1>0, <3>4 DEF Discard, TypeInv, Control
      <3> QED BY <1>4, <3>1, <3>2, <3>3, <3>4 DEF User
    <2> QED BY <2>1, NothingDone
  <1>5. CASE UNCHANGED vars
    <2>1. UNCHANGED <<root, atts, pc, work, job>>
      BY <1>5 DEF vars
    <2> QED BY <2>1 DEF Sound, BytesDone, Ready, Exact, NewBytes, Found
  <1>6. ~ReadFault /\ \A f \in RootFiles : ~Decay(f)
    BY <1>0, TrustedBefore
  <1>7. CASE SaveStep
    BY <1>1, <1>7, StageEntryBytes, SaveBytes, RemoveJournalBytes DEF SaveStep
  <1>8. CASE SettleStep
    BY <1>2, <1>8, EraseBytes, RewriteBytes, VerifyStagedBytes, RollBackBytes, SettledBytes
       DEF SettleStep
  <1> QED BY <1>3, <1>4, <1>5, <1>6, <1>7, <1>8, RecoverIntentBytes
          DEF Next, Step, Failure, LoadStep

-----------------------------------------------------------------------------
(* The invariant                                                           *)

\* The library that the application is started on.
LEMMA InitKeeping == Init => Keeping
  <1> SUFFICES ASSUME Init PROVE Keeping
    OBVIOUS
  <1>1. PICK s \in Installed :
          /\ root = [f \in RootFiles |->
                       OnDisk(IF f \in {"primary", "last_good"} THEN s ELSE NoFile)]
          /\ accepted = IF s = NoFile THEN DefaultSnapshot ELSE s
          /\ atts = [f \in AttachmentFiles |->
                       OnDisk(IF f[1] = "bin" THEN accepted.bytes[f[2]] ELSE NoFile)]
    BY DEF Init
  <1>2. /\ \A k \in Intents : root[k].now = NoFile /\ Images(root[k]) = {NoFile}
        /\ root["primary"].now = s /\ root["last_good"].now = s
        /\ \A f \in RootFiles : Images(root[f]) = {root[f].now}
    BY <1>1 DEF RootFiles, Intents, OnDisk, Images
  <1>3. \A f \in AttachmentFiles : Images(atts[f]) = {atts[f].now}
    BY <1>1 DEF OnDisk, Images
  <1>4. ASSUME NEW a \in Attachments PROVE Exact(atts, a, accepted)
    <2>1. /\ Managed(a) \in AttachmentFiles /\ Staged(a) \in AttachmentFiles
          /\ Managed(a)[1] = "bin" /\ Managed(a)[2] = a /\ Staged(a)[1] = "rewrite"
      BY PathFacts DEF Managed, Staged
    <2> QED BY <1>1, <2>1 DEF Exact, OnDisk
  <1>5. Found(root) = accepted
    BY <1>1, <1>2 DEF Found
  <1>6. BytesMatch(root, atts)
    BY <1>2, <1>4, <1>5, BytesBeside
  <1>7. /\ phase = "closed" /\ call = "none" /\ pc = "idle"
        /\ held \notin Libraries
    BY DistinctAssumption DEF Init
  <1>8. Retrying
    BY <1>7 DEF Retrying, PendingOnDisk, EditKeepsBytes, Pending
  <1>9. IntentsAreProper /\ WorkIsOnDisk /\ NoIntentHeld /\ Synced /\ BytesDone
    BY <1>2, <1>3, <1>7 DEF IntentsAreProper, WorkIsOnDisk, NoIntentHeld, Synced,
                            BytesDone, SavePcs, Present
  <1> QED BY <1>6, <1>8, <1>9 DEF Keeping

\* Every step.
LEMMA NextKeeping ==
    ASSUME TypeInv, Recoverable, Settling, Keeping, [Next]_vars PROVE Keeping'
  <1>1. /\ Retrying /\ IntentsAreProper /\ WorkIsOnDisk /\ NoIntentHeld /\ Synced
        /\ OwnIntentOnly
    BY DEF Keeping, Settling
  <1>2. Retrying' /\ IntentsAreProper' /\ WorkIsOnDisk' /\ NoIntentHeld' /\ Synced'
    BY <1>1, RetryingStays, ProperStays, WorkStays, NoIntentHeldStays, SyncedStays
  <1>3. ASSUME Trusted', OneKindOfFailure' PROVE BytesMatch(root', atts') /\ BytesDone'
    BY <1>3, SoundBefore, BytesMatchStays, BytesDoneStays
  <1> QED BY <1>2, <1>3 DEF Keeping

\* The pending candidate, the one intent and the bytes of the attachments stay
\* what the next step, or the next start, takes them for: the inductive
\* invariant behind the two theorems on the attachments.
THEOREM AlwaysKeeping == Spec => []Keeping
  <1>1. Init => TypeInv /\ Recoverable /\ Settling /\ Keeping
    BY InitType, InitKnown, InitSettling, InitKeeping
  <1>2. TypeInv /\ Recoverable /\ Settling /\ Keeping /\ [Next]_vars =>
          (TypeInv /\ Recoverable /\ Settling /\ Keeping)'
    BY NextType, NextKnown, NextSettling, NextKeeping
  <1> QED BY <1>1, <1>2, PTL DEF Spec

\* At rest the attachments are exactly those of the library that is shown.
LEMMA AtRestIsExact ==
    ASSUME TypeInv, Recoverable, Settling, Keeping, AtRest, Trusted, OneKindOfFailure
    PROVE  \A a \in Attachments : Exact(atts, a, held.snapshot)
  <1>1. Known
    BY DEF Recoverable, Readable, Trusted, PrimaryTrusted
  <1>2. Holding /\ pc = "idle"
    BY DEF AtRest, Holding, TypeInv, Control
  <1>3. HeldIsOnDisk /\ NoIntentHeld /\ BytesMatch(root, atts)
    BY DEF Settling, Keeping
  <1>4. Found(root) = held.snapshot
    BY <1>1, <1>2, <1>3, FoundHeld
  <1>5. \A k \in Intents : root[k].now = NoFile
    BY <1>2, <1>3 DEF NoIntentHeld, Present
  <1> QED BY <1>3, <1>4, <1>5, BytesBeside

\* A writable library has the exact bytes of every attachment it records,
\* however the commits before it were interrupted, retried and recovered.
THEOREM NeverDangling == Spec => []NoDanglingAttachment
  <1>1. TypeInv /\ Recoverable /\ Settling /\ Keeping => NoDanglingAttachment
    BY AtRestIsExact DEF NoDanglingAttachment, Trusted, Recorded, Exact
  <1>2. Spec => []TypeInv
    BY InitType, NextType, PTL DEF Spec
  <1> QED BY <1>1, <1>2, AlwaysRecoverable, AlwaysSettling, AlwaysKeeping, PTL

\* A writable library leaves no bytes of a removed, rolled back or replaced
\* attachment behind, and where only the power failed none can come back.
THEOREM NeverLeftovers == Spec => []NoLeftovers
  <1>1. TypeInv /\ Recoverable /\ Settling /\ Keeping => NoLeftovers
    <2> SUFFICES ASSUME TypeInv, Recoverable, Settling, Keeping, AtRest, Trusted,
                        OneKindOfFailure,
                        NEW f \in AttachmentFiles \ {Managed(a) : a \in Recorded(held.snapshot)}
                 PROVE  IF spent["faults"] = 0 /\ spent["kills"] = 0
                        THEN Images(atts[f]) = {NoFile} ELSE atts[f].now = NoFile
      BY DEF NoLeftovers, Trusted
    <2>1. \A a \in Attachments : Exact(atts, a, held.snapshot)
      BY AtRestIsExact
    <2>2. PICK a \in Attachments : f = Managed(a) \/ f = Staged(a)
      BY DEF AttachmentFiles, Managed, Staged
    <2>3. atts[f].now = NoFile
      <3>1. CASE f = Staged(a)
        BY <2>1, <3>1 DEF Exact
      <3>2. CASE f = Managed(a)
        <4>1. held.snapshot.bytes[a] = NoFile
          BY <2>2, <3>2 DEF Recorded
        <4> QED BY <2>1, <3>2, <4>1 DEF Exact
      <3> QED BY <2>2, <3>1, <3>2
    <2> QED BY <2>3 DEF Keeping, Synced
  <1>2. Spec => []TypeInv
    BY InitType, NextType, PTL DEF Spec
  <1> QED BY <1>1, <1>2, AlwaysRecoverable, AlwaysSettling, AlwaysKeeping, PTL
-----------------------------------------------------------------------------
(* The last known good stands in for the primary                           *)

\* What the three deciding files, and the libraries, are.
LEMMA StandTypes ==
    ASSUME TypeInv
    PROVE  /\ IsDirectory(root, RootType)
           /\ Prim \in Snapshots \cup {NoFile, Corrupt}
           /\ Back \in Snapshots \cup {NoFile, Corrupt}
           /\ Jour \in Journals \cup {NoFile, Corrupt}
           /\ NoFile # Corrupt
           /\ \A s \in Snapshots : s \notin {NoFile, Corrupt} /\ s.revision \in Nat
           /\ \A j \in Journals : /\ j \notin {NoFile, Corrupt} /\ j.candidate \in Snapshots
                                  /\ j.expected \in Snapshots \cup {NoFile}
           /\ accepted \in Snapshots /\ settled \in Snapshots
           /\ DefaultSnapshot \in Snapshots
           /\ \A l \in Libraries : /\ l.snapshot \in Snapshots
                                   /\ l.baseline \in Snapshots \cup {NoFile}
           /\ job \in Jobs => job.candidate \in Snapshots
  <1>1. IsDirectory(root, RootType) /\ accepted \in Snapshots /\ settled \in Snapshots
    BY DEF TypeInv, TypeOK
  <1>2. \A f \in RootFiles : root[f].now \in RootType[f]
    BY <1>1, RootDomain DEF IsDirectory
  <1>3. /\ Prim \in Snapshots \cup {NoFile, Corrupt}
        /\ Back \in Snapshots \cup {NoFile, Corrupt}
        /\ Jour \in Journals \cup {NoFile, Corrupt}
    BY <1>2, RootDomain DEF Prim, Back, Jour
  <1>4. /\ NoFile # Corrupt
        /\ \A s \in Snapshots : s \notin {NoFile, Corrupt}
        /\ \A j \in Journals : j \notin {NoFile, Corrupt}
    BY DistinctAssumption
  <1>5. /\ \A l \in Libraries : /\ l.snapshot \in Snapshots
                                /\ l.baseline \in Snapshots \cup {NoFile}
        /\ job \in Jobs => job.candidate \in Snapshots
    BY DEF Libraries, Jobs
  <1> QED BY <1>1, <1>3, <1>4, <1>5, SnapshotFacts

\* What is seen of a file after a verified replacement of one.
LEMMA WriteSeen ==
    ASSUME TypeInv, NEW f \in RootFiles, NEW c \in RootType[f],
           NEW r \in WriteVerified(root, f, c)
    PROVE  /\ r.ok \in BOOLEAN
           /\ \A q \in RootFiles \ {f} : r.dir[q].now = root[q].now
           /\ r.dir[f].now = IF r.ok THEN c ELSE r.dir[f].now
           /\ r.dir[f].now \in {root[f].now, c}
           /\ r.ok => \A q \in RootFiles : Images(r.dir[q]) = {r.dir[q].now}
  <1>1. IsDirectory(root, RootType)
    BY DEF TypeInv, TypeOK
  <1>2. /\ r.ok \in BOOLEAN
        /\ r.ok => \A q \in RootFiles : Images(r.dir[q]) = {r.dir[q].now}
    BY <1>1, VerifiedMoves
  <1>3. PICK e \in {root, Put(root, f, c)} :
          /\ \A q \in RootFiles : r.dir[q].now = e[q].now
          /\ r.ok => e = Put(root, f, c)
    BY <1>1, VerifiedMoves
  <1>4. /\ Put(root, f, c)[f].now = c
        /\ \A q \in RootFiles \ {f} : Put(root, f, c)[q] = root[q]
    BY <1>1, PutFiles
  <1> QED BY <1>2, <1>3, <1>4

\* What is seen after the removal of the journal.
LEMMA RemoveSeen ==
    ASSUME TypeInv, NEW r \in RemoveFile(root, "journal")
    PROVE  /\ r.ok \in BOOLEAN
           /\ \A q \in RootFiles \ {"journal"} : r.dir[q] = root[q]
           /\ IF r.ok THEN r.dir["journal"].now = NoFile ELSE r.dir = root
           /\ Images(r.dir["journal"]) \subseteq Images(root["journal"]) \cup {NoFile}
  <1>1. IsDirectory(root, RootType) /\ "journal" \in RootFiles
    BY DEF TypeInv, TypeOK, RootFiles
  <1>2. /\ Put(root, "journal", NoFile)["journal"].now = NoFile
        /\ \A q \in RootFiles \ {"journal"} : Put(root, "journal", NoFile)[q] = root[q]
        /\ Images(Put(root, "journal", NoFile)["journal"])
             \subseteq Images(root["journal"]) \cup {NoFile}
    BY <1>1, PutFiles
  <1>3. /\ r.ok \in BOOLEAN
        /\ r.dir = IF r.ok /\ root["journal"].now # NoFile
                   THEN Put(root, "journal", NoFile) ELSE root
    BY RemoveFileOutcome
  <1> QED BY <1>2, <1>3

\* The commit in progress is ahead of the settled library, and of the primary
\* that it replaces.
LEMMA CommitStands ==
    ASSUME TypeInv, Stands,
           pc \in {"write_journal", "write_primary", "write_last_good", "remove_journal"}
    PROVE  /\ held \in Libraries /\ job \in Jobs /\ job.candidate \in Snapshots
           /\ held.baseline \in Snapshots \cup {NoFile}
           /\ Written \in Journals /\ Written.expected = held.baseline
           /\ Written.candidate = job.candidate /\ held.baseline # job.candidate
           /\ Newer(job.candidate, settled)
  <1>1. held \in Libraries /\ job \in Jobs
    BY DEF TypeInv, Control, SavePcs
  <1>2. /\ held.snapshot \in Snapshots /\ held.baseline \in Snapshots \cup {NoFile}
        /\ job.candidate \in Snapshots
    BY <1>1, StandTypes
  <1>3. /\ held.snapshot.revision \in Nat /\ settled.revision \in Nat
        /\ job.candidate.revision \in Nat /\ job.candidate # NoFile
    BY <1>2, StandTypes
  <1>4. job.candidate.revision = held.snapshot.revision + 1
    BY DEF Stands, SaveStands
  <1>5. Newer(held.snapshot, settled) /\ Decoded(held)
    BY <1>1 DEF Stands, LibraryStands
  <1>6. Newer(job.candidate, settled)
    BY <1>3, <1>4, <1>5 DEF Newer
  <1>7. held.baseline # job.candidate
    BY <1>3, <1>4, <1>5 DEF Decoded
  <1>8. /\ Written \in Journals
        /\ Written.expected = held.baseline /\ Written.candidate = job.candidate
    BY <1>2 DEF Written, Journals
  <1> QED BY <1>1, <1>2, <1>6, <1>7, <1>8

\* The operation of the current step, done or half done, leaves files that
\* stand in.
LEMMA MidwayStands ==
    ASSUME TypeInv, Stands, NEW d \in RootMidway,
           \A f \in Deciding : root'[f].now = d[f].now, UNCHANGED settled
    PROVE  FilesStand'
  <1>0. /\ Prim' = d["primary"].now /\ Back' = d["last_good"].now
        /\ Jour' = d["journal"].now /\ settled' = settled
    BY DEF Prim, Back, Jour, Deciding
  <1>1. FilesStand
    BY DEF Stands
  <1>2. /\ "primary" \in RootFiles /\ "last_good" \in RootFiles /\ "journal" \in RootFiles
        /\ IsDirectory(root, RootType)
    BY StandTypes DEF RootFiles
  <1>3. \A f \in RootFiles : \A c : /\ Put(root, f, c)[f].now = c
                                    /\ \A q \in RootFiles \ {f} : Put(root, f, c)[q] = root[q]
    BY <1>2, PutFiles
  <1>4. CASE Prim' = Prim /\ Back' = Back /\ Jour' = Jour
    BY <1>0, <1>1, <1>4 DEF FilesStand
  <1>5. CASE pc = "write_journal" /\ d = Put(root, "journal", Written)
    <2>1. Prim' = Prim /\ Back' = Back /\ Jour' = Written
      BY <1>0, <1>2, <1>3, <1>5 DEF Prim, Back
    <2>2. Prim = held.baseline /\ Jour = NoFile
      BY <1>5 DEF Stands, SaveStands
    <2>3. /\ held.baseline \in Snapshots \cup {NoFile} /\ Written \in Journals
          /\ Written.expected = held.baseline
      BY <1>5, CommitStands
    <2> QED BY <1>0, <1>1, <2>1, <2>2, <2>3, StandTypes DEF FilesStand
  <1>6. CASE pc = "write_primary" /\ d = Put(root, "primary", job.candidate)
    <2>1. Prim' = job.candidate /\ Back' = Back /\ Jour' = Jour
      BY <1>0, <1>2, <1>3, <1>6 DEF Back, Jour
    <2>2. Jour = Written
      BY <1>6 DEF Stands, SaveStands
    <2>3. /\ job.candidate \in Snapshots /\ Written \in Journals
          /\ Written.expected = held.baseline /\ Written.candidate = job.candidate
          /\ held.baseline # job.candidate /\ Newer(job.candidate, settled)
      BY <1>6, CommitStands
    <2> QED BY <1>0, <1>1, <2>1, <2>2, <2>3, StandTypes DEF FilesStand
  <1>7. CASE pc = "write_last_good" /\ d = Put(root, "last_good", job.candidate)
    <2>1. Prim' = Prim /\ Back' = job.candidate /\ Jour' = Jour
      BY <1>0, <1>2, <1>3, <1>7 DEF Prim, Jour
    <2>2. Jour = Written /\ Prim = job.candidate
      BY <1>7 DEF Stands, SaveStands
    <2>3. /\ job.candidate \in Snapshots /\ Written \in Journals
          /\ Written.candidate = job.candidate
      BY <1>7, CommitStands
    <2> QED BY <1>0, <1>1, <2>1, <2>2, <2>3, StandTypes DEF FilesStand
  <1>8. CASE pc = "finish_last_good" /\ d = Put(root, "last_good", Jour.candidate)
    <2>1. Prim' = Prim /\ Back' = Jour.candidate /\ Jour' = Jour
      BY <1>0, <1>2, <1>3, <1>8 DEF Prim, Jour
    <2>2. Prim = Jour.candidate /\ Jour \in Journals
      BY <1>8 DEF Stands, LoadStands, TypeInv, Control, Jour
    <2> QED BY <1>0, <1>1, <2>1, <2>2, StandTypes DEF FilesStand
  <1>9. CASE pc = "restore_primary" /\ d = Put(root, "primary", Back)
    <2>1. Prim' = Back /\ Back' = Back /\ Jour' = Jour
      BY <1>0, <1>2, <1>3, <1>9 DEF Back, Jour
    <2>2. Back \in Snapshots
      BY <1>9 DEF TypeInv, Control, Back
    <2> QED BY <1>0, <1>1, <2>1, <2>2, StandTypes DEF FilesStand
  <1>10. CASE pc \in {"write_intent", "remove_intent"}
    <2>1. work.kind \in RootFiles /\ work.kind \notin Deciding
      BY <1>10 DEF TypeInv, Control, Works, RootFiles, EndPcs, Intents, Deciding
    <2>2. d = root \/ \E c : d = Put(root, work.kind, c)
      BY <1>10 DEF RootMidway
    <2>3. Prim' = Prim /\ Back' = Back /\ Jour' = Jour
      BY <1>0, <1>2, <1>3, <2>1, <2>2 DEF Prim, Back, Jour, Deciding
    <2> QED BY <1>4, <2>3
  <1>11. CASE d = root
    BY <1>0, <1>4, <1>11 DEF Prim, Back, Jour
  <1> QED BY <1>5, <1>6, <1>7, <1>8, <1>9, <1>10, <1>11 DEF RootMidway, Written, Jour, Back
\* Steps that end a call, or go on before anything depends on the files.
LEMMA CalmStands ==
    ASSUME TypeInv, Stands, \A f \in Deciding : root'[f].now = root[f].now,
           UNCHANGED <<accepted, settled>>, held' = held \/ held' \notin Libraries,
           pc' \in {"idle", "begin", "write_intent", "stage", "preflight", "recover_journal"}
    PROVE  Stands'
  <1>1. Prim' = Prim /\ Back' = Back /\ Jour' = Jour
    BY DEF Prim, Back, Jour, Deciding
  <1>2. FilesStand'
    BY <1>1 DEF Stands, FilesStand
  <1>3. SaveStands' /\ LoadStands'
    BY DEF SaveStands, LoadStands, EndPcs
  <1> QED BY <1>2, <1>3 DEF Stands, LibraryStands, Decoded

\* The steps of a save before its first write of the root, and of staging.
LEMMA StageStands ==
    ASSUME TypeInv, Stands, Begin \/ StageNew \/ StageRewrite \/ StageDone
    PROVE  Stands'
  <1>1. /\ UNCHANGED <<root, held, accepted, settled>>
        /\ pc' \in {"idle", "write_intent", "stage", "preflight"}
    <2>1. CASE Begin
      BY <2>1 DEF Begin, Fail, Leave, Continue
    <2>2. CASE StageNew
      BY <2>2 DEF StageNew, Fail, Leave, Continue
    <2>3. CASE StageRewrite \/ StageDone
      BY <2>3 DEF StageRewrite, StageDone, Fail, Leave, Continue
    <2> QED BY <2>1, <2>2, <2>3
  <1> QED BY <1>1, CalmStands

\* Writing an intent.
LEMMA WriteIntentStands ==
    ASSUME TypeInv, Stands, WriteIntent PROVE Stands'
  <1>1. PICK r \in WriteVerified(root, work.kind, work.intent) :
          /\ root' = r.dir
          /\ IF r.ok
             THEN Continue(IF work.kind \in Staging THEN "stage" ELSE "preflight")
             ELSE Fail
    BY DEF WriteIntent
  <1>2. pc = "write_intent" /\ work \in Works
    BY DEF WriteIntent, TypeInv, Control
  <1>3. /\ work.kind \in RootFiles /\ work.intent \in RootType[work.kind]
        /\ \A f \in Deciding : f \in RootFiles \ {work.kind}
    BY <1>2, RootDomain DEF Works, Intents, Deciding, RootFiles
  <1>4. \A f \in Deciding : root'[f].now = root[f].now
    BY <1>1, <1>3, WriteSeen
  <1>5. UNCHANGED <<held, accepted, settled>> /\ pc' \in {"idle", "stage", "preflight"}
    BY <1>1 DEF Continue, Fail, Leave
  <1> QED BY <1>4, <1>5, CalmStands

\* preflight() sees what the writing of the journal relies on.
LEMMA PreflightStands ==
    ASSUME TypeInv, Stands, Preflight PROVE Stands'
  <1>1. UNCHANGED root
    BY DEF Preflight
  <1>2. CASE Fail
    BY <1>1, <1>2, CalmStands DEF Fail, Leave
  <1>3. CASE /\ Continue("write_journal")
             /\ job.candidate.revision = held.snapshot.revision + 1
             /\ Prim = held.baseline /\ Jour = NoFile
    <2>1. /\ Prim' = Prim /\ Back' = Back /\ Jour' = Jour /\ pc' = "write_journal"
          /\ UNCHANGED <<job, held, accepted, settled>>
      BY <1>1, <1>3 DEF Prim, Back, Jour, Continue
    <2>2. FilesStand'
      BY <2>1 DEF Stands, FilesStand
    <2>3. SaveStands' /\ LoadStands'
      BY <1>3, <2>1 DEF SaveStands, LoadStands, EndPcs
    <2> QED BY <2>1, <2>2, <2>3 DEF Stands, LibraryStands, Decoded
  <1> QED BY <1>2, <1>3 DEF Preflight, Prim, Jour

\* Writing the journal, or failing to and removing it again.
LEMMA WriteJournalStands ==
    ASSUME TypeInv, Stands, WriteJournal PROVE Stands'
  <1>1. PICK r \in WriteVerified(root, "journal", Written) :
          IF r.ok
          THEN root' = r.dir /\ Continue("write_primary")
          ELSE (\E q \in RemoveFile(r.dir, "journal") : root' = q.dir) /\ Fail
    BY DEF WriteJournal, Written
  <1>2. pc = "write_journal"
    BY DEF WriteJournal
  <1>3. /\ Prim = held.baseline /\ Jour = NoFile
        /\ job.candidate.revision = held.snapshot.revision + 1
    BY <1>2 DEF Stands, SaveStands
  <1>4. Written \in Journals /\ "journal" \in RootFiles /\ Written \in RootType["journal"]
    BY <1>2, CommitStands, RootDomain
  <1>5. /\ r.ok \in BOOLEAN
        /\ \A q \in RootFiles \ {"journal"} : r.dir[q].now = root[q].now
        /\ r.dir["journal"].now \in {NoFile, Written}
        /\ r.ok => r.dir["journal"].now = Written
    BY <1>3, <1>4, WriteSeen DEF Jour
  <1>6. IsDirectory(r.dir, RootType)
    BY <1>4, RootDomain, StandTypes, WriteVerifiedType
  <1>7. /\ \A q \in RootFiles \ {"journal"} : root'[q].now = root[q].now
        /\ root'["journal"].now \in {NoFile, Written}
        /\ r.ok => root'["journal"].now = Written
    <2>1. CASE r.ok
      BY <1>1, <1>5, <2>1
    <2>2. CASE ~r.ok
      <3>1. PICK q \in RemoveFile(r.dir, "journal") : root' = q.dir
        BY <1>1, <2>2
      <3>2. q.dir = r.dir \/ q.dir = Put(r.dir, "journal", NoFile)
        BY RemoveFileOutcome
      <3>3. /\ Put(r.dir, "journal", NoFile)["journal"].now = NoFile
            /\ \A f \in RootFiles \ {"journal"} : Put(r.dir, "journal", NoFile)[f] = r.dir[f]
        BY <1>4, <1>6, PutFiles
      <3> QED BY <1>5, <2>2, <3>1, <3>2, <3>3
    <2> QED BY <1>5, <2>1, <2>2
  <1>8. /\ UNCHANGED <<job, held, accepted, settled>>
        /\ pc' = IF r.ok THEN "write_primary" ELSE "idle"
    BY <1>1, <1>5 DEF Continue, Fail, Leave
  <1>9. PICK d \in RootMidway : \A f \in Deciding : root'[f].now = d[f].now
    <2>1. root \in RootMidway /\ Put(root, "journal", Written) \in RootMidway
      BY <1>2 DEF RootMidway, Written
    <2>2. /\ Put(root, "journal", Written)["journal"].now = Written
          /\ \A f \in RootFiles \ {"journal"} : Put(root, "journal", Written)[f] = root[f]
      BY <1>4, StandTypes, PutFiles
    <2>3. Deciding \subseteq RootFiles
      BY DEF Deciding, RootFiles
    <2> QED BY <1>3, <1>7, <2>1, <2>2, <2>3 DEF Jour, Deciding
  <1>10. FilesStand'
    BY <1>8, <1>9, MidwayStands
  <1>11. Prim' = Prim
    BY <1>7 DEF Prim, RootFiles
  <1>12. SaveStands' /\ LoadStands'
    BY <1>3, <1>5, <1>7, <1>8, <1>11 DEF SaveStands, LoadStands, EndPcs, Jour, Written
  <1> QED BY <1>8, <1>10, <1>12 DEF Stands, LibraryStands, Decoded

\* Writing the primary.
LEMMA WritePrimaryStands ==
    ASSUME TypeInv, Stands, WritePrimary PROVE Stands'
  <1>1. PICK r \in WriteVerified(root, "primary", job.candidate) :
          root' = r.dir /\ IF r.ok THEN Continue("write_last_good") ELSE Fail
    BY DEF WritePrimary
  <1>2. pc = "write_primary" /\ "primary" \in RootFiles /\ "journal" \in RootFiles
    BY DEF WritePrimary, RootFiles
  <1>3. job.candidate \in RootType["primary"]
    BY <1>2, CommitStands, RootDomain
  <1>4. /\ r.ok \in BOOLEAN
        /\ \A q \in RootFiles \ {"primary"} : root'[q].now = root[q].now
        /\ root'["primary"].now \in {root["primary"].now, job.candidate}
        /\ r.ok => Prim' = job.candidate
    BY <1>1, <1>2, <1>3, WriteSeen DEF Prim
  <1>5. /\ UNCHANGED <<job, held, accepted, settled>>
        /\ pc' = IF r.ok THEN "write_last_good" ELSE "idle"
    BY <1>1, <1>4 DEF Continue, Fail, Leave
  <1>6. PICK d \in RootMidway : \A f \in Deciding : root'[f].now = d[f].now
    <2>1. root \in RootMidway /\ Put(root, "primary", job.candidate) \in RootMidway
      BY <1>2 DEF RootMidway
    <2>2. /\ Put(root, "primary", job.candidate)["primary"].now = job.candidate
          /\ \A f \in RootFiles \ {"primary"} : Put(root, "primary", job.candidate)[f] = root[f]
      BY <1>2, StandTypes, PutFiles
    <2>3. Deciding \subseteq RootFiles
      BY DEF Deciding, RootFiles
    <2> QED BY <1>4, <2>1, <2>2, <2>3
  <1>7. FilesStand'
    BY <1>5, <1>6, MidwayStands
  <1>8. Jour' = Jour /\ Jour = Written
    BY <1>2, <1>4 DEF Jour, Stands, SaveStands
  <1>9. job.candidate.revision = held.snapshot.revision + 1
    BY <1>2 DEF Stands, SaveStands
  <1>10. SaveStands' /\ LoadStands'
    BY <1>4, <1>5, <1>8, <1>9 DEF SaveStands, LoadStands, EndPcs, Written
  <1> QED BY <1>5, <1>7, <1>10 DEF Stands, LibraryStands, Decoded

\* The library of a save whose candidate is the primary.
LEMMA SavedStands ==
    ASSUME TypeInv, Stands, pc \in {"write_last_good", "remove_journal"},
           NEW b \in BOOLEAN, lib' = Saved(b), UNCHANGED settled, Prim' = job.candidate
    PROVE  /\ LibraryStands(lib)' /\ lib'.baseline = Prim' /\ lib'.blocked = b
  <1>1. lib'.snapshot = job.candidate /\ lib'.baseline = job.candidate /\ lib'.blocked = b
    BY SavedFields
  <1>2. Newer(job.candidate, settled) /\ job.candidate # NoFile
    BY CommitStands, StandTypes
  <1> QED BY <1>1, <1>2 DEF LibraryStands, Decoded

\* Writing the backup of a commit.
LEMMA WriteLastGoodStands ==
    ASSUME TypeInv, Stands, WriteLastGood PROVE Stands'
  <1>1. PICK r \in WriteVerified(root, "last_good", job.candidate) :
          /\ root' = r.dir /\ lib' = Saved(~r.ok)
          /\ Continue(IF r.ok THEN "remove_journal" ELSE "return")
    BY DEF WriteLastGood
  <1>2. /\ pc = "write_last_good" /\ "last_good" \in RootFiles /\ "journal" \in RootFiles
        /\ "primary" \in RootFiles
    BY DEF WriteLastGood, RootFiles
  <1>3. job.candidate \in RootType["last_good"]
    BY <1>2, CommitStands, RootDomain
  <1>4. /\ r.ok \in BOOLEAN
        /\ \A q \in RootFiles \ {"last_good"} : root'[q].now = root[q].now
        /\ root'["last_good"].now \in {root["last_good"].now, job.candidate}
        /\ r.ok => Back' = job.candidate
    BY <1>1, <1>2, <1>3, WriteSeen DEF Back
  <1>5. /\ UNCHANGED <<job, held, accepted, settled>>
        /\ pc' = IF r.ok THEN "remove_journal" ELSE "return"
    BY <1>1 DEF Continue
  <1>6. PICK d \in RootMidway : \A f \in Deciding : root'[f].now = d[f].now
    <2>1. root \in RootMidway /\ Put(root, "last_good", job.candidate) \in RootMidway
      BY <1>2 DEF RootMidway
    <2>2. /\ Put(root, "last_good", job.candidate)["last_good"].now = job.candidate
          /\ \A f \in RootFiles \ {"last_good"} :
               Put(root, "last_good", job.candidate)[f] = root[f]
      BY <1>2, StandTypes, PutFiles
    <2>3. Deciding \subseteq RootFiles
      BY DEF Deciding, RootFiles
    <2> QED BY <1>4, <2>1, <2>2, <2>3
  <1>7. FilesStand'
    BY <1>5, <1>6, MidwayStands
  <1>8. Jour' = Jour /\ Jour = Written /\ Prim' = Prim /\ Prim = job.candidate
    BY <1>2, <1>4 DEF Jour, Prim, Stands, SaveStands
  <1>9. job.candidate.revision = held.snapshot.revision + 1
    BY <1>2 DEF Stands, SaveStands
  <1>10. (~r.ok) \in BOOLEAN
    BY <1>4
  <1>11. LibraryStands(lib)' /\ lib'.baseline = Prim' /\ lib'.blocked = ~r.ok
    BY <1>1, <1>2, <1>5, <1>8, <1>10, SavedStands
  <1>12. SaveStands' /\ LoadStands'
    BY <1>4, <1>5, <1>8, <1>9, <1>11 DEF SaveStands, LoadStands, EndPcs, Written
  <1> QED BY <1>5, <1>7, <1>12 DEF Stands, LibraryStands, Decoded

\* Removing a journal whose primary is the backup leaves files that stand in,
\* and so does removing one that is rolled back.
LEMMA RemovedStands ==
    ASSUME TypeInv, Stands, NEW r \in RemoveFile(root, "journal"), root' = r.dir,
           UNCHANGED settled, Jour \in Journals, Prim = Back \/ Prim = Jour.expected
    PROVE  /\ FilesStand' /\ Prim' = Prim /\ Back' = Back
           /\ r.ok \in BOOLEAN /\ Jour' = IF r.ok THEN NoFile ELSE Jour
  <1>1. Prim' = Prim /\ Back' = Back
    BY RemoveSeen DEF Prim, Back, RootFiles
  <1>2. r.ok \in BOOLEAN /\ Jour' = IF r.ok THEN NoFile ELSE Jour
    BY RemoveSeen DEF Jour
  <1>3. FilesStand
    BY DEF Stands
  <1>4. FilesStand'
    <2>1. CASE ~r.ok
      BY <1>1, <1>2, <1>3, <2>1 DEF FilesStand
    <2>2. CASE r.ok
      BY <1>1, <1>2, <1>3, <2>2, StandTypes DEF FilesStand
    <2> QED BY <1>2, <2>1, <2>2
  <1> QED BY <1>1, <1>2, <1>4

\* Removing the journal of a commit.
LEMMA RemoveJournalStands ==
    ASSUME TypeInv, Stands, RemoveJournal PROVE Stands'
  <1>1. PICK r \in RemoveFile(root, "journal") :
          /\ root' = r.dir /\ lib' = Saved(~r.ok)
          /\ Continue(IF r.ok THEN AfterCommit ELSE "return")
    BY DEF RemoveJournal
  <1>2. pc = "remove_journal"
    BY DEF RemoveJournal
  <1>3. UNCHANGED <<job, held, accepted, settled>> /\ pc' \in EndPcs
    BY <1>1 DEF Continue, AfterCommit, EndPcs
  <1>4. Jour = Written /\ Prim = job.candidate /\ Back = job.candidate
    BY <1>2 DEF Stands, SaveStands
  <1>5. /\ FilesStand' /\ Prim' = Prim
        /\ r.ok \in BOOLEAN /\ Jour' = IF r.ok THEN NoFile ELSE Jour
    BY <1>1, <1>2, <1>3, <1>4, CommitStands, RemovedStands
  <1>6. (~r.ok) \in BOOLEAN
    BY <1>5
  <1>7. LibraryStands(lib)' /\ lib'.baseline = Prim' /\ lib'.blocked = ~r.ok
    BY <1>1, <1>2, <1>3, <1>4, <1>5, <1>6, SavedStands
  <1>8. SaveStands' /\ LoadStands'
    BY <1>3, <1>5, <1>7 DEF SaveStands, LoadStands, EndPcs
  <1> QED BY <1>3, <1>5, <1>8 DEF Stands, LibraryStands, Decoded

\* A step of the end of a call that leaves the deciding files as they are and
\* at most blocks the library.
LEMMA EndStands ==
    ASSUME TypeInv, Stands, pc \in {"recover_intent", "rollback"} \cup EndPcs,
           \A f \in Deciding : root'[f].now = root[f].now,
           UNCHANGED <<held, accepted, settled>>, pc' \in {"rollback"} \cup EndPcs,
           UNCHANGED lib \/ \E b \in BOOLEAN : lib' = [lib EXCEPT !.blocked = @ \/ b]
    PROVE  Stands'
  <1>1. Prim' = Prim /\ Back' = Back /\ Jour' = Jour
    BY DEF Prim, Back, Jour, Deciding
  <1>2. lib \in Libraries
    BY DEF TypeInv, Control, LoadPcs, EndPcs
  <1>3. /\ lib'.snapshot = lib.snapshot /\ lib'.baseline = lib.baseline
        /\ lib.blocked => lib'.blocked
    BY <1>2, NotedLibrary
  <1>4. /\ LibraryStands(lib) /\ lib.baseline = Prim
        /\ ~lib.blocked => Jour = NoFile
    BY DEF Stands, LoadStands
  <1>5. LibraryStands(lib)'
    BY <1>3, <1>4 DEF LibraryStands, Decoded
  <1>6. FilesStand' /\ SaveStands'
    BY <1>1 DEF Stands, FilesStand, SaveStands, EndPcs
  <1>7. LoadStands'
    BY <1>1, <1>3, <1>4, <1>5 DEF LoadStands, EndPcs
  <1> QED BY <1>6, <1>7 DEF Stands, LibraryStands, Decoded

\* Settling attachments.
LEMMA SettleStepStands ==
    ASSUME TypeInv, Stands,
           Erase \/ ReplaceManaged \/ RemoveStaged \/ VerifyStaged \/ RollBack \/ Settled
    PROVE  Stands'
  <1>1. pc \in {"settle", "rollback"} /\ UNCHANGED root
    BY DEF Erase, ReplaceManaged, RemoveStaged, VerifyStaged, RollBack, Settled
  <1>2. \/ Continue(pc) /\ UNCHANGED lib
        \/ Continue("remove_intent") /\ UNCHANGED lib
        \/ Noting(TRUE, "return")
    <2>1. CASE Erase
      BY <2>1 DEF Erase
    <2>2. CASE ReplaceManaged \/ RemoveStaged
      BY <2>2 DEF ReplaceManaged, RemoveStaged
    <2>3. CASE VerifyStaged \/ RollBack \/ Settled
      BY <2>3 DEF VerifyStaged, RollBack, Settled
    <2> QED BY <2>1, <2>2, <2>3
  <1>3. /\ UNCHANGED <<held, accepted, settled>> /\ pc' \in {"rollback"} \cup EndPcs
        /\ UNCHANGED lib \/ \E b \in BOOLEAN : lib' = [lib EXCEPT !.blocked = @ \/ b]
    BY <1>1, <1>2 DEF Noting, Continue, EndPcs
  <1> QED BY <1>1, <1>3, EndStands DEF EndPcs

\* Removing an intent.
LEMMA RemoveIntentStands ==
    ASSUME TypeInv, Stands, RemoveIntent PROVE Stands'
  <1>1. PICK r \in RemoveFileDurable(root, work.kind) :
          root' = r.dir /\ Noting(~r.ok, "return")
    BY DEF RemoveIntent
  <1>2. pc = "remove_intent" /\ work \in Works
    BY DEF RemoveIntent, TypeInv, Control
  <1>3. /\ work.kind \in Intents /\ work.kind \in RootFiles
        /\ \A f \in Deciding : f \in RootFiles \ {work.kind}
    BY <1>2 DEF Works, Intents, Deciding, RootFiles
  <1>4. /\ r.ok \in BOOLEAN
        /\ \A f \in RootFiles \ {work.kind} : root'[f].now = root[f].now
    <2> DEFINE e == Put(root, work.kind, NoFile)
    <2>1. IsDirectory(root, RootType) /\ NoFile \in RootType[work.kind]
      BY <1>3, StandTypes, RootDomain
    <2>2. /\ IsDirectory(e, RootType)
          /\ \A q \in RootFiles \ {work.kind} : e[q] = root[q]
      BY <1>3, <2>1, PutFiles, PutType, RootDomain
    <2>3. r.ok \in BOOLEAN /\ r.dir \in {root, e, Sync(e)}
      BY RemoveFileDurableOutcome
    <2> HIDE DEF e
    <2>4. \A q \in RootFiles : Sync(e)[q].now = e[q].now
      BY <2>2, SyncFiles
    <2> QED BY <1>1, <2>2, <2>3, <2>4
  <1>5. /\ UNCHANGED <<held, accepted, settled>> /\ pc' = "return"
        /\ (~r.ok) \in BOOLEAN /\ lib' = [lib EXCEPT !.blocked = @ \/ ~r.ok]
    BY <1>1, <1>4 DEF Noting, Continue
  <1> QED BY <1>2, <1>3, <1>4, <1>5, EndStands DEF EndPcs

\* Deciding what becomes of an intent.
LEMMA RecoverIntentStands ==
    ASSUME TypeInv, Stands, RecoverIntent PROVE Stands'
  <1>1. pc = "recover_intent" /\ UNCHANGED root
    BY DEF RecoverIntent
  <1>2. \/ \E b \in BOOLEAN : Noting(b, "return")
        \/ Continue("rollback") /\ UNCHANGED lib
        \/ Continue("settle") /\ UNCHANGED lib
    BY DEF RecoverIntent
  <1>3. /\ UNCHANGED <<held, accepted, settled>> /\ pc' \in {"rollback"} \cup EndPcs
        /\ UNCHANGED lib \/ \E b \in BOOLEAN : lib' = [lib EXCEPT !.blocked = @ \/ b]
    BY <1>2 DEF Noting, Continue, EndPcs
  <1> QED BY <1>1, <1>3, EndStands

\* The journal is found, finished or rolled back, or refused.
LEMMA RecoverJournalStands ==
    ASSUME TypeInv, Stands, RecoverJournal PROVE Stands'
  <1>1. UNCHANGED root /\ Prim' = Prim /\ Back' = Back /\ Jour' = Jour
    BY DEF RecoverJournal, Prim, Back, Jour
  <1>2. CASE LoadFails
    BY <1>1, <1>2, CalmStands DEF LoadFails, Leave
  <1>3. CASE \E b \in BOOLEAN, l \in {"read_primary", "finish_last_good", "clear_journal"} :
               /\ lib' = [snapshot |-> DefaultSnapshot, baseline |-> NoFile, blocked |-> b]
               /\ Continue(l)
               /\ \/ l = "read_primary" /\ (~b => Jour = NoFile)
                  \/ l = "finish_last_good" /\ Prim = Jour.candidate
                  \/ l = "clear_journal" /\ Jour \notin {NoFile, Corrupt}
                     /\ Prim = Jour.expected
    <2>1. PICK b \in BOOLEAN, l \in {"read_primary", "finish_last_good", "clear_journal"} :
             /\ lib' = [snapshot |-> DefaultSnapshot, baseline |-> NoFile, blocked |-> b]
             /\ Continue(l)
             /\ \/ l = "read_primary" /\ (~b => Jour = NoFile)
                \/ l = "finish_last_good" /\ Prim = Jour.candidate
                \/ l = "clear_journal" /\ Jour \notin {NoFile, Corrupt}
                   /\ Prim = Jour.expected
      BY <1>3
    <2>2. UNCHANGED <<held, accepted, settled>> /\ pc' = l /\ lib'.blocked = b
      BY <2>1 DEF Continue
    <2>3. FilesStand'
      BY <1>1, <2>2 DEF Stands, FilesStand
    <2>4. SaveStands' /\ LoadStands'
      BY <1>1, <2>1, <2>2 DEF SaveStands, LoadStands, EndPcs
    <2> QED BY <2>2, <2>3, <2>4 DEF Stands, LibraryStands, Decoded
  <1> QED BY <1>2, <1>3 DEF RecoverJournal, Jour, Prim

\* The backup catches up with a primary that the journal commits.
LEMMA FinishLastGoodStands ==
    ASSUME TypeInv, Stands, FinishLastGood PROVE Stands'
  <1>1. PICK r \in WriteVerified(root, "last_good", Jour.candidate) :
          /\ root' = r.dir
          /\ Noting(~r.ok, IF r.ok THEN "clear_journal" ELSE "read_primary")
    BY DEF FinishLastGood, Jour
  <1>2. /\ pc = "finish_last_good" /\ "last_good" \in RootFiles /\ "journal" \in RootFiles
        /\ "primary" \in RootFiles
    BY DEF FinishLastGood, RootFiles
  <1>3. Prim = Jour.candidate /\ Jour \in Journals /\ lib \in Libraries
    BY <1>2 DEF Stands, LoadStands, TypeInv, Control, LoadPcs, Jour
  <1>4. Jour.candidate \in RootType["last_good"]
    BY <1>3, StandTypes, RootDomain
  <1>5. /\ r.ok \in BOOLEAN
        /\ \A q \in RootFiles \ {"last_good"} : root'[q].now = root[q].now
        /\ root'["last_good"].now \in {root["last_good"].now, Jour.candidate}
        /\ r.ok => Back' = Jour.candidate
    BY <1>1, <1>2, <1>4, WriteSeen DEF Back
  <1>6. /\ UNCHANGED <<held, accepted, settled>>
        /\ pc' = IF r.ok THEN "clear_journal" ELSE "read_primary"
        /\ lib' = [lib EXCEPT !.blocked = @ \/ ~r.ok]
    BY <1>1 DEF Noting, Continue
  <1>7. PICK d \in RootMidway : \A f \in Deciding : root'[f].now = d[f].now
    <2>1. root \in RootMidway /\ Put(root, "last_good", Jour.candidate) \in RootMidway
      BY <1>2 DEF RootMidway, Jour
    <2>2. /\ Put(root, "last_good", Jour.candidate)["last_good"].now = Jour.candidate
          /\ \A f \in RootFiles \ {"last_good"} :
               Put(root, "last_good", Jour.candidate)[f] = root[f]
      BY <1>2, StandTypes, PutFiles
    <2>3. Deciding \subseteq RootFiles
      BY DEF Deciding, RootFiles
    <2> QED BY <1>5, <2>1, <2>2, <2>3
  <1>8. FilesStand'
    BY <1>6, <1>7, MidwayStands
  <1>9. Jour' = Jour /\ Prim' = Prim
    BY <1>2, <1>5 DEF Jour, Prim
  <1>10. ~r.ok => lib'.blocked
    BY <1>3, <1>5, <1>6, NotedLibrary
  <1>11. SaveStands' /\ LoadStands'
    BY <1>3, <1>5, <1>6, <1>9, <1>10, StandTypes DEF SaveStands, LoadStands, EndPcs
  <1> QED BY <1>6, <1>8, <1>11 DEF Stands, LibraryStands, Decoded

\* A journal that was finished or rolled back goes.
LEMMA ClearJournalStands ==
    ASSUME TypeInv, Stands, ClearJournal PROVE Stands'
  <1>1. PICK r \in RemoveFile(root, "journal") :
          root' = r.dir /\ Noting(~r.ok, "read_primary")
    BY DEF ClearJournal
  <1>2. pc = "clear_journal" /\ lib \in Libraries
    BY DEF ClearJournal, TypeInv, Control, LoadPcs
  <1>3. /\ UNCHANGED <<held, accepted, settled>> /\ pc' = "read_primary"
        /\ lib' = [lib EXCEPT !.blocked = @ \/ ~r.ok]
    BY <1>1 DEF Noting, Continue
  <1>4. Jour \in Journals /\ (Prim = Back \/ Prim = Jour.expected)
    BY <1>2, StandTypes DEF Stands, LoadStands
  <1>5. /\ FilesStand' /\ Prim' = Prim
        /\ r.ok \in BOOLEAN /\ Jour' = IF r.ok THEN NoFile ELSE Jour
    BY <1>1, <1>3, <1>4, RemovedStands
  <1>6. ~r.ok => lib'.blocked
    BY <1>2, <1>3, <1>5, NotedLibrary
  <1>7. SaveStands' /\ LoadStands'
    BY <1>3, <1>5, <1>6 DEF SaveStands, LoadStands, EndPcs
  <1> QED BY <1>3, <1>5, <1>7 DEF Stands, LibraryStands, Decoded

\* The library has been read, and is what the primary holds.
LEMMA LoadedStands ==
    ASSUME TypeInv, Stands, pc \in {"read_primary", "restore_primary"},
           NEW s, Loaded(s, Prim'), FilesStand', Jour' = Jour, Newer(s, settled),
           s = IF Prim' = NoFile THEN DefaultSnapshot ELSE Prim'
    PROVE  Stands'
  <1>1. lib \in Libraries
    BY DEF TypeInv, Control, LoadPcs
  <1>2. lib'.snapshot = s /\ lib'.baseline = Prim' /\ lib'.blocked = lib.blocked
    BY <1>1, LoadedFields
  <1>3. UNCHANGED <<held, accepted, settled>> /\ pc' = "recover_intent"
    BY DEF Loaded, Continue
  <1>4. ~lib.blocked => Jour = NoFile
    BY DEF Stands, LoadStands
  <1>5. LibraryStands(lib)'
    BY <1>2, <1>3 DEF LibraryStands, Decoded
  <1>6. SaveStands' /\ LoadStands'
    BY <1>2, <1>3, <1>4, <1>5 DEF SaveStands, LoadStands, EndPcs
  <1> QED BY <1>3, <1>6 DEF Stands, LibraryStands, Decoded

\* Reading the primary, or turning to the last known good.
LEMMA ReadPrimaryStands ==
    ASSUME TypeInv, Stands, ReadPrimary PROVE Stands'
  <1>1. /\ pc = "read_primary" /\ UNCHANGED root
        /\ Prim' = Prim /\ Back' = Back /\ Jour' = Jour
    BY DEF ReadPrimary, Prim, Back, Jour
  <1>2. FilesStand /\ Newer(settled, settled)
    BY DEF Stands, Newer
  <1>3. CASE LoadFails
    BY <1>1, <1>3, CalmStands DEF LoadFails, Leave
  <1>4. CASE Prim \notin {NoFile, Corrupt} /\ Loaded(Prim, Prim)
    <2>1. UNCHANGED settled
      BY <1>4 DEF Loaded, Continue
    <2>2. FilesStand' /\ Newer(Prim, settled)
      BY <1>1, <1>2, <1>4, <2>1 DEF FilesStand
    <2> QED BY <1>1, <1>4, <2>2, LoadedStands
  <1>5. CASE Prim = NoFile /\ Loaded(DefaultSnapshot, NoFile)
    <2>1. UNCHANGED settled
      BY <1>5 DEF Loaded, Continue
    <2>2. FilesStand' /\ settled = DefaultSnapshot
      BY <1>1, <1>2, <1>5, <2>1 DEF FilesStand
    <2> QED BY <1>1, <1>2, <1>5, <2>2, LoadedStands
  <1>6. CASE Continue("restore_primary") /\ UNCHANGED lib
    <2>1. UNCHANGED <<held, accepted, settled>> /\ pc' = "restore_primary"
      BY <1>6 DEF Continue
    <2>2. FilesStand'
      BY <1>1, <1>2, <2>1 DEF FilesStand
    <2>3. ~lib.blocked => Jour = NoFile
      BY <1>1 DEF Stands, LoadStands
    <2>4. SaveStands' /\ LoadStands'
      BY <1>1, <1>6, <2>1, <2>3 DEF SaveStands, LoadStands, EndPcs
    <2> QED BY <2>1, <2>2, <2>4 DEF Stands, LibraryStands, Decoded
  <1> QED BY <1>3, <1>4, <1>5, <1>6 DEF ReadPrimary, Prim

\* Restoring the primary from the last known good.
LEMMA RestorePrimaryStands ==
    ASSUME TypeInv, Stands, RestorePrimary PROVE Stands'
  <1>1. PICK r \in WriteVerified(root, "primary", Back) :
          root' = r.dir /\ IF r.ok THEN Loaded(Back, Back) ELSE LoadFails
    BY DEF RestorePrimary, Back
  <1>2. /\ pc = "restore_primary" /\ "last_good" \in RootFiles /\ "journal" \in RootFiles
        /\ "primary" \in RootFiles /\ Back \in Snapshots
    BY DEF RestorePrimary, RootFiles, TypeInv, Control, Back
  <1>3. Back \in RootType["primary"]
    BY <1>2, RootDomain
  <1>4. /\ r.ok \in BOOLEAN
        /\ \A q \in RootFiles \ {"primary"} : root'[q].now = root[q].now
        /\ root'["primary"].now \in {root["primary"].now, Back}
        /\ r.ok => Prim' = Back
    BY <1>1, <1>2, <1>3, WriteSeen DEF Prim
  <1>5. PICK d \in RootMidway : \A f \in Deciding : root'[f].now = d[f].now
    <2>1. root \in RootMidway /\ Put(root, "primary", Back) \in RootMidway
      BY <1>2 DEF RootMidway, Back
    <2>2. /\ Put(root, "primary", Back)["primary"].now = Back
          /\ \A f \in RootFiles \ {"primary"} : Put(root, "primary", Back)[f] = root[f]
      BY <1>2, StandTypes, PutFiles
    <2>3. Deciding \subseteq RootFiles
      BY DEF Deciding, RootFiles
    <2> QED BY <1>4, <2>1, <2>2, <2>3
  <1>6. UNCHANGED <<held, accepted, settled>>
    BY <1>1 DEF Loaded, LoadFails, Continue
  <1>7. FilesStand'
    BY <1>5, <1>6, MidwayStands
  <1>8. Back # NoFile /\ Newer(Back, settled) /\ Jour' = Jour
    BY <1>2, <1>4, StandTypes DEF Stands, FilesStand, Jour
  <1>9. CASE r.ok
    BY <1>1, <1>2, <1>4, <1>7, <1>8, <1>9, LoadedStands
  <1>10. CASE ~r.ok
    <2>1. pc' = "idle"
      BY <1>1, <1>10 DEF LoadFails, Leave
    <2>2. SaveStands' /\ LoadStands'
      BY <2>1 DEF SaveStands, LoadStands, EndPcs
    <2> QED BY <1>6, <1>7, <2>2 DEF Stands, LibraryStands, Decoded
  <1> QED BY <1>4, <1>9, <1>10

\* The call ends: what it reports without pending maintenance is what both
\* files hold, unless one has decayed.
LEMMA ReturnStands ==
    ASSUME TypeInv, Stands, Return PROVE Stands'
  <1>1. /\ pc = "return" /\ UNCHANGED root
        /\ Prim' = Prim /\ Back' = Back /\ Jour' = Jour
    BY DEF Return, Prim, Back, Jour
  <1>2. /\ lib \in Libraries /\ LibraryStands(lib) /\ lib.baseline = Prim
        /\ ~lib.blocked => Jour = NoFile
    BY <1>1 DEF TypeInv, Control, EndPcs, Stands, LoadStands
  <1>3. FilesStand /\ Newer(accepted, settled)
    BY DEF Stands
  <1>4. pc' \in {"idle", "begin"} /\ held' = lib
    BY DEF Return, Accept, Report, Leave
  <1>5. SaveStands' /\ LoadStands'
    BY <1>4 DEF SaveStands, LoadStands, EndPcs
  <1>6. CASE UNCHANGED <<accepted, settled>>
    BY <1>1, <1>2, <1>3, <1>4, <1>5, <1>6 DEF Stands, FilesStand, LibraryStands, Decoded
  <1>7. CASE Report
    <2>1. accepted' = lib.snapshot /\ settled' = IF lib.blocked THEN settled ELSE lib.snapshot
      BY <1>7 DEF Report
    <2>2. Newer(lib.snapshot, settled)
      BY <1>2 DEF LibraryStands
    <2>3. Newer(lib.snapshot, settled')
      BY <2>1, <2>2 DEF Newer
    <2>4. FilesStand'
      <3>1. CASE settled' = settled
        BY <1>1, <1>3, <3>1 DEF FilesStand
      <3>2. CASE ~lib.blocked
        <4>1. Jour = NoFile /\ settled' = lib.snapshot
          BY <1>2, <2>1, <3>2
        <4>2. Prim \in Snapshots \cup {NoFile} /\ Back \in Snapshots \cup {NoFile, Corrupt}
          BY <1>2, StandTypes
        <4>3. Prim = Back \/ (Back = Corrupt /\ Prim # NoFile)
          BY <1>3, <4>1, <4>2, StandTypes DEF FilesStand
        <4>4. lib.snapshot = IF Prim = NoFile THEN DefaultSnapshot ELSE Prim
          BY <1>2 DEF LibraryStands, Decoded
        <4>5. \A c \in {Prim, Back} \ {NoFile, Corrupt} : Newer(c, lib.snapshot)
          BY <4>3, <4>4 DEF Newer
        <4> QED BY <1>1, <4>1, <4>3, <4>4, <4>5, StandTypes DEF FilesStand
      <3> QED BY <2>1, <3>1, <3>2
    <2> QED BY <1>2, <1>4, <1>5, <2>1, <2>3, <2>4 DEF Stands, LibraryStands, Decoded
  <1> QED BY <1>6, <1>7 DEF Return, Accept

\* The commands of the worker.
LEMMA UserStands ==
    ASSUME TypeInv, Stands, User PROVE Stands'
  <1>1. UNCHANGED <<root, accepted, settled>>
    BY DEF User, Open, Retry, Discard, Resolve, Quit, Commit, Vanish
  <1>2. pc' \in {"idle", "begin", "recover_journal"}
    BY DEF User, Open, Retry, Discard, Resolve, Quit, Commit, Vanish, Leave, TypeInv, Control
  <1>3. held' = held \/ held' = NoLibrary
    BY DEF User, Open, Retry, Discard, Resolve, Quit, Commit, Vanish
  <1> QED BY <1>1, <1>2, <1>3, DistinctAssumption, CalmStands

\* A read that reports an error.
LEMMA ReadFaultStands ==
    ASSUME TypeInv, Stands, ReadFault PROVE Stands'
  <1>1. UNCHANGED root /\ Prim' = Prim /\ Back' = Back /\ Jour' = Jour
    BY DEF ReadFault, Prim, Back, Jour
  <1>2. CASE Fail \/ LoadFails
    BY <1>1, <1>2, CalmStands DEF Fail, LoadFails, Leave
  <1>3. CASE pc \in {"recover_intent", "settle", "rollback"} /\ Noting(TRUE, "return")
    <2>1. /\ UNCHANGED <<held, accepted, settled>> /\ pc' = "return"
          /\ lib' = [lib EXCEPT !.blocked = @ \/ TRUE]
      BY <1>3 DEF Noting, Continue
    <2> QED BY <1>1, <1>3, <2>1, EndStands DEF EndPcs
  <1>4. CASE pc = "read_primary" /\ Continue("restore_primary") /\ UNCHANGED lib
    <2>1. UNCHANGED <<held, accepted, settled>> /\ pc' = "restore_primary"
      BY <1>4 DEF Continue
    <2>2. FilesStand'
      BY <1>1, <2>1 DEF Stands, FilesStand
    <2>3. ~lib.blocked => Jour = NoFile
      BY <1>4 DEF Stands, LoadStands
    <2>4. SaveStands' /\ LoadStands'
      BY <1>1, <1>4, <2>1, <2>3 DEF SaveStands, LoadStands, EndPcs
    <2> QED BY <2>1, <2>2, <2>4 DEF Stands, LibraryStands, Decoded
  <1> QED BY <1>2, <1>3, <1>4 DEF ReadFault

\* A killed process.
LEMMA KillStands ==
    ASSUME TypeInv, Stands, Kill PROVE Stands'
  <1>1. root' \in RootMidway /\ UNCHANGED <<accepted, settled>>
        /\ held' = NoLibrary /\ pc' = "idle"
    BY DEF Kill, Vanish, Leave
  <1>2. FilesStand'
    BY <1>1, MidwayStands
  <1>3. SaveStands' /\ LoadStands'
    BY <1>1 DEF SaveStands, LoadStands, EndPcs
  <1> QED BY <1>1, <1>2, <1>3, DistinctAssumption DEF Stands

\* A file that decays between two calls.
LEMMA DecayStands ==
    ASSUME TypeInv, Stands, NEW f \in RootFiles, Decay(f) PROVE Stands'
  <1>1. /\ root[f].now \notin {NoFile, Corrupt}
        /\ root' = [root EXCEPT ![f] = [now |-> Corrupt, may |-> {Corrupt}]]
        /\ UNCHANGED <<held, pc, accepted, settled>> /\ call = "none"
    BY DEF Decay
  <1>2. pc = "idle"
    BY <1>1 DEF TypeInv, Control
  <1>3. DOMAIN root = RootFiles /\ {"primary", "last_good", "journal"} \subseteq RootFiles
    BY StandTypes, RootDomain DEF IsDirectory, RootFiles
  <1>4. \A q \in RootFiles : root'[q].now = IF q = f THEN Corrupt ELSE root[q].now
    BY <1>1, <1>3
  <1>5. /\ Prim' = IF f = "primary" THEN Corrupt ELSE Prim
        /\ Back' = IF f = "last_good" THEN Corrupt ELSE Back
        /\ Jour' = IF f = "journal" THEN Corrupt ELSE Jour
    BY <1>3, <1>4 DEF Prim, Back, Jour
  <1>6. FilesStand
    BY DEF Stands
  <1>7. FilesStand'
    <2>1. CASE f = "primary"
      <3>1. Prim' = Corrupt /\ Back' = Back /\ Jour' = Jour /\ Prim \notin {NoFile, Corrupt}
        BY <1>1, <1>5, <2>1 DEF Prim
      <3> QED BY <1>1, <1>6, <3>1, StandTypes DEF FilesStand
    <2>2. CASE f = "last_good"
      <3>1. Prim' = Prim /\ Back' = Corrupt /\ Jour' = Jour /\ Back \notin {NoFile, Corrupt}
        BY <1>1, <1>5, <2>2 DEF Back
      <3> QED BY <1>1, <1>6, <3>1, StandTypes DEF FilesStand
    <2>3. CASE f = "journal"
      <3>1. Prim' = Prim /\ Back' = Back /\ Jour' = Corrupt
        BY <1>5, <2>3
      <3> QED BY <1>1, <1>6, <3>1, StandTypes DEF FilesStand
    <2>4. CASE f \notin {"primary", "last_good", "journal"}
      <3>1. Prim' = Prim /\ Back' = Back /\ Jour' = Jour
        BY <1>5, <2>4
      <3> QED BY <1>1, <1>6, <3>1 DEF FilesStand
    <2> QED BY <2>1, <2>2, <2>3, <2>4
  <1>8. SaveStands' /\ LoadStands'
    BY <1>1, <1>2 DEF SaveStands, LoadStands, EndPcs
  <1> QED BY <1>1, <1>7, <1>8 DEF Stands, LibraryStands, Decoded

\* At the start the primary is its own backup.
LEMMA InitStands == Init => Stands
  <1> SUFFICES ASSUME Init PROVE Stands
    OBVIOUS
  <1>1. PICK s \in Installed :
          /\ root = [f \in RootFiles |->
                       OnDisk(IF f \in {"primary", "last_good"} THEN s ELSE NoFile)]
          /\ accepted = (IF s = NoFile THEN DefaultSnapshot ELSE s) /\ settled = accepted
    BY DEF Init
  <1>2. Prim = s /\ Back = s /\ Jour = NoFile
    BY <1>1 DEF Prim, Back, Jour, OnDisk, RootFiles
  <1>3. s \in Snapshots \cup {NoFile}
    BY ConstantsAssumption
  <1>4. TypeInv
    BY InitType
  <1>5. NoFile # Corrupt /\ s # Corrupt
    BY <1>3, <1>4, StandTypes
  <1>6. FilesStand
    BY <1>1, <1>2, <1>5 DEF FilesStand, Newer
  <1>7. pc = "idle" /\ held = NoLibrary
    BY DEF Init
  <1>8. SaveStands /\ LoadStands
    BY <1>7 DEF SaveStands, LoadStands, EndPcs
  <1> QED BY <1>1, <1>6, <1>7, <1>8, DistinctAssumption DEF Stands, Newer

\* Every step but a power loss keeps the files standing in.
LEMMA NextStands ==
    ASSUME TypeInv, Stands, [Next]_vars, ~PowerLoss PROVE Stands'
  <1>1. CASE SaveStep
    BY <1>1, StageStands, WriteIntentStands, PreflightStands, WriteJournalStands,
       WritePrimaryStands, WriteLastGoodStands, RemoveJournalStands DEF SaveStep
  <1>2. CASE SettleStep
    BY <1>2, SettleStepStands, RemoveIntentStands DEF SettleStep
  <1>3. CASE LoadStep
    BY <1>3, RecoverJournalStands, FinishLastGoodStands, ClearJournalStands,
       ReadPrimaryStands, RestorePrimaryStands, RecoverIntentStands DEF LoadStep
  <1>4. CASE UNCHANGED vars
    <2>1. Prim' = Prim /\ Back' = Back /\ Jour' = Jour /\ Written' = Written
      BY <1>4 DEF vars, Prim, Back, Jour, Written
    <2>2. UNCHANGED <<pc, job, held, lib, accepted, settled>>
      BY <1>4 DEF vars
    <2>3. FilesStand' /\ SaveStands' /\ LoadStands'
      BY <2>1, <2>2 DEF Stands, FilesStand, SaveStands, LoadStands, LibraryStands, Decoded
    <2> QED BY <2>2, <2>3 DEF Stands, LibraryStands, Decoded
  <1> QED BY <1>1, <1>2, <1>3, <1>4, ReturnStands, UserStands, ReadFaultStands, KillStands,
             DecayStands DEF Next, Step, Failure

\* Power losses are counted.
LEMMA NoLossBefore ==
    ASSUME TypeInv, [Next]_vars, spent'["losses"] = 0
    PROVE  spent["losses"] = 0 /\ ~PowerLoss
  <1>1. spent \in [FailureKinds -> Nat]
    BY DEF TypeInv, TypeOK
  <1>2. spent["losses"] \in Nat /\ "losses" \in FailureKinds
    BY <1>1 DEF FailureKinds
  <1>3. spent["losses"] = 0
    BY <1>2, SpentGrows
  <1>4. ~PowerLoss
    BY <1>1, <1>2 DEF PowerLoss, Spend
  <1> QED BY <1>3, <1>4

THEOREM AlwaysStandsIn == Spec => []StandsIn
  <1>1. Init => StandsIn
    BY InitStands DEF StandsIn
  <1>2. TypeInv /\ StandsIn /\ [Next]_vars => StandsIn'
    BY NextStands, NoLossBefore DEF StandsIn
  <1>3. Spec => []TypeInv
    BY InitType, NextType, PTL DEF Spec
  <1> QED BY <1>1, <1>2, <1>3, PTL DEF Spec

\* A library that was reported without pending maintenance is not lost to an
\* unreadable or decayed primary either: for every sequence of read errors,
\* decayed files, failed operations and killed processes, but no power loss,
\* no step shows the application an older one, nor another one of the same
\* revision, in its place.
THEOREM BackupAlwaysStandsIn == Spec => BackupStandsIn
  <1>1. TypeInv /\ StandsIn /\ [Next]_vars =>
          [spent["losses"] = 0 =>
             accepted'.revision > settled.revision \/ accepted' = settled]_vars
    <2> SUFFICES ASSUME TypeInv, Stands, [Next]_vars PROVE Newer(accepted', settled)
      BY DEF StandsIn, Newer
    <2>1. CASE Return
      <3>1. pc = "return"
        BY <2>1 DEF Return
      <3>2. Newer(lib.snapshot, settled) /\ Newer(accepted, settled)
        BY <3>1 DEF Stands, LoadStands, LibraryStands, EndPcs
      <3>3. accepted' = lib.snapshot \/ accepted' = accepted
        BY <2>1 DEF Return, Accept, Report
      <3> QED BY <3>2, <3>3
    <2>2. CASE ~Return
      BY <2>2, OnlyReturnReports DEF Stands
    <2> QED BY <2>1, <2>2
  <1>2. Spec => []TypeInv
    BY InitType, NextType, PTL DEF Spec
  <1> QED BY <1>1, <1>2, AlwaysStandsIn, PTL DEF Spec, BackupStandsIn

-----------------------------------------------------------------------------
(* The backup keeps the bytes that it names                                *)

\* What is known before a step while at most one kind of failure, and no
\* medium error, has come.
Unbroken ==
    /\ TypeInv /\ IntentsAreProper /\ WorkIsOnDisk /\ Synced /\ OwnIntentOnly
    /\ call = "retry" => phase \in Pending
    /\ OneFailure /\ Backed

\* A step in which no operation fails, and that leaves at most one kind of
\* failure.
Harmless ==
    /\ OneFailure' /\ \A good \in BOOLEAN : Charge(good) => good
    /\ spent'["kills"] = 0 => spent["kills"] = 0
    /\ ~ \E f \in RootFiles : Decay(f)

\* A step that leaves the bytes that the primary and its backup name, and all
\* of them unless it settles an intent.
BytesStay ==
    /\ Has(atts', Prim) /\ Has(atts', Back)
    /\ pc \notin {"settle", "rollback"} =>
         \A a \in Attachments :
           atts[Managed(a)].now # NoFile => atts'[Managed(a)].now # NoFile

LEMMA HarmlessStep ==
    ASSUME TypeInv, [Next]_vars, OneFailure' PROVE OneFailure /\ Harmless
  <1>1. \A k \in {"faults", "kills", "losses", "decays"} :
          spent[k] \in Nat /\ spent'[k] >= spent[k]
    BY SpentGrows DEF FailureKinds
  <1>2. spent["faults"] = 0 /\ spent["decays"] = 0 /\ spent'["decays"] = 0
        /\ spent'["faults"] = 0 /\ (spent'["kills"] = 0 => spent["kills"] = 0)
    BY <1>1 DEF OneFailure
  <1>3. OneKindOfFailure
    BY OneKindBefore DEF OneFailure
  <1>4. \A good \in BOOLEAN : Charge(good) => good
    BY <1>2, ChargeCounts
  <1>5. ASSUME NEW f \in RootFiles, Decay(f) PROVE FALSE
    <2>1. spent' = [spent EXCEPT !["decays"] = @ + 1] /\ spent \in [FailureKinds -> Nat]
      BY <1>5 DEF Decay, Spend, TypeInv, TypeOK
    <2>2. spent'["decays"] = spent["decays"] + 1
      BY <2>1 DEF FailureKinds
    <2> QED BY <1>2, <2>2
  <1> QED BY <1>2, <1>3, <1>4, <1>5 DEF OneFailure, Harmless

\* The intent that is worked on, and the entry at hand.
LEMMA UnbrokenWork ==
    ASSUME Unbroken, pc \in {"stage", "settle", "rollback", "remove_intent"}
    PROVE  /\ work \in Works /\ Working /\ Proper(work.kind, work.intent)
           /\ work.kind \in Intents /\ work.intent \in IntentRecords
           /\ \A a \in Entries(work.intent) :
                /\ a \in Attachments
                /\ work.kind \in {"import", "bundle"} => OldBytes(a) = NoFile
                /\ work.kind \in Erasing => NewBytes(a) = NoFile
                /\ work.kind \notin Erasing => NewBytes(a) # NoFile
  <1>1. work \in Works /\ Working
    BY DEF Unbroken, TypeInv, Control, WorkIsOnDisk, SavePcs
  <1>2. work.kind \in Intents /\ work.intent \in IntentRecords
    BY <1>1 DEF Works
  <1>3. work.intent \notin {NoFile, Corrupt} /\ root[work.kind].now = work.intent
        /\ NoFile \notin Bytes
    BY <1>1, <1>2, DistinctAssumption DEF Working
  <1>4. Proper(work.kind, work.intent)
    BY <1>2, <1>3 DEF Unbroken, IntentsAreProper, Images
  <1>5. work.kind \notin Erasing => work.kind \in {"import", "bundle", "rewrite"}
    BY <1>2 DEF Intents, Erasing
  <1> QED BY <1>1, <1>2, <1>3, <1>4, <1>5, IntentShape DEF OldBytes, NewBytes

LEMMA UnbrokenEntry ==
    ASSUME Unbroken, pc \in {"stage", "settle", "rollback"}, work.todo # {}
    PROVE  Entry \in work.todo /\ Entry \in Entries(work.intent) /\ Entry \in Attachments
  <1>1. work.todo \subseteq Entries(work.intent) /\ Entries(work.intent) \subseteq Attachments
    BY DEF Unbroken, Backed, EntriesLeft, Entries
  <1> QED BY <1>1, EntryInTodo DEF Entry

\* Half an operation on the attachments takes away bytes of the entry at hand
\* at most, which neither the primary nor its backup names.
LEMMA AttsMidwayKeeps ==
    ASSUME Unbroken, NEW e \in AttsMidway, NEW a \in Attachments,
           NEW c, c \in Images(e[Managed(a)]),
           \/ c = e[Managed(a)].now
           \/ Images(atts[Managed(a)]) = {atts[Managed(a)].now}
    PROVE  \/ atts[Managed(a)].now # NoFile => c # NoFile
           \/ /\ pc \in {"settle", "rollback"} /\ Prim = Back
              /\ Prim = NoFile \/ Prim.bytes[a] = NoFile
  <1> DEFINE m == Managed(Entry)
             g == Staged(Entry)
             New == NewBytes(Entry)
  <1>0. /\ IsDirectory(atts, AttachmentType) /\ Managed(a) \in AttachmentFiles
        /\ \A f : f.now \in Images(f)
    BY PathFacts DEF Unbroken, TypeInv, TypeOK, Images
  <1>1. CASE e = atts
    BY <1>0, <1>1
  <1>2. CASE e # atts
    <2>1. pc \in {"stage", "settle", "rollback"} /\ work.todo # {}
      BY <1>2 DEF AttsMidway
    <2>2. PICK v \in AttachmentFiles \X (Bytes \cup {Torn, NoFile}) :
            /\ e = Put(atts, v[1], v[2])
            /\ \/ /\ pc = "stage" /\ work.kind # "rewrite"
                  /\ atts[m].now = NoFile /\ v \in {<<m, Torn>>, <<m, New>>}
               \/ pc = "stage" /\ work.kind = "rewrite" /\ v = <<g, New>>
               \/ /\ pc = "settle" /\ work.kind \in Erasing
                  /\ atts[m].now = OldBytes(Entry) /\ v = <<m, NoFile>>
               \/ /\ pc = "settle" /\ work.kind = "rewrite"
                  /\ atts[m].now # New /\ atts[g].now = New /\ v = <<m, New>>
               \/ /\ pc = "settle" /\ work.kind = "rewrite"
                  /\ atts[m].now = New /\ v = <<g, NoFile>>
               \/ pc = "rollback" /\ work.kind = "rewrite" /\ v = <<g, NoFile>>
               \/ /\ pc = "rollback" /\ work.kind # "rewrite"
                  /\ atts[m].now = New /\ v = <<m, NoFile>>
      BY <1>2 DEF AttsMidway
    <2>3. v[1] \in AttachmentFiles
      OBVIOUS
    <2>4. /\ v[1] # Managed(a) => e[Managed(a)] = atts[Managed(a)]
          /\ v[1] = Managed(a) =>
               /\ e[Managed(a)].now = v[2]
               /\ Images(e[Managed(a)]) \subseteq Images(atts[Managed(a)]) \cup {v[2]}
      BY <1>0, <2>2, <2>3, PutAttachment
    <2>5. CASE v[1] # Managed(a)
      BY <1>0, <2>4, <2>5
    <2>6. CASE v[1] = Managed(a)
      <3>1. c \in {atts[Managed(a)].now, v[2]}
        BY <2>4, <2>6
      <3>2. /\ Entry \in work.todo /\ Entry \in Entries(work.intent) /\ Entry \in Attachments
        BY <2>1, UnbrokenEntry
      <3>3. /\ work.kind \in {"import", "bundle"} => OldBytes(Entry) = NoFile
            /\ work.kind \in Erasing => New = NoFile
            /\ work.kind \notin Erasing => New # NoFile
        BY <2>1, <3>2, UnbrokenWork
      <3>4. a = Entry /\ v[1] = m
        BY <2>2, <2>6, <3>2, PathFacts
      <3>5. m # g
        BY <3>2, PathFacts
      <3>6. CASE v[2] # NoFile
        BY <3>1, <3>6
      <3>7. CASE v[2] = NoFile
        <4>1. Torn # NoFile /\ "rewrite" \notin Erasing
          BY DistinctAssumption DEF Erasing
        <4>2. \/ pc = "stage" /\ work.kind # "rewrite" /\ New = NoFile
              \/ pc = "settle" /\ work.kind \in Erasing
              \/ pc = "rollback" /\ work.kind # "rewrite"
          BY <2>2, <3>3, <3>4, <3>5, <3>7, <4>1
        <4>3. pc # "stage"
          <5>1. pc = "stage" => work.kind \in Staging
            BY DEF Unbroken, WorkIsOnDisk
          <5> QED BY <3>3, <4>2, <5>1 DEF Staging, Erasing
        <4>4. /\ pc \in {"settle", "rollback"}
              /\ \/ pc = "settle" /\ work.kind \in Erasing
                 \/ pc = "rollback" /\ work.kind # "rewrite"
          BY <4>2, <4>3
        <4> QED BY <3>2, <3>4, <4>4 DEF Unbroken, Backed, SettleBacked, EndPcs
      <3> QED BY <3>6, <3>7
    <2> QED BY <2>5, <2>6
  <1> QED BY <1>1, <1>2

\* The step leaves the bytes that the backup names.
LEMMA StepKeepsBytes ==
    ASSUME Unbroken, Harmless, [Next]_vars PROVE BytesStay
  <1>0. TypeInv /\ FilesBacked
    BY DEF Unbroken, Backed
  <1>1. PICK e \in AttsMidway : Shifts(e)
    BY <1>0, NextShifts
  <1>2. ASSUME NEW a \in Attachments
        PROVE  \/ atts[Managed(a)].now # NoFile => atts'[Managed(a)].now # NoFile
               \/ /\ pc \in {"settle", "rollback"} /\ Prim = Back
                  /\ Prim = NoFile \/ Prim.bytes[a] = NoFile
    <2>1. Managed(a) \in AttachmentFiles
      BY PathFacts
    <2>2. atts'[Managed(a)].now \in Images(e[Managed(a)])
      BY <1>1, <2>1 DEF Shifts
    <2>3. CASE ~PowerLoss
      <3>1. atts'[Managed(a)].now = e[Managed(a)].now
        BY <1>1, <2>1, <2>3 DEF Shifts
      <3> QED BY <2>2, <3>1, AttsMidwayKeeps
    <2>4. CASE PowerLoss
      <3>1. spent["faults"] = 0 /\ spent["kills"] = 0
        <4>1. spent \in [FailureKinds -> Nat] /\ spent["losses"] \in Nat
          BY <1>0 DEF TypeInv, TypeOK, FailureKinds
        <4>2. spent'["losses"] = spent["losses"] + 1 /\ spent'["kills"] = spent["kills"]
          BY <2>4, <4>1 DEF PowerLoss, Spend, FailureKinds
        <4> QED BY <4>1, <4>2 DEF Harmless, Unbroken, OneFailure, OneKindOfFailure
      <3>2. Images(atts[Managed(a)]) = {atts[Managed(a)].now}
        BY <2>1, <3>1 DEF Unbroken, Synced
      <3> QED BY <2>2, <3>2, AttsMidwayKeeps
    <2> QED BY <2>3, <2>4
  <1>3. ASSUME NEW c \in {Prim, Back} PROVE Has(atts', c)
    <2>1. Has(atts, c)
      BY <1>0, <1>3 DEF FilesBacked
    <2>2. ASSUME c # NoFile, NEW a \in Recorded(c) PROVE atts'[Managed(a)].now # NoFile
      <3>1. a \in Attachments /\ c.bytes[a] # NoFile /\ atts[Managed(a)].now # NoFile
        BY <2>1, <2>2 DEF Has, Recorded
      <3> QED BY <1>2, <1>3, <2>2, <3>1
    <2> QED BY <2>2 DEF Has
  <1>4. pc \notin {"settle", "rollback"} =>
          \A a \in Attachments :
            atts[Managed(a)].now # NoFile => atts'[Managed(a)].now # NoFile
    BY <1>2
  <1> QED BY <1>3, <1>4 DEF BytesStay

\* A successful replacement leaves one image of every file.
LEMMA OneImageBacked ==
    ASSUME \A f \in Deciding : Images(root'[f]) = {root'[f].now},
           Corrupt \notin {Prim', Back', Jour'}, Has(atts', Prim'), Has(atts', Back'),
           Prim' = NoFile => Back' = NoFile,
           Prim' # Back' => Jour' # NoFile /\ Jour'.candidate = Prim'
    PROVE  FilesBacked' /\ Journaled' = {Jour'}
  <1>1. P(root') = {Prim'} /\ G(root') = {Back'} /\ J(root') = {Jour'}
    BY DEF P, G, J, Prim, Back, Jour, Deciding
  <1>2. Journaled' = {Jour'}
    BY <1>1 DEF Journaled
  <1> QED BY <1>1, <1>2 DEF FilesBacked, Has

\* A step that leaves the deciding files as they are.
LEMMA SameFilesBacked ==
    ASSUME Unbroken, Harmless, BytesStay,
           \A f \in Deciding : root'[f].now = root[f].now
                               /\ Images(root'[f]) \subseteq Images(root[f])
    PROVE  /\ FilesBacked' /\ Prim' = Prim /\ Back' = Back /\ Jour' = Jour
           /\ Journaled' \subseteq Journaled
  <1>1. Prim' = Prim /\ Back' = Back /\ Jour' = Jour
    BY DEF Prim, Back, Jour, Deciding
  <1>2. P(root') \subseteq P(root) /\ G(root') \subseteq G(root) /\ J(root') \subseteq J(root)
    BY DEF P, G, J, Deciding
  <1>3. Jour \in J(root)
    BY DEF Jour, J, Images
  <1>4. Journaled' \subseteq Journaled
    BY <1>1, <1>2, <1>3 DEF Journaled, Harmless
  <1>5. FilesBacked
    BY DEF Unbroken, Backed
  <1>6. Has(atts', Prim') /\ Has(atts', Back')
    BY <1>1 DEF BytesStay
  <1> QED BY <1>1, <1>2, <1>4, <1>5, <1>6 DEF FilesBacked, Has

\* The library a commit is derived from has its bytes, and so has an edit of it.
LEMMA HeldHas ==
    ASSUME Unbroken, call = "commit",
           pc \in {"begin", "write_intent", "stage", "preflight"}
    PROVE  /\ held \in Libraries /\ job \in Jobs /\ Prim = held.baseline
           /\ \A a \in Recorded(held.snapshot) : atts[Managed(a)].now # NoFile
           /\ job.op = "save" => Has(atts, job.candidate)
  <1>1. held \in Libraries /\ job \in Jobs
    BY DEF Unbroken, TypeInv, Control
  <1>2. Prim = held.baseline /\ Decoded(held)
    BY <1>1 DEF Unbroken, Backed, HeldBacked
  <1>3. Has(atts, Prim)
    BY DEF Unbroken, Backed, FilesBacked
  <1>4. \A a \in Recorded(held.snapshot) : atts[Managed(a)].now # NoFile
    <2>1. CASE held.baseline = NoFile
      <3>1. Recorded(held.snapshot) = {}
        BY <1>2, <2>1 DEF Decoded, DefaultSnapshot, Recorded
      <3> QED BY <3>1
    <2>2. CASE held.baseline # NoFile
      BY <1>2, <1>3, <2>2 DEF Decoded, Has
    <2> QED BY <2>1, <2>2
  <1>5. job.op = "save" => job.candidate.bytes = held.snapshot.bytes
    BY <1>1 DEF Unbroken, Backed, HeldBacked, EditKeepsBytes
  <1>6. job.op = "save" => Has(atts, job.candidate)
    BY <1>4, <1>5 DEF Has, Recorded
  <1> QED BY <1>1, <1>2, <1>4, <1>6

\* The held library, while neither the worker nor the primary changes.
LEMMA HeldStaysBacked ==
    ASSUME Unbroken, UNCHANGED <<phase, held, job, call>>,
           \/ call = "commit" /\ pc' \notin {"begin", "write_intent", "stage", "preflight",
                                             "write_journal", "write_primary"}
           \/ /\ Prim' = Prim
              /\ \/ call # "commit"
                 \/ pc \in {"begin", "write_intent", "stage", "preflight",
                            "write_journal", "write_primary"}
    PROVE  HeldBacked'
  <1>1. HeldBacked
    BY DEF Unbroken, Backed
  <1> QED BY <1>1 DEF HeldBacked, Decoded, EditKeepsBytes

\* A save that gives up before its first write of the root, and a load that
\* does.
LEMMA GivesUpBacked ==
    ASSUME Unbroken, Harmless, BytesStay,
           \A f \in Deciding : root'[f].now = root[f].now
                               /\ Images(root'[f]) \subseteq Images(root[f]),
           \/ Fail /\ pc \in {"begin", "stage", "preflight"}
           \/ LoadFails /\ pc \in LoadPcs
    PROVE  Backed'
  <1>1. FilesBacked' /\ Prim' = Prim
    BY SameFilesBacked
  <1>2. UNCHANGED <<held, job>> /\ pc' = "idle" /\ call' = "none"
    BY DEF Fail, LoadFails, Leave
  <1>3. SaveBacked' /\ SettleBacked' /\ EntriesLeft'
    BY <1>2 DEF SaveBacked, SettleBacked, EntriesLeft, EndPcs
  <1>4. HeldBacked /\ TypeInv /\ (call = "retry" => phase \in Pending)
    BY DEF Unbroken, Backed
  <1>5. CASE Fail /\ pc \in {"begin", "stage", "preflight"}
    <2>1. call = "commit" /\ phase' = "pending"
      BY <1>4, <1>5 DEF TypeInv, Control, SavePcs, Fail, Leave
    <2>2. HeldBacked'
      BY <1>1, <1>2, <1>4, <1>5, <2>1 DEF HeldBacked, Decoded, EditKeepsBytes
    <2> QED BY <1>1, <1>3, <2>2 DEF Backed
  <1>6. CASE LoadFails /\ pc \in LoadPcs
    <2>1. call \in {"open", "retry"}
      BY <1>4, <1>6 DEF TypeInv, Control
    <2>2. phase' = IF call = "open" THEN "closed" ELSE "pending"
      BY <1>6 DEF LoadFails, Leave
    <2>3. phase' \in Pending => phase \in Pending
      BY <1>4, <2>1, <2>2 DEF Pending
    <2>4. phase' # "conflict"
      BY <2>2
    <2>5. HeldBacked'
      BY <1>1, <1>2, <1>4, <2>1, <2>3, <2>4 DEF HeldBacked, Decoded, EditKeepsBytes
    <2> QED BY <1>1, <1>3, <2>5 DEF Backed
  <1> QED BY <1>5, <1>6

\* The start of a save.
LEMMA BeginBacked ==
    ASSUME Unbroken, Harmless, BytesStay, Begin PROVE Backed'
  <1>1. pc = "begin" /\ UNCHANGED <<root, atts>>
    BY DEF Begin
  <1>2. call = "commit"
    BY <1>1 DEF Unbroken, TypeInv, Control, SavePcs
  <1>3. CASE Fail
    BY <1>1, <1>3, GivesUpBacked
  <1>4. CASE \/ job.op = "save" /\ Continue("preflight")
             \/ Continue("write_intent")
    <2>1. /\ UNCHANGED <<phase, held, job, call>>
          /\ \/ pc' = "preflight" /\ job.op = "save"
             \/ pc' = "write_intent"
      BY <1>4 DEF Continue
    <2>2. FilesBacked' /\ Prim' = Prim
      BY <1>1, SameFilesBacked
    <2>3. HeldBacked'
      BY <1>1, <2>1, <2>2, HeldStaysBacked
    <2>4. job.op = "save" => Has(atts, job.candidate)
      BY <1>1, <1>2, HeldHas
    <2>5. pc' = "preflight" => Has(atts', job'.candidate)
      BY <1>1, <2>1, <2>4
    <2>6. SaveBacked' /\ SettleBacked' /\ EntriesLeft'
      BY <2>1, <2>5 DEF SaveBacked, SettleBacked, EntriesLeft, EndPcs, Has
    <2> QED BY <2>2, <2>3, <2>6 DEF Backed
  <1> QED BY <1>3, <1>4 DEF Begin

\* The candidate of an intent has the bytes of what it does not stage.
LEMMA CandidateHas ==
    ASSUME Unbroken, pc \in {"write_intent", "stage"}, call = "commit",
           work.kind \in Intents, work.intent \in IntentRecords, work.intent = Own,
           Proper(work.kind, work.intent),
           work.kind \in {"import", "bundle"} =>
             \A a \in Entries(work.intent) : atts[Managed(a)].now # NoFile
    PROVE  Has(atts, job.candidate)
  <1>1. \A a \in Recorded(held.snapshot) : atts[Managed(a)].now # NoFile
    BY HeldHas
  <1>2. work.intent.base = held.snapshot /\ work.intent.candidate = job.candidate
    BY DEF Own
  <1>3. ASSUME NEW a \in Recorded(job.candidate) PROVE atts[Managed(a)].now # NoFile
    <2>1. a \in Attachments /\ job.candidate.bytes[a] # NoFile /\ NoFile \notin Bytes
      BY DistinctAssumption DEF Recorded
    <2>2. CASE a \notin Entries(work.intent)
      <3>1. held.snapshot.bytes[a] # NoFile
        BY <1>2, <2>1, <2>2, IntentShape
      <3> QED BY <1>1, <2>1, <3>1 DEF Recorded
    <2>3. CASE a \in Entries(work.intent) /\ work.kind \notin {"import", "bundle"}
      <3>1. work.kind \in Erasing \cup {"rewrite"}
        BY <2>3 DEF Intents, Erasing
      <3>2. held.snapshot.bytes[a] \in Bytes
        BY <1>2, <2>3, <3>1, IntentShape
      <3>3. held.snapshot.bytes[a] # NoFile
        BY <2>1, <3>2
      <3> QED BY <1>1, <2>1, <3>3 DEF Recorded
    <2> QED BY <2>2, <2>3
  <1> QED BY <1>3 DEF Has

\* Writing an intent.
LEMMA WriteIntentBacked ==
    ASSUME Unbroken, Harmless, BytesStay, WriteIntent PROVE Backed'
  <1>0. pc = "write_intent" /\ work \in Works /\ TypeInv /\ UNCHANGED atts
    BY DEF WriteIntent, Unbroken, TypeInv, Control
  <1>1. PICK r \in WriteVerified(root, work.kind, work.intent) :
          /\ root' = r.dir /\ Charge(r.ok)
          /\ IF r.ok
             THEN /\ Continue(IF work.kind \in Staging THEN "stage" ELSE "preflight")
                  /\ UNCHANGED <<lib, work>>
             ELSE Fail
    BY Zenon DEF WriteIntent
  <1>2. /\ work.kind \in Intents /\ work.kind \in RootFiles
        /\ work.intent \in IntentRecords /\ work.intent \in RootType[work.kind]
        /\ \A f \in Deciding : f \in RootFiles \ {work.kind}
    BY <1>0, RootDomain DEF Works, Intents, Deciding, RootFiles
  <1>3. /\ r.ok \in BOOLEAN
        /\ \A q \in RootFiles \ {work.kind} : r.dir[q].now = root[q].now
        /\ r.ok => \A q \in RootFiles : Images(r.dir[q]) = {r.dir[q].now}
    <2>1. /\ TypeInv /\ work.kind \in RootFiles /\ work.intent \in RootType[work.kind]
          /\ r \in WriteVerified(root, work.kind, work.intent)
      BY <1>0, <1>2
    <2>2. r.ok => \A q \in RootFiles : Images(r.dir[q]) = {r.dir[q].now}
      BY <2>1, WriteSeen
    <2>3. r.ok \in BOOLEAN
      BY <2>1, WriteSeen
    <2>4. \A q \in RootFiles \ {work.kind} : r.dir[q].now = root[q].now
      BY <2>1, WriteSeen
    <2> QED BY <2>2, <2>3, <2>4
  <1>4. r.ok
    BY <1>1, <1>3 DEF Harmless
  <1>5. /\ UNCHANGED <<phase, held, job, call, work>>
        /\ pc' = IF work.kind \in Staging THEN "stage" ELSE "preflight"
    BY <1>1, <1>4 DEF Continue
  <1>6. \A f \in Deciding : root'[f].now = root[f].now
                            /\ Images(root'[f]) \subseteq Images(root[f])
    BY <1>1, <1>2, <1>3, <1>4 DEF Images
  <1>7. FilesBacked' /\ Prim' = Prim
    BY <1>6, SameFilesBacked
  <1>8. HeldBacked'
    BY <1>0, <1>5, <1>7, HeldStaysBacked
  <1>9. /\ work.intent = Own /\ Proper(work.kind, work.intent)
        /\ work.todo = Entries(work.intent) /\ call = "commit"
    BY <1>0 DEF Unbroken, OwnIntentOnly, WorkIsOnDisk, TypeInv, Control, SavePcs
  <1>10. work.kind \notin Staging => Has(atts', job'.candidate)
    BY <1>0, <1>2, <1>5, <1>9, CandidateHas DEF Staging
  <1>11. SaveBacked' /\ SettleBacked' /\ EntriesLeft'
    BY <1>5, <1>9, <1>10 DEF SaveBacked, SettleBacked, EntriesLeft, EndPcs, Has
  <1> QED BY <1>7, <1>8, <1>11 DEF Backed

\* Staging one entry.
LEMMA StageEntryBacked ==
    ASSUME Unbroken, Harmless, BytesStay, StageNew \/ StageRewrite PROVE Backed'
  <1>0. pc = "stage" /\ UNCHANGED root /\ work.todo # {}
    BY DEF StageNew, StageRewrite
  <1>1. /\ work \in Works /\ Entry \in work.todo /\ Entry \in Entries(work.intent)
        /\ work.kind # "rewrite" => NewBytes(Entry) # NoFile
        /\ work.todo \subseteq Entries(work.intent)
    <2>1. work.kind \in Staging
      BY <1>0 DEF Unbroken, WorkIsOnDisk
    <2> QED BY <1>0, <2>1, UnbrokenWork, UnbrokenEntry
            DEF Unbroken, Backed, EntriesLeft, Staging, Erasing
  <1>2. CASE Fail
    BY <1>0, <1>2, GivesUpBacked
  <1>3. CASE /\ EntryDone /\ Continue("stage")
             /\ work.kind # "rewrite" => atts'[Managed(Entry)].now = NewBytes(Entry)
    <2>1. /\ work'.kind = work.kind /\ work'.intent = work.intent
          /\ work'.todo = work.todo \ {Entry} /\ pc' = "stage"
          /\ UNCHANGED <<phase, held, job, call>>
      BY <1>1, <1>3, EntryDoneFields DEF Continue
    <2>2. FilesBacked' /\ Prim' = Prim
      BY <1>0, SameFilesBacked
    <2>3. HeldBacked'
      BY <1>0, <2>1, <2>2, HeldStaysBacked
    <2>4. ASSUME work.kind # "rewrite", NEW a \in Entries(work.intent) \ work'.todo
          PROVE  atts'[Managed(a)].now # NoFile
      <3>1. CASE a = Entry
        BY <1>1, <1>3, <2>4, <3>1
      <3>2. CASE a # Entry
        <4>1. a \in Entries(work.intent) \ work.todo /\ a \in Attachments
          BY <2>1, <2>4, <3>2 DEF Entries
        <4>2. atts[Managed(a)].now # NoFile
          BY <1>0, <2>4, <4>1 DEF Unbroken, Backed, SaveBacked
        <4> QED BY <1>0, <4>1, <4>2 DEF BytesStay
      <3> QED BY <3>1, <3>2
    <2>5. work'.kind # "rewrite" =>
            \A a \in Entries(work'.intent) \ work'.todo : atts'[Managed(a)].now # NoFile
      BY <2>1, <2>4
    <2>6. SaveBacked' /\ SettleBacked' /\ EntriesLeft'
      BY <1>1, <2>1, <2>5 DEF SaveBacked, SettleBacked, EntriesLeft, EndPcs
    <2> QED BY <2>2, <2>3, <2>6 DEF Backed
  <1>4. StageNew => Fail \/ (/\ EntryDone /\ Continue("stage")
                             /\ atts'[Managed(Entry)].now = NewBytes(Entry))
    <2>1. CASE StageNew /\ UNCHANGED atts
      BY <2>1 DEF StageNew
    <2>2. CASE StageNew /\ \E r \in WriteNew(atts, Managed(Entry), NewBytes(Entry)) :
                 /\ atts' = r.dir
                 /\ IF r.dir[Managed(Entry)].now = NewBytes(Entry)
                    THEN EntryDone /\ Continue("stage")
                    ELSE Fail
      BY <2>2
    <2> QED BY <2>1, <2>2 DEF StageNew
  <1>5. StageRewrite => Fail \/ (EntryDone /\ Continue("stage") /\ work.kind = "rewrite")
    BY DEF StageRewrite
  <1> QED BY <1>2, <1>3, <1>4, <1>5

\* Everything is staged.
LEMMA StageDoneBacked ==
    ASSUME Unbroken, Harmless, BytesStay, StageDone PROVE Backed'
  <1>1. /\ pc = "stage" /\ work.todo = {} /\ UNCHANGED <<root, atts>> /\ pc' = "preflight"
        /\ UNCHANGED <<phase, held, job, call>>
    BY DEF StageDone, Continue
  <1>2. FilesBacked' /\ Prim' = Prim
    BY <1>1, SameFilesBacked
  <1>3. HeldBacked'
    BY <1>1, <1>2, HeldStaysBacked
  <1>4. /\ work.kind \in Intents /\ work.intent \in IntentRecords
        /\ Proper(work.kind, work.intent) /\ call = "commit" /\ work.intent = Own
    BY <1>1, UnbrokenWork DEF Unbroken, WorkIsOnDisk, TypeInv, Control, SavePcs
  <1>5. work.kind \in {"import", "bundle"} =>
          \A a \in Entries(work.intent) : atts[Managed(a)].now # NoFile
    BY <1>1 DEF Unbroken, Backed, SaveBacked
  <1>6. Has(atts', job'.candidate)
    BY <1>1, <1>4, <1>5, CandidateHas
  <1>7. SaveBacked' /\ SettleBacked' /\ EntriesLeft'
    BY <1>1, <1>6 DEF SaveBacked, SettleBacked, EntriesLeft, EndPcs, Has
  <1> QED BY <1>2, <1>3, <1>7 DEF Backed

\* preflight() finds no journal, so the backup is the primary.
LEMMA PreflightBacked ==
    ASSUME Unbroken, Harmless, BytesStay, Preflight PROVE Backed'
  <1>1. pc = "preflight" /\ UNCHANGED <<root, atts>>
    BY DEF Preflight
  <1>2. CASE Fail
    BY <1>1, <1>2, GivesUpBacked
  <1>3. CASE Continue("write_journal") /\ Jour = NoFile
    <2>1. pc' = "write_journal" /\ UNCHANGED <<phase, held, job, call>>
      BY <1>3 DEF Continue
    <2>2. FilesBacked' /\ Prim' = Prim /\ Back' = Back
      BY <1>1, SameFilesBacked
    <2>3. HeldBacked'
      BY <1>1, <2>1, <2>2, HeldStaysBacked
    <2>4. Jour \in Journaled
      BY DEF Journaled, J, Jour, Images
    <2>5. Prim = Back
      BY <1>3, <2>4 DEF Unbroken, Backed, FilesBacked
    <2>6. Has(atts', job'.candidate)
      BY <1>1, <2>1 DEF Unbroken, Backed, SaveBacked
    <2>7. SaveBacked' /\ SettleBacked' /\ EntriesLeft'
      BY <2>1, <2>2, <2>5, <2>6 DEF SaveBacked, SettleBacked, EntriesLeft, EndPcs, Has
    <2> QED BY <2>2, <2>3, <2>7 DEF Backed
  <1> QED BY <1>2, <1>3 DEF Preflight, Jour

\* A replacement that has succeeded.
LEMMA Replaced ==
    ASSUME TypeInv, NEW f \in RootFiles, NEW c \in RootType[f],
           NEW r \in WriteVerified(root, f, c), root' = r.dir, r.ok
    PROVE  /\ root'[f].now = c
           /\ \A q \in RootFiles \ {f} : root'[q].now = root[q].now
           /\ \A q \in Deciding : Images(root'[q]) = {root'[q].now}
  <1>1. \A q \in RootFiles : Images(r.dir[q]) = {r.dir[q].now}
    BY WriteSeen
  <1>2. r.dir[f].now = c
    BY WriteSeen
  <1>3. \A q \in RootFiles \ {f} : r.dir[q].now = root[q].now
    BY WriteSeen
  <1>4. Deciding \subseteq RootFiles
    BY DEF Deciding, RootFiles
  <1> QED BY <1>1, <1>2, <1>3, <1>4

\* What the deciding files hold, without decay.
LEMMA BackedTypes ==
    ASSUME Unbroken
    PROVE  /\ TypeInv
           /\ Prim \in Snapshots \cup {NoFile} /\ Back \in Snapshots \cup {NoFile}
           /\ Jour \in Journals \cup {NoFile} /\ Jour \in Journaled
           /\ NoFile # Corrupt
           /\ "primary" \in RootFiles /\ "last_good" \in RootFiles /\ "journal" \in RootFiles
           /\ RootType["primary"] = Snapshots \cup {NoFile, Corrupt}
           /\ RootType["last_good"] = Snapshots \cup {NoFile, Corrupt}
           /\ RootType["journal"] = Journals \cup {NoFile, Corrupt}
           /\ \A s \in Snapshots : s \notin {NoFile, Corrupt}
           /\ \A j \in Journals : j \notin {NoFile, Corrupt} /\ j.candidate \in Snapshots
           /\ pc \in SavePcs => job.candidate \in Snapshots
  <1>1. TypeInv
    BY DEF Unbroken
  <1>2. Prim # Corrupt /\ Back # Corrupt /\ Jour # Corrupt /\ Jour \in Journaled
    BY DEF Unbroken, Backed, FilesBacked, Journaled, Prim, Back, Jour, P, G, J, Images
  <1>3. pc \in SavePcs => job \in Jobs
    BY <1>1 DEF TypeInv, Control
  <1>4. "primary" \in RootFiles /\ "last_good" \in RootFiles /\ "journal" \in RootFiles
    BY DEF RootFiles
  <1> QED BY <1>1, <1>2, <1>3, <1>4, StandTypes, RootDomain

\* Writing the journal.
LEMMA WriteJournalBacked ==
    ASSUME Unbroken, Harmless, BytesStay, WriteJournal PROVE Backed'
  <1>0. pc = "write_journal" /\ UNCHANGED atts
    BY DEF WriteJournal
  <1>1. PICK r \in WriteVerified(root, "journal", Written) :
          Charge(r.ok) /\ (r.ok => root' = r.dir /\ Continue("write_primary"))
    BY DEF WriteJournal, Written
  <1>2. Written \in Journals /\ Written.candidate = job.candidate
    <2>1. held \in Libraries /\ job \in Jobs
      BY <1>0 DEF Unbroken, TypeInv, Control, SavePcs
    <2>2. held.baseline \in Snapshots \cup {NoFile} /\ job.candidate \in Snapshots
      BY <2>1 DEF Libraries, Jobs
    <2> QED BY <2>2 DEF Written, Journals
  <1>3. Written \in RootType["journal"]
    BY <1>2, BackedTypes
  <1>4. r.ok
    <2>1. r.ok \in BOOLEAN
      BY <1>3, BackedTypes, WriteSeen
    <2> QED BY <1>1, <2>1 DEF Harmless
  <1>5. /\ Jour' = Written /\ Prim' = Prim /\ Back' = Back
        /\ \A f \in Deciding : Images(root'[f]) = {root'[f].now}
    BY <1>1, <1>3, <1>4, BackedTypes, Replaced DEF Prim, Back, Jour
  <1>6. UNCHANGED <<phase, held, job, call>> /\ pc' = "write_primary"
    BY <1>1, <1>4 DEF Continue
  <1>7. Prim = Back /\ Has(atts, job.candidate)
    BY <1>0 DEF Unbroken, Backed, SettleBacked, SaveBacked
  <1>8. FilesBacked' /\ Journaled' = {Jour'}
    BY <1>2, <1>5, <1>7, BackedTypes, OneImageBacked DEF BytesStay
  <1>9. HeldBacked'
    BY <1>0, <1>5, <1>6, HeldStaysBacked
  <1>10. Jour' # NoFile /\ Jour'.candidate = job'.candidate
    BY <1>2, <1>5, <1>6, BackedTypes
  <1>11. Has(atts', job'.candidate)
    BY <1>0, <1>6, <1>7
  <1>12. SaveBacked' /\ SettleBacked' /\ EntriesLeft'
    BY <1>5, <1>6, <1>7, <1>8, <1>10, <1>11
    DEF SaveBacked, SettleBacked, EntriesLeft, EndPcs, Has
  <1> QED BY <1>8, <1>9, <1>12 DEF Backed

\* Writing the primary.
LEMMA WritePrimaryBacked ==
    ASSUME Unbroken, Harmless, BytesStay, WritePrimary PROVE Backed'
  <1>0. pc = "write_primary" /\ UNCHANGED atts /\ call = "commit"
    BY DEF WritePrimary, Unbroken, TypeInv, Control, SavePcs
  <1>1. PICK r \in WriteVerified(root, "primary", job.candidate) :
          root' = r.dir /\ Charge(r.ok) /\ (r.ok => Continue("write_last_good"))
    BY DEF WritePrimary
  <1>2. job.candidate \in Snapshots /\ job.candidate \in RootType["primary"]
    BY <1>0, BackedTypes DEF SavePcs
  <1>3. r.ok
    <2>1. r.ok \in BOOLEAN
      BY <1>2, BackedTypes, WriteSeen
    <2> QED BY <1>1, <2>1 DEF Harmless
  <1>4. /\ Prim' = job.candidate /\ Jour' = Jour /\ Back' = Back
        /\ \A f \in Deciding : Images(root'[f]) = {root'[f].now}
    BY <1>1, <1>2, <1>3, BackedTypes, Replaced DEF Prim, Back, Jour
  <1>5. UNCHANGED <<phase, held, job, call>> /\ pc' = "write_last_good"
    BY <1>1, <1>3 DEF Continue
  <1>6. Has(atts, job.candidate) /\ Jour # NoFile /\ Jour.candidate = job.candidate
    BY <1>0, BackedTypes DEF Unbroken, Backed, SaveBacked
  <1>7. FilesBacked'
    BY <1>0, <1>2, <1>4, <1>6, BackedTypes, OneImageBacked DEF BytesStay
  <1>8. HeldBacked'
    BY <1>0, <1>5, HeldStaysBacked
  <1>9. SaveBacked' /\ SettleBacked' /\ EntriesLeft'
    BY <1>4, <1>5 DEF SaveBacked, SettleBacked, EntriesLeft, EndPcs
  <1> QED BY <1>7, <1>8, <1>9 DEF Backed

\* Writing the backup.
LEMMA WriteLastGoodBacked ==
    ASSUME Unbroken, Harmless, BytesStay, WriteLastGood PROVE Backed'
  <1>0. pc = "write_last_good" /\ UNCHANGED atts /\ call = "commit"
    BY DEF WriteLastGood, Unbroken, TypeInv, Control, SavePcs
  <1>1. PICK r \in WriteVerified(root, "last_good", job.candidate) :
          root' = r.dir /\ Charge(r.ok) /\ (r.ok => Continue("remove_journal"))
    BY DEF WriteLastGood
  <1>2. job.candidate \in Snapshots /\ job.candidate \in RootType["last_good"]
    BY <1>0, BackedTypes DEF SavePcs
  <1>3. r.ok
    <2>1. r.ok \in BOOLEAN
      BY <1>2, BackedTypes, WriteSeen
    <2> QED BY <1>1, <2>1 DEF Harmless
  <1>4. /\ Prim' = Prim /\ Jour' = Jour /\ Back' = job.candidate
        /\ \A f \in Deciding : Images(root'[f]) = {root'[f].now}
    BY <1>1, <1>2, <1>3, BackedTypes, Replaced DEF Prim, Back, Jour
  <1>5. UNCHANGED <<phase, held, job, call>> /\ pc' = "remove_journal"
    BY <1>1, <1>3 DEF Continue
  <1>6. Prim = job.candidate
    BY <1>0 DEF Unbroken, Backed, SaveBacked
  <1>7. FilesBacked'
    BY <1>2, <1>4, <1>6, BackedTypes, OneImageBacked DEF BytesStay
  <1>8. HeldBacked'
    BY <1>0, <1>5, HeldStaysBacked
  <1>9. SaveBacked' /\ SettleBacked' /\ EntriesLeft'
    BY <1>4, <1>5, <1>6 DEF SaveBacked, SettleBacked, EntriesLeft, EndPcs
  <1> QED BY <1>7, <1>8, <1>9 DEF Backed

\* Removing a journal whose primary is the backup.
LEMMA RemovedBacked ==
    ASSUME Unbroken, Harmless, BytesStay, NEW r \in RemoveFile(root, "journal"),
           root' = r.dir, Charge(r.ok), Prim = Back
    PROVE  FilesBacked' /\ Prim' = Prim /\ Back' = Back /\ r.ok /\ Jour' = NoFile
  <1>1. /\ r.ok \in BOOLEAN
        /\ \A q \in RootFiles \ {"journal"} : root'[q] = root[q]
        /\ r.ok => root'["journal"].now = NoFile
        /\ Images(root'["journal"]) \subseteq Images(root["journal"]) \cup {NoFile}
    BY BackedTypes, RemoveSeen
  <1>2. r.ok
    BY <1>1 DEF Harmless
  <1>3. Prim' = Prim /\ Back' = Back /\ Jour' = NoFile
    BY <1>1, <1>2, BackedTypes DEF Prim, Back, Jour
  <1>4. /\ P(root') = P(root) /\ G(root') = G(root)
        /\ J(root') \subseteq J(root) \cup {NoFile}
    BY <1>1, BackedTypes DEF P, G, J
  <1>5. Corrupt \notin P(root') \cup G(root') \cup J(root')
    BY <1>4, BackedTypes DEF Unbroken, Backed, FilesBacked
  <1>6. Prim = NoFile => Back = NoFile
    OBVIOUS
  <1>7. Has(atts', Prim') /\ Has(atts', Back')
    BY <1>3 DEF BytesStay
  <1> QED BY <1>2, <1>3, <1>5, <1>6, <1>7 DEF FilesBacked, Has

\* Removing the journal of a commit.
LEMMA RemoveJournalBacked ==
    ASSUME Unbroken, Harmless, BytesStay, RemoveJournal PROVE Backed'
  <1>0. pc = "remove_journal" /\ UNCHANGED atts /\ call = "commit" /\ job \in Jobs
    BY DEF RemoveJournal, Unbroken, TypeInv, Control, SavePcs
  <1>1. PICK r \in RemoveFile(root, "journal") :
          /\ root' = r.dir /\ Charge(r.ok) /\ lib' = Saved(~r.ok)
          /\ Continue(IF r.ok THEN AfterCommit ELSE "return")
          /\ work' = IF r.ok /\ job.op # "save"
                     THEN [work EXCEPT !.todo = Entries(work.intent)] ELSE work
    BY DEF RemoveJournal
  <1>2. Prim = job.candidate /\ Prim = Back
    BY <1>0 DEF Unbroken, Backed, SaveBacked, SettleBacked
  <1>3. FilesBacked' /\ Prim' = Prim /\ Back' = Back /\ r.ok
    BY <1>1, <1>2, RemovedBacked
  <1>4. UNCHANGED <<phase, held, job, call>> /\ pc' = AfterCommit /\ AfterCommit \in EndPcs
    BY <1>1, <1>3 DEF Continue, AfterCommit, EndPcs
  <1>5. HeldBacked'
    BY <1>0, <1>4, HeldStaysBacked DEF EndPcs
  <1>6. lib'.snapshot = job.candidate /\ lib'.baseline = job.candidate
    BY <1>1, SavedFields
  <1>7. job.candidate \in Snapshots
    BY <1>0, BackedTypes DEF SavePcs
  <1>8. Decoded(lib)' /\ lib'.baseline = Prim'
    BY <1>2, <1>3, <1>6, <1>7, BackedTypes DEF Decoded
  <1>9. CASE job.op = "save"
    <2>1. pc' = "return"
      BY <1>4, <1>9 DEF AfterCommit
    <2> QED BY <1>2, <1>3, <1>4, <1>5, <1>8, <2>1
            DEF Backed, SaveBacked, SettleBacked, EntriesLeft, EndPcs
  <1>10. CASE job.op # "save"
    <2>1. /\ work \in Works /\ Working /\ work.kind = job.op /\ work.intent = Own
      BY <1>0, <1>10 DEF Unbroken, WorkIsOnDisk, TypeInv, Control, SavePcs
    <2>2. /\ work'.kind = work.kind /\ work'.intent = work.intent
          /\ work'.todo = Entries(work.intent)
      BY <1>1, <1>3, <1>10, <2>1 DEF Works
    <2>3. /\ work.kind \in Intents /\ work.intent \in IntentRecords
          /\ root[work.kind].now = work.intent
      BY <2>1 DEF Works, Working
    <2>4. Proper(work.kind, work.intent)
      BY <2>3, DistinctAssumption DEF Unbroken, IntentsAreProper, Images
    <2>5. work.kind \in Erasing =>
            \A a \in Entries(work.intent) : work.intent.candidate.bytes[a] = NoFile
      BY <2>3, <2>4, IntentShape
    <2>6. work.intent.candidate = Prim
      <3>1. Own.candidate = job.candidate
        BY DEF Own
      <3> QED BY <1>2, <2>1, <3>1
    <2>7. work'.kind \in Erasing =>
            \A a \in work'.todo : Prim' = NoFile \/ Prim'.bytes[a] = NoFile
      BY <1>3, <2>2, <2>5, <2>6
    <2>8. pc' \in EndPcs
      BY <1>4
    <2> HIDE DEF Decoded
    <2>9. SaveBacked' /\ EntriesLeft'
      BY <2>2, <2>8 DEF SaveBacked, EntriesLeft, EndPcs
    <2>10. SettleBacked'
      BY <1>2, <1>3, <1>8, <2>7, <2>8 DEF SettleBacked, EndPcs
    <2> QED BY <1>3, <1>5, <2>9, <2>10 DEF Backed
  <1> QED BY <1>9, <1>10

\* A step of the end of a call that leaves the deciding files as they are, and
\* at most blocks the library.
LEMMA EndBacked ==
    ASSUME Unbroken, Harmless, BytesStay, pc \in {"recover_intent", "rollback"} \cup EndPcs,
           \A f \in Deciding : root'[f].now = root[f].now
                               /\ Images(root'[f]) \subseteq Images(root[f]),
           UNCHANGED <<phase, held, job, call>>, pc' \in {"rollback"} \cup EndPcs,
           UNCHANGED lib \/ \E b \in BOOLEAN : lib' = [lib EXCEPT !.blocked = @ \/ b],
           pc' \in {"settle", "rollback"} => work'.todo \subseteq Entries(work'.intent),
           \/ pc' = "settle" /\ work'.kind \in Erasing
           \/ pc' = "rollback" /\ work'.kind # "rewrite"
           => \A a \in work'.todo : Prim = NoFile \/ Prim.bytes[a] = NoFile
    PROVE  Backed'
  <1>1. FilesBacked' /\ Prim' = Prim /\ Back' = Back
    BY SameFilesBacked
  <1>2. lib \in Libraries
    BY DEF Unbroken, TypeInv, Control, LoadPcs, EndPcs
  <1>3. lib'.snapshot = lib.snapshot /\ lib'.baseline = lib.baseline
    BY <1>2, NotedLibrary
  <1>4. Prim = Back /\ Decoded(lib) /\ lib.baseline = Prim
    BY DEF Unbroken, Backed, SettleBacked
  <1>5. Decoded(lib)' /\ lib'.baseline = Prim'
    BY <1>1, <1>3, <1>4 DEF Decoded
  <1>6. HeldBacked'
    <2>1. pc' \notin {"begin", "write_intent", "stage", "preflight", "write_journal",
                      "write_primary"}
      BY DEF EndPcs
    <2> QED BY <1>1, <2>1, HeldStaysBacked
  <1>7. SaveBacked' /\ EntriesLeft'
    BY DEF SaveBacked, EntriesLeft, EndPcs
  <1> HIDE DEF Decoded
  <1>8. SettleBacked'
    BY <1>1, <1>4, <1>5 DEF SettleBacked, EndPcs
  <1> QED BY <1>1, <1>6, <1>7, <1>8 DEF Backed

\* Settling attachments.
LEMMA SettleStepBacked ==
    ASSUME Unbroken, Harmless, BytesStay,
           Erase \/ ReplaceManaged \/ RemoveStaged \/ VerifyStaged \/ RollBack \/ Settled
    PROVE  Backed'
  <1>1. pc \in {"settle", "rollback"} /\ UNCHANGED root
    BY DEF Erase, ReplaceManaged, RemoveStaged, VerifyStaged, RollBack, Settled
  <1>2. \/ Continue(pc) /\ UNCHANGED <<lib, work>>
        \/ Continue(pc) /\ UNCHANGED lib /\ work.todo # {}
           /\ (EntryDone \/ work' = [work EXCEPT !.todo = {}])
        \/ Continue("remove_intent") /\ UNCHANGED lib
        \/ Noting(TRUE, "return")
    <2>1. CASE Erase
      BY <2>1 DEF Erase
    <2>2. CASE ReplaceManaged \/ RemoveStaged
      BY <2>2 DEF ReplaceManaged, RemoveStaged
    <2>3. CASE VerifyStaged \/ RollBack \/ Settled
      BY <2>3 DEF VerifyStaged, RollBack, Settled
    <2> QED BY <2>1, <2>2, <2>3
  <1>3. /\ UNCHANGED <<phase, held, job, call>> /\ pc' \in {pc, "remove_intent", "return"}
        /\ UNCHANGED lib \/ \E b \in BOOLEAN : lib' = [lib EXCEPT !.blocked = @ \/ b]
    BY <1>2 DEF Noting, Continue
  <1>4. pc' \in {"settle", "rollback"} =>
          /\ pc' = pc /\ work'.kind = work.kind /\ work'.intent = work.intent
          /\ work'.todo \subseteq work.todo
    <2>1. work \in Works
      BY <1>1, UnbrokenWork
    <2>2. CASE Continue(pc) /\ UNCHANGED work
      BY <2>2 DEF Continue
    <2>3. CASE Continue(pc) /\ EntryDone
      BY <2>1, <2>3, EntryDoneFields DEF Continue
    <2>4. CASE Continue(pc) /\ work' = [work EXCEPT !.todo = {}]
      BY <2>1, <2>4 DEF Continue, Works
    <2>5. CASE Continue("remove_intent") \/ Noting(TRUE, "return")
      BY <2>5 DEF Continue, Noting
    <2> QED BY <1>2, <2>2, <2>3, <2>4, <2>5
  <1>5. /\ work.todo \subseteq Entries(work.intent)
        /\ \/ pc = "settle" /\ work.kind \in Erasing
           \/ pc = "rollback" /\ work.kind # "rewrite"
           => \A a \in work.todo : Prim = NoFile \/ Prim.bytes[a] = NoFile
    BY <1>1 DEF Unbroken, Backed, SettleBacked, EntriesLeft
  <1>6. pc' \in {"rollback"} \cup EndPcs /\ pc \in {"recover_intent", "rollback"} \cup EndPcs
    BY <1>1, <1>3 DEF EndPcs
  <1>7. pc' \in {"settle", "rollback"} => work'.todo \subseteq Entries(work'.intent)
    BY <1>4, <1>5
  <1>8. \/ pc' = "settle" /\ work'.kind \in Erasing
        \/ pc' = "rollback" /\ work'.kind # "rewrite"
        => \A a \in work'.todo : Prim = NoFile \/ Prim.bytes[a] = NoFile
    BY <1>4, <1>5
  <1> QED BY <1>1, <1>3, <1>6, <1>7, <1>8, EndBacked

\* Removing an intent.
LEMMA RemoveIntentBacked ==
    ASSUME Unbroken, Harmless, BytesStay, RemoveIntent PROVE Backed'
  <1>1. PICK r \in RemoveFileDurable(root, work.kind) :
          root' = r.dir /\ Charge(r.ok) /\ Noting(~r.ok, "return")
    BY DEF RemoveIntent
  <1>2. pc = "remove_intent" /\ work \in Works /\ TypeInv
    BY DEF RemoveIntent, Unbroken, TypeInv, Control
  <1>3. /\ work.kind \in Intents /\ work.kind \in RootFiles
        /\ \A f \in Deciding : f \in RootFiles \ {work.kind}
    BY <1>2 DEF Works, Intents, Deciding, RootFiles
  <1>4. r.ok \in BOOLEAN
    BY RemoveFileDurableOutcome
  <1>5. r.ok
    BY <1>1, <1>4 DEF Harmless
  <1>6. \A f \in RootFiles \ {work.kind} :
          root'[f].now = root[f].now /\ Images(root'[f]) \subseteq Images(root[f])
    <2> DEFINE e == Put(root, work.kind, NoFile)
    <2>1. IsDirectory(root, RootType) /\ NoFile \in RootType[work.kind]
      BY <1>2, <1>3, StandTypes, RootDomain
    <2>2. /\ IsDirectory(e, RootType)
          /\ \A q \in RootFiles \ {work.kind} : e[q] = root[q]
      BY <1>3, <2>1, PutFiles, PutType, RootDomain
    <2>3. r.dir \in {root, e, Sync(e)}
      BY RemoveFileDurableOutcome
    <2> HIDE DEF e
    <2>4. \A q \in RootFiles : Sync(e)[q].now = e[q].now /\ Images(Sync(e)[q]) = {e[q].now}
      BY <2>2, SyncFiles
    <2>5. \A q \in RootFiles : root[q].now \in Images(root[q])
      BY DEF Images
    <2> QED BY <1>1, <2>2, <2>3, <2>4, <2>5
  <1>7. /\ UNCHANGED <<phase, held, job, call>> /\ pc' = "return"
        /\ (~r.ok) \in BOOLEAN /\ lib' = [lib EXCEPT !.blocked = @ \/ ~r.ok]
    BY <1>1, <1>4 DEF Noting, Continue
  <1> QED BY <1>2, <1>3, <1>6, <1>7, EndBacked DEF EndPcs

\* Deciding what becomes of an intent: what is rolled back the base does not
\* record, and what is erased the candidate does not.
LEMMA RecoverIntentBacked ==
    ASSUME Unbroken, Harmless, BytesStay, RecoverIntent PROVE Backed'
  <1>1. pc = "recover_intent" /\ UNCHANGED root
    BY DEF RecoverIntent
  <1>2. CASE \E b \in BOOLEAN : Noting(b, "return")
    <2>1. /\ UNCHANGED <<phase, held, job, call>> /\ pc' = "return"
          /\ \E b \in BOOLEAN : lib' = [lib EXCEPT !.blocked = @ \/ b]
      BY <1>2 DEF Noting, Continue
    <2> QED BY <1>1, <2>1, EndBacked DEF EndPcs
  <1>3. CASE \E k \in Intents : \E i, entries, l :
               /\ i = root[k].now /\ i \notin {NoFile, Corrupt}
               /\ work' = [kind |-> k, intent |-> i, todo |-> entries]
               /\ Continue(l) /\ UNCHANGED lib
               /\ \/ /\ l = "rollback" /\ lib.snapshot = i.base
                     /\ entries = IF k \in Staging THEN Entries(i) ELSE {}
                  \/ /\ l = "settle" /\ entries = Entries(i)
                     /\ lib.snapshot = i.candidate \/ Descends(k, i, lib.snapshot)
    <2>0. PICK k \in Intents : \E i, entries, l :
               /\ i = root[k].now /\ i \notin {NoFile, Corrupt}
               /\ work' = [kind |-> k, intent |-> i, todo |-> entries]
               /\ Continue(l) /\ UNCHANGED lib
               /\ \/ /\ l = "rollback" /\ lib.snapshot = i.base
                     /\ entries = IF k \in Staging THEN Entries(i) ELSE {}
                  \/ /\ l = "settle" /\ entries = Entries(i)
                     /\ lib.snapshot = i.candidate \/ Descends(k, i, lib.snapshot)
      BY <1>3
    <2>1. PICK i, entries, l :
               /\ i = root[k].now /\ i \notin {NoFile, Corrupt}
               /\ work' = [kind |-> k, intent |-> i, todo |-> entries]
               /\ Continue(l) /\ UNCHANGED lib
               /\ \/ /\ l = "rollback" /\ lib.snapshot = i.base
                     /\ entries = IF k \in Staging THEN Entries(i) ELSE {}
                  \/ /\ l = "settle" /\ entries = Entries(i)
                     /\ lib.snapshot = i.candidate \/ Descends(k, i, lib.snapshot)
      BY <2>0
    <2>2. i \in IntentRecords
      <3>1. root[k].now \in RootType[k] /\ k \in RootFiles
        BY RootDomain DEF Unbroken, TypeInv, TypeOK, IsDirectory, RootFiles
      <3>2. RootType[k] = IntentRecords \cup {NoFile, Corrupt}
        BY RootDomain
      <3> QED BY <2>1, <3>1, <3>2
    <2>3. Proper(k, i)
      BY <2>1 DEF Unbroken, IntentsAreProper, Images
    <2>4. \A a \in Entries(i) :
            /\ k \in {"import", "bundle"} => i.base.bytes[a] = NoFile
            /\ k \in Erasing => i.candidate.bytes[a] = NoFile
      BY <2>2, <2>3, IntentShape
    <2>5. Prim = NoFile \/ lib.snapshot = Prim
      BY <1>1 DEF Unbroken, Backed, SettleBacked, Decoded
    <2>6. /\ UNCHANGED <<phase, held, job, call, lib>> /\ pc' = l /\ l \in {"rollback", "settle"}
          /\ work'.kind = k /\ work'.intent = i /\ work'.todo = entries
      BY <2>1 DEF Continue
    <2>7. entries \subseteq Entries(i)
      BY <2>1
    <2>8. ASSUME l = "settle", k \in Erasing, NEW a \in entries
          PROVE  Prim = NoFile \/ Prim.bytes[a] = NoFile
      <3>1. a \in Entries(i) /\ i.candidate.bytes[a] = NoFile
        BY <2>4, <2>7, <2>8
      <3>2. lib.snapshot.bytes[a] = i.candidate.bytes[a]
        BY <2>1, <2>8, <3>1 DEF Descends
      <3> QED BY <2>5, <3>1, <3>2
    <2>9. ASSUME l = "rollback", k # "rewrite", NEW a \in entries
          PROVE  Prim = NoFile \/ Prim.bytes[a] = NoFile
      <3>1. k \in {"import", "bundle"} /\ a \in Entries(i) /\ lib.snapshot = i.base
        BY <2>1, <2>9 DEF Staging
      <3> QED BY <2>4, <2>5, <3>1
    <2>10. pc' \in {"rollback"} \cup EndPcs /\ work'.todo \subseteq Entries(work'.intent)
      BY <2>6, <2>7 DEF EndPcs
    <2>11. \/ pc' = "settle" /\ work'.kind \in Erasing
           \/ pc' = "rollback" /\ work'.kind # "rewrite"
           => \A a \in work'.todo : Prim = NoFile \/ Prim.bytes[a] = NoFile
      BY <2>6, <2>8, <2>9
    <2> QED BY <1>1, <2>6, <2>10, <2>11, EndBacked
  <1>4. \/ \E b \in BOOLEAN : Noting(b, "return")
        \/ \E k \in Present :
            /\ Present = {k} /\ root[k].now # Corrupt
            /\ LET i == root[k].now
                   Take(entries, l) ==
                     /\ work' = [kind |-> k, intent |-> i, todo |-> entries]
                     /\ Continue(l) /\ UNCHANGED lib
               IN \/ lib.snapshot = i.base
                     /\ Take(IF k \in Staging THEN Entries(i) ELSE {}, "rollback")
                  \/ (lib.snapshot = i.candidate \/ Descends(k, i, lib.snapshot))
                     /\ Take(Entries(i), "settle")
    BY DEF RecoverIntent
  <1>5. \A k \in Present : k \in Intents /\ root[k].now # NoFile
    BY DEF Present
  <1> QED BY <1>2, <1>3, <1>4, <1>5

\* A load goes on with the files as they are, and before it has read a library.
LEMMA LoadGoesOnBacked ==
    ASSUME Unbroken, pc \in LoadPcs, FilesBacked', Prim' = Prim,
           UNCHANGED <<phase, held, job, call>>,
           \/ pc' \in {"clear_journal", "read_primary", "restore_primary"} /\ Prim' = Back'
           \/ pc' = "finish_last_good" /\ Jour' # NoFile /\ Prim' = Jour'.candidate
    PROVE  Backed'
  <1>1. call # "commit"
    BY DEF Unbroken, TypeInv, Control
  <1>2. HeldBacked'
    BY <1>1, HeldStaysBacked
  <1>3. SaveBacked' /\ SettleBacked' /\ EntriesLeft'
    BY DEF SaveBacked, SettleBacked, EntriesLeft, EndPcs
  <1> QED BY <1>2, <1>3 DEF Backed

\* The journal is found, finished or rolled back, or refused.
LEMMA RecoverJournalBacked ==
    ASSUME Unbroken, Harmless, BytesStay, RecoverJournal PROVE Backed'
  <1>1. pc = "recover_journal" /\ UNCHANGED root
    BY DEF RecoverJournal
  <1>2. pc \in LoadPcs
    BY <1>1 DEF LoadPcs
  <1>3. FilesBacked' /\ Prim' = Prim /\ Back' = Back /\ Jour' = Jour
    BY <1>1, SameFilesBacked
  <1>4. CASE LoadFails
    BY <1>1, <1>2, <1>4, GivesUpBacked
  <1>5. CASE \E l : /\ Continue(l)
                    /\ \/ l = "read_primary" /\ Jour \in {NoFile, Corrupt}
                       \/ l = "finish_last_good" /\ Jour # NoFile /\ Prim = Jour.candidate
                       \/ l = "clear_journal" /\ Jour # NoFile /\ Prim # Jour.candidate
    <2>1. PICK l : /\ Continue(l)
                   /\ \/ l = "read_primary" /\ Jour \in {NoFile, Corrupt}
                      \/ l = "finish_last_good" /\ Jour # NoFile /\ Prim = Jour.candidate
                      \/ l = "clear_journal" /\ Jour # NoFile /\ Prim # Jour.candidate
      BY <1>5
    <2>2. UNCHANGED <<phase, held, job, call>> /\ pc' = l
      BY <2>1 DEF Continue
    <2>3. Prim # Back => Jour # NoFile /\ Jour.candidate = Prim
      BY BackedTypes DEF Unbroken, Backed, FilesBacked
    <2>4. Jour # Corrupt
      BY BackedTypes
    <2> QED BY <1>2, <1>3, <2>1, <2>2, <2>3, <2>4, LoadGoesOnBacked
  <1> QED BY <1>4, <1>5 DEF RecoverJournal, Jour, Prim

\* The backup catches up with a primary that the journal commits.
LEMMA FinishLastGoodBacked ==
    ASSUME Unbroken, Harmless, BytesStay, FinishLastGood PROVE Backed'
  <1>0. pc = "finish_last_good" /\ UNCHANGED atts
    BY DEF FinishLastGood
  <1>1. PICK r \in WriteVerified(root, "last_good", Jour.candidate) :
          /\ root' = r.dir /\ Charge(r.ok)
          /\ Noting(~r.ok, IF r.ok THEN "clear_journal" ELSE "read_primary")
    BY DEF FinishLastGood, Jour
  <1>2. Jour # NoFile /\ Prim = Jour.candidate
    BY <1>0 DEF Unbroken, Backed, SettleBacked
  <1>3. Jour \in Journals /\ Jour.candidate \in RootType["last_good"]
    BY <1>2, BackedTypes
  <1>4. r.ok
    <2>1. r.ok \in BOOLEAN
      BY <1>3, BackedTypes, WriteSeen
    <2> QED BY <1>1, <2>1 DEF Harmless
  <1>5. /\ Prim' = Prim /\ Jour' = Jour /\ Back' = Prim
        /\ \A f \in Deciding : Images(root'[f]) = {root'[f].now}
    BY <1>1, <1>2, <1>3, <1>4, BackedTypes, Replaced DEF Prim, Back, Jour
  <1>6. UNCHANGED <<phase, held, job, call>> /\ pc' = "clear_journal"
    BY <1>1, <1>4 DEF Noting, Continue
  <1>7. FilesBacked'
    BY <1>5, BackedTypes, OneImageBacked DEF BytesStay
  <1> QED BY <1>0, <1>5, <1>6, <1>7, LoadGoesOnBacked DEF LoadPcs

\* A journal that was finished or rolled back goes.
LEMMA ClearJournalBacked ==
    ASSUME Unbroken, Harmless, BytesStay, ClearJournal PROVE Backed'
  <1>1. PICK r \in RemoveFile(root, "journal") :
          root' = r.dir /\ Charge(r.ok) /\ Noting(~r.ok, "read_primary")
    BY DEF ClearJournal
  <1>2. pc = "clear_journal"
    BY DEF ClearJournal
  <1>3. Prim = Back
    BY <1>2 DEF Unbroken, Backed, SettleBacked
  <1>4. FilesBacked' /\ Prim' = Prim /\ Back' = Back
    BY <1>1, <1>3, RemovedBacked
  <1>5. UNCHANGED <<phase, held, job, call>> /\ pc' = "read_primary"
    BY <1>1 DEF Noting, Continue
  <1> QED BY <1>2, <1>3, <1>4, <1>5, LoadGoesOnBacked DEF LoadPcs

\* The library has been read, and is what the primary holds.
LEMMA LoadedBacked ==
    ASSUME Unbroken, pc \in {"read_primary", "restore_primary"}, FilesBacked', Prim' = Prim,
           Prim' = Back', NEW s, Loaded(s, Prim'),
           s = IF Prim' = NoFile THEN DefaultSnapshot ELSE Prim'
    PROVE  Backed'
  <1>1. lib \in Libraries /\ call # "commit"
    BY DEF Unbroken, TypeInv, Control, LoadPcs
  <1>2. lib'.snapshot = s /\ lib'.baseline = Prim'
    BY <1>1, LoadedFields
  <1>3. UNCHANGED <<phase, held, job, call>> /\ pc' = "recover_intent"
    BY DEF Loaded, Continue
  <1>4. HeldBacked'
    BY <1>1, <1>3, HeldStaysBacked
  <1>5. Decoded(lib)'
    BY <1>2 DEF Decoded
  <1> HIDE DEF Decoded
  <1>6. SaveBacked' /\ SettleBacked' /\ EntriesLeft'
    BY <1>2, <1>3, <1>5 DEF SaveBacked, SettleBacked, EntriesLeft, EndPcs
  <1> QED BY <1>4, <1>6 DEF Backed

\* Reading the primary; the backup is no other.
LEMMA ReadPrimaryBacked ==
    ASSUME Unbroken, Harmless, BytesStay, ReadPrimary PROVE Backed'
  <1>1. pc = "read_primary" /\ UNCHANGED root
    BY DEF ReadPrimary
  <1>2. pc \in LoadPcs
    BY <1>1 DEF LoadPcs
  <1>3. FilesBacked' /\ Prim' = Prim /\ Back' = Back
    BY <1>1, SameFilesBacked
  <1>4. Prim = Back
    BY <1>1 DEF Unbroken, Backed, SettleBacked
  <1>5. CASE LoadFails
    BY <1>1, <1>2, <1>5, GivesUpBacked
  <1>6. CASE Continue("restore_primary")
    BY <1>2, <1>3, <1>4, <1>6, LoadGoesOnBacked DEF Continue
  <1>7. CASE Prim # NoFile /\ Loaded(Prim, Prim)
    BY <1>1, <1>3, <1>4, <1>7, LoadedBacked
  <1>8. CASE Prim = NoFile /\ Loaded(DefaultSnapshot, NoFile)
    BY <1>1, <1>3, <1>4, <1>8, LoadedBacked
  <1> QED BY <1>5, <1>6, <1>7, <1>8 DEF ReadPrimary, Prim

\* Restoring a primary that could not be read: the backup is no other.
LEMMA RestorePrimaryBacked ==
    ASSUME Unbroken, Harmless, BytesStay, RestorePrimary PROVE Backed'
  <1>0. pc = "restore_primary" /\ UNCHANGED atts
    BY DEF RestorePrimary
  <1>1. PICK r \in WriteVerified(root, "primary", Back) :
          /\ root' = r.dir
          /\ IF r.ok THEN Loaded(Back, Back) ELSE SpendRestore("faults", MaxFaults)
    BY DEF RestorePrimary, Back
  <1>2. Back \in Snapshots /\ Back \in RootType["primary"]
    BY <1>0, BackedTypes DEF Unbroken, TypeInv, Control, Back
  <1>3. Prim = Back
    BY <1>0 DEF Unbroken, Backed, SettleBacked
  <1>4. r.ok
    <2>1. r.ok \in BOOLEAN
      BY <1>2, BackedTypes, WriteSeen
    <2>2. spent \in [FailureKinds -> Nat] /\ spent["faults"] \in Nat
      BY BackedTypes DEF TypeInv, TypeOK, FailureKinds
    <2>3. ~SpendRestore("faults", MaxFaults)
      <3> SUFFICES ASSUME SpendRestore("faults", MaxFaults) PROVE FALSE
        OBVIOUS
      <3>1. spent'["faults"] = spent["faults"] + 1
        BY <2>2 DEF SpendRestore, FailureKinds
      <3> QED BY <2>2, <3>1 DEF Harmless, OneFailure
    <2> QED BY <1>1, <2>1, <2>3
  <1>5. /\ Prim' = Back /\ Jour' = Jour /\ Back' = Back
        /\ \A f \in Deciding : Images(root'[f]) = {root'[f].now}
    BY <1>1, <1>2, <1>4, BackedTypes, Replaced DEF Prim, Back, Jour
  <1>6. FilesBacked'
    BY <1>2, <1>5, BackedTypes, OneImageBacked DEF BytesStay
  <1>7. Back # NoFile
    BY <1>2, BackedTypes
  <1> QED BY <1>0, <1>1, <1>3, <1>4, <1>5, <1>6, <1>7, LoadedBacked

\* Between two calls, and where one begins, nothing else is known.
LEMMA CalmBacked ==
    ASSUME FilesBacked', HeldBacked', pc' \in {"idle", "begin", "recover_journal"}
    PROVE  Backed'
  <1>1. SaveBacked' /\ SettleBacked' /\ EntriesLeft'
    BY DEF SaveBacked, SettleBacked, EntriesLeft, EndPcs
  <1> QED BY <1>1 DEF Backed

\* The call ends; a retry finds the library that is held.
LEMMA ReturnBacked ==
    ASSUME Unbroken, Harmless, BytesStay, Return PROVE Backed'
  <1>1. pc = "return" /\ UNCHANGED root
    BY DEF Return
  <1>2. FilesBacked' /\ Prim' = Prim
    BY <1>1, SameFilesBacked
  <1>3. Decoded(lib) /\ lib.baseline = Prim
    BY <1>1 DEF Unbroken, Backed, SettleBacked, EndPcs
  <1>4. CASE Accept
    <2>1. held' = lib /\ phase' = "ready" /\ call' = "none" /\ pc' = "idle"
      BY <1>4 DEF Accept, Report, Leave
    <2>2. Decoded(held)'
      BY <1>3, <2>1 DEF Decoded
    <2> HIDE DEF Decoded
    <2>3. HeldBacked'
      BY <1>2, <1>3, <2>1, <2>2 DEF HeldBacked, EditKeepsBytes, Pending
    <2> QED BY <1>2, <2>1, <2>3, CalmBacked
  <1>5. CASE call = "retry"
    <2>1. held \in Libraries /\ phase \in Pending
      BY <1>5 DEF Unbroken, TypeInv, Control
    <2>2. phase # "conflict" /\ Decoded(held) /\ Prim = held.baseline /\ EditKeepsBytes
      BY <1>5, <2>1 DEF Unbroken, Backed, HeldBacked
    <2>3. lib.snapshot = held.snapshot
      BY <1>3, <2>2 DEF Decoded
    <2>4. CASE /\ held' = lib /\ call' = "commit" /\ pc' = "begin"
               /\ UNCHANGED <<phase, job>>
      <3>1. Decoded(held)'
        BY <1>3, <2>4 DEF Decoded
      <3>2. EditKeepsBytes'
        BY <2>1, <2>2, <2>3, <2>4 DEF EditKeepsBytes
      <3> HIDE DEF Decoded, EditKeepsBytes
      <3>3. HeldBacked'
        BY <1>2, <1>3, <2>2, <2>4, <3>1, <3>2 DEF HeldBacked
      <3> QED BY <1>2, <2>4, <3>3, CalmBacked
    <2> QED BY <1>4, <1>5, <2>3, <2>4 DEF Return
  <1> QED BY <1>4, <1>5 DEF Return

\* The commands of the worker.
LEMMA UserBacked ==
    ASSUME Unbroken, Harmless, BytesStay, User PROVE Backed'
  <1>1. UNCHANGED root /\ call = "none"
    BY DEF User, Open, Retry, Discard, Resolve, Quit, Commit
  <1>2. FilesBacked' /\ Prim' = Prim
    BY <1>1, SameFilesBacked
  <1>3. pc = "idle" /\ HeldBacked /\ TypeInv
    BY <1>1 DEF Unbroken, Backed, TypeInv, Control
  <1>4. CASE Open \/ Retry
    <2>1. pc' = "recover_journal" /\ call' # "commit" /\ UNCHANGED <<phase, held, job>>
      BY <1>4 DEF Open, Retry
    <2>2. HeldBacked'
      BY <1>1, <1>2, <1>3, <2>1 DEF HeldBacked, Decoded, EditKeepsBytes
    <2> QED BY <1>2, <2>1, <2>2, CalmBacked
  <1>5. CASE Discard
    <2>1. phase' = "ready" /\ UNCHANGED <<held, call, pc>>
      BY <1>5 DEF Discard
    <2>2. HeldBacked'
      BY <1>1, <1>2, <1>3, <2>1 DEF HeldBacked, Decoded, EditKeepsBytes, Pending
    <2> QED BY <1>2, <1>3, <2>1, <2>2, CalmBacked
  <1>6. CASE Resolve
    <2>1. phase = "conflict"
      BY <1>6 DEF Resolve
    <2>2. held \in Libraries
      BY <1>3, <2>1 DEF TypeInv, Control
    <2> QED BY <1>3, <2>1, <2>2 DEF HeldBacked
  <1>7. CASE Quit
    <2>1. pc' = "idle" /\ held' \notin Libraries
      BY <1>7, DistinctAssumption DEF Quit, Vanish, Leave
    <2>2. HeldBacked'
      BY <2>1 DEF HeldBacked
    <2> QED BY <1>2, <2>1, <2>2, CalmBacked
  <1>8. ASSUME phase = "ready", NEW op \in Ops, NEW c \in Candidates(op, held.snapshot),
               Commit(op, c)
        PROVE  Backed'
    <2>1. /\ pc' = "begin" /\ job' = [op |-> op, candidate |-> c]
          /\ UNCHANGED <<phase, held>>
      BY <1>8 DEF Commit
    <2>2. held \in Libraries /\ held.snapshot \in Snapshots
      BY <1>3, <1>8 DEF TypeInv, Control, Libraries
    <2>3. op = "save" => c.bytes = held.snapshot.bytes
      BY <1>8, <2>2, SaveKeepsBytes
    <2>4. EditKeepsBytes'
      BY <2>1, <2>3 DEF EditKeepsBytes
    <2>5. /\ Decoded(held) /\ Prim = held.baseline
      BY <1>1, <1>3, <2>2 DEF HeldBacked
    <2>6. HeldBacked'
      BY <1>2, <1>8, <2>1, <2>4, <2>5 DEF HeldBacked, Decoded
    <2> QED BY <1>2, <2>1, <2>6, CalmBacked
  <1> QED BY <1>4, <1>5, <1>6, <1>7, <1>8 DEF User

\* A read that reports an error.
LEMMA ReadFaultBacked ==
    ASSUME Unbroken, Harmless, BytesStay, ReadFault PROVE Backed'
  <1>1. UNCHANGED root
    BY DEF ReadFault
  <1>2. FilesBacked' /\ Prim' = Prim /\ Back' = Back
    BY <1>1, SameFilesBacked
  <1>3. CASE Fail /\ pc \in {"begin", "stage", "preflight"}
    BY <1>1, <1>3, GivesUpBacked
  <1>4. CASE LoadFails /\ pc \in {"recover_journal", "read_primary"}
    <2>1. pc \in LoadPcs
      BY <1>4 DEF LoadPcs
    <2> QED BY <1>1, <1>4, <2>1, GivesUpBacked
  <1>5. CASE pc \in {"recover_intent", "settle", "rollback"} /\ Noting(TRUE, "return")
    <2>1. /\ UNCHANGED <<phase, held, job, call>> /\ pc' = "return"
          /\ lib' = [lib EXCEPT !.blocked = @ \/ TRUE]
      BY <1>5 DEF Noting, Continue
    <2> QED BY <1>1, <1>5, <2>1, EndBacked DEF EndPcs
  <1>6. CASE pc = "read_primary" /\ Continue("restore_primary")
    <2>1. pc \in LoadPcs
      BY <1>6 DEF LoadPcs
    <2>2. Prim = Back
      BY <1>6 DEF Unbroken, Backed, SettleBacked
    <2> QED BY <1>2, <1>6, <2>1, <2>2, LoadGoesOnBacked DEF Continue
  <1> QED BY <1>3, <1>4, <1>5, <1>6 DEF ReadFault

\* The operation of the current step, half done, leaves a primary p and a
\* backup g that have their bytes and that differ only by what the journals js
\* commit.
LEMMA MidwayBacked ==
    ASSUME Unbroken, Harmless, BytesStay, NEW d \in RootMidway,
           NEW p \in {Prim, d["primary"].now}, NEW g \in {Back, d["last_good"].now},
           NEW js, d["journal"] = root["journal"] => js \subseteq Journaled
    PROVE  /\ Has(atts', p) /\ Has(atts', g) /\ (p = NoFile => g = NoFile)
           /\ p # g => \A j \in js : j # NoFile /\ j.candidate = p
           /\ Corrupt \notin P(d) \cup G(d) \cup J(d)
           /\ P(d) \subseteq P(root) \cup {d["primary"].now}
           /\ G(d) \subseteq G(root) \cup {d["last_good"].now}
  <1>0. /\ FilesBacked /\ IsDirectory(root, RootType)
        /\ "primary" \in RootFiles /\ "last_good" \in RootFiles /\ "journal" \in RootFiles
        /\ Has(atts', Prim) /\ Has(atts', Back)
    BY BackedTypes, StandTypes DEF Unbroken, Backed, BytesStay
  <1>1. \A f \in RootFiles : \A c :
          /\ Put(root, f, c)[f].now = c
          /\ Images(Put(root, f, c)[f]) \subseteq Images(root[f]) \cup {c}
          /\ \A q \in RootFiles \ {f} : Put(root, f, c)[q] = root[q]
    BY <1>0, PutFiles
  <1>2. CASE /\ d["primary"] = root["primary"] /\ d["last_good"] = root["last_good"]
             /\ d["journal"] = root["journal"]
    <2>1. p = Prim /\ g = Back
      BY <1>2 DEF Prim, Back
    <2>2. P(d) = P(root) /\ G(d) = G(root) /\ J(d) = J(root)
      BY <1>2 DEF P, G, J
    <2> QED BY <1>0, <1>2, <2>1, <2>2 DEF FilesBacked
  <1>3. CASE pc = "write_journal" /\ d = Put(root, "journal", Written)
    <2>1. /\ d["primary"] = root["primary"] /\ d["last_good"] = root["last_good"]
          /\ Images(d["journal"]) \subseteq Images(root["journal"]) \cup {Written}
      BY <1>0, <1>1, <1>3
    <2>2. P(d) = P(root) /\ G(d) = G(root) /\ J(d) \subseteq J(root) \cup {Written}
      BY <2>1 DEF P, G, J
    <2>3. Written # Corrupt
      <3>1. held \in Libraries /\ job \in Jobs
        BY <1>3 DEF Unbroken, TypeInv, Control, SavePcs
      <3>2. held.baseline \in Snapshots \cup {NoFile} /\ job.candidate \in Snapshots
        BY <3>1 DEF Libraries, Jobs
      <3>3. Written \in Journals
        BY <3>2 DEF Written, Journals
      <3> QED BY <3>3, BackedTypes
    <2>4. Prim = Back
      BY <1>3 DEF Unbroken, Backed, SettleBacked
    <2>5. p = Prim /\ g = Back
      BY <2>1 DEF Prim, Back
    <2> QED BY <1>0, <2>2, <2>3, <2>4, <2>5, BackedTypes DEF FilesBacked
  <1>4. CASE pc = "write_primary" /\ d = Put(root, "primary", job.candidate)
    <2>1. /\ d["journal"] = root["journal"] /\ d["last_good"] = root["last_good"]
          /\ d["primary"].now = job.candidate
          /\ Images(d["primary"]) \subseteq Images(root["primary"]) \cup {job.candidate}
      BY <1>0, <1>1, <1>4
    <2>2. J(d) = J(root) /\ G(d) = G(root) /\ P(d) \subseteq P(root) \cup {job.candidate}
      BY <2>1 DEF P, G, J
    <2>3. job.candidate \in Snapshots /\ job.candidate \notin {NoFile, Corrupt}
      BY <1>4, BackedTypes DEF SavePcs
    <2>4. /\ Prim = Back /\ Has(atts, job.candidate)
          /\ \A j \in Journaled : j # NoFile /\ j.candidate = job.candidate
      BY <1>4 DEF Unbroken, Backed, SaveBacked, SettleBacked
    <2>5. Has(atts', job.candidate)
      BY <1>4, <2>4 DEF Has, Recorded, BytesStay
    <2>6. p \in {Prim, job.candidate} /\ g = Prim
      BY <2>1, <2>4 DEF Back
    <2> QED BY <1>0, <2>1, <2>2, <2>3, <2>4, <2>5, <2>6, BackedTypes DEF FilesBacked
  <1>5. CASE \E c : /\ d = Put(root, "last_good", c) /\ c = Prim
                    /\ Prim # NoFile
    <2>1. /\ d["journal"] = root["journal"] /\ d["primary"] = root["primary"]
          /\ d["last_good"].now = Prim
          /\ Images(d["last_good"]) \subseteq Images(root["last_good"]) \cup {Prim}
      BY <1>0, <1>1, <1>5
    <2>2. J(d) = J(root) /\ P(d) = P(root) /\ G(d) \subseteq G(root) \cup {Prim}
      BY <2>1 DEF P, G, J
    <2>3. p = Prim /\ g \in {Back, Prim}
      BY <2>1 DEF Prim
    <2> QED BY <1>0, <1>5, <2>1, <2>2, <2>3, BackedTypes DEF FilesBacked
  <1>6. CASE pc = "restore_primary" /\ d = Put(root, "primary", Back)
    <2>1. /\ d["journal"] = root["journal"] /\ d["last_good"] = root["last_good"]
          /\ d["primary"].now = Back
          /\ Images(d["primary"]) \subseteq Images(root["primary"]) \cup {Back}
      BY <1>0, <1>1, <1>6
    <2>2. J(d) = J(root) /\ G(d) = G(root) /\ P(d) \subseteq P(root) \cup {Back}
      BY <2>1 DEF P, G, J
    <2>3. Prim = Back
      BY <1>6 DEF Unbroken, Backed, SettleBacked
    <2>4. p = Prim /\ g = Prim
      BY <2>1, <2>3 DEF Back
    <2> QED BY <1>0, <2>1, <2>2, <2>3, <2>4, BackedTypes DEF FilesBacked
  <1>7. CASE pc \in {"write_intent", "remove_intent"}
    <2>1. work.kind \in RootFiles /\ work.kind \notin {"primary", "last_good", "journal"}
      BY <1>7 DEF Unbroken, TypeInv, Control, Works, RootFiles, EndPcs, Intents
    <2>2. d = root \/ \E c : d = Put(root, work.kind, c)
      BY <1>7 DEF RootMidway
    <2> QED BY <1>0, <1>1, <1>2, <2>1, <2>2
  <1>8. pc = "write_last_good" => Prim = job.candidate /\ Prim # NoFile
    BY BackedTypes DEF Unbroken, Backed, SaveBacked, SavePcs
  <1>9. pc = "finish_last_good" => Prim = Jour.candidate /\ Prim # NoFile
    <2> SUFFICES ASSUME pc = "finish_last_good" PROVE Prim = Jour.candidate /\ Prim # NoFile
      OBVIOUS
    <2>1. Prim = Jour.candidate /\ Jour # NoFile
      BY DEF Unbroken, Backed, SettleBacked
    <2>2. Prim \in Snapshots
      BY <2>1, BackedTypes
    <2> QED BY <2>1, <2>2, BackedTypes
  <1>10. \/ d = root
         \/ pc = "write_journal" /\ d = Put(root, "journal", Written)
         \/ pc = "write_primary" /\ d = Put(root, "primary", job.candidate)
         \/ pc = "write_last_good" /\ d = Put(root, "last_good", job.candidate)
         \/ pc = "finish_last_good" /\ d = Put(root, "last_good", Jour.candidate)
         \/ pc = "restore_primary" /\ d = Put(root, "primary", Back)
         \/ pc \in {"write_intent", "remove_intent"}
    BY DEF RootMidway, Written, Jour, Back
  <1> QED BY <1>2, <1>3, <1>4, <1>5, <1>6, <1>7, <1>8, <1>9, <1>10

\* The process is gone.
LEMMA VanishedBacked ==
    ASSUME FilesBacked', Vanish PROVE Backed'
  <1>1. held' \notin Libraries /\ pc' = "idle"
    BY DistinctAssumption DEF Vanish, Leave
  <1>2. HeldBacked'
    BY <1>1 DEF HeldBacked
  <1> QED BY <1>1, <1>2, CalmBacked

\* A killed process.
LEMMA KillBacked ==
    ASSUME Unbroken, Harmless, BytesStay, Kill PROVE Backed'
  <1>1. root' \in RootMidway /\ Vanish
    BY DEF Kill
  <1>2. spent'["kills"] # 0
    BY DEF Kill, Spend, SpendRestore, Unbroken, TypeInv, TypeOK, FailureKinds
  <1>3. /\ Prim' = root'["primary"].now /\ Back' = root'["last_good"].now
        /\ Journaled' = {Jour'} /\ P(root)' = P(root') /\ G(root)' = G(root')
        /\ J(root)' = J(root')
    BY <1>2 DEF Prim, Back, Jour, Journaled, P, G, J
  <1>4. root'["journal"] = root["journal"] => {Jour'} \subseteq Journaled
    BY BackedTypes DEF Jour
  <1>5. /\ Has(atts', Prim') /\ Has(atts', Back') /\ (Prim' = NoFile => Back' = NoFile)
        /\ Prim' # Back' => \A j \in {Jour'} : j # NoFile /\ j.candidate = Prim'
        /\ Corrupt \notin P(root') \cup G(root') \cup J(root')
    BY <1>1, <1>3, <1>4, MidwayBacked
  <1>6. FilesBacked'
    BY <1>3, <1>5 DEF FilesBacked, Has
  <1> QED BY <1>1, <1>6, VanishedBacked

\* A power loss, where no operation has failed and no process was killed: only
\* the removed journal, and the file being written, may be older.
LEMMA PowerLossBacked ==
    ASSUME Unbroken, Harmless, BytesStay, PowerLoss PROVE Backed'
  <1>1. PICK d \in RootMidway : root' \in AfterPowerLoss(d)
    BY DEF PowerLoss
  <1>2. \A q \in RootFiles : /\ root'[q].now \in Images(d[q])
                             /\ Images(root'[q]) = {root'[q].now}
    BY <1>1, BackedTypes, RootMidwayType, PowerLossFiles
  <1>3. spent["faults"] = 0 /\ spent["kills"] = 0
    <2>1. spent \in [FailureKinds -> Nat] /\ spent["losses"] \in Nat
      BY DEF Unbroken, TypeInv, TypeOK, FailureKinds
    <2>2. spent'["losses"] = spent["losses"] + 1 /\ spent'["kills"] = spent["kills"]
      BY <2>1 DEF PowerLoss, Spend, FailureKinds
    <2> QED BY <2>1, <2>2 DEF Harmless, Unbroken, OneFailure, OneKindOfFailure
  <1>4. P(root) = {Prim} /\ G(root) = {Back}
    BY <1>3 DEF Unbroken, Synced, P, G, Prim, Back, RootFiles
  <1>5. Journaled = J(root)
    BY <1>3 DEF Journaled
  <1>6. d["journal"] = root["journal"] => J(d) \subseteq Journaled
    BY <1>5 DEF J
  <1>7. /\ Prim' \in P(d) /\ Back' \in G(d) /\ Jour' \in J(d)
    BY <1>2, BackedTypes DEF P, G, J, Prim, Back, Jour
  <1>8. /\ d["primary"].now \in {Prim, d["primary"].now}
        /\ d["last_good"].now \in {Back, d["last_good"].now}
    OBVIOUS
  <1>9. /\ Corrupt \notin P(d) \cup G(d) \cup J(d)
        /\ P(d) \subseteq P(root) \cup {d["primary"].now}
        /\ G(d) \subseteq G(root) \cup {d["last_good"].now}
    BY <1>6, <1>8, MidwayBacked
  <1>10. Prim' \in {Prim, d["primary"].now} /\ Back' \in {Back, d["last_good"].now}
    BY <1>4, <1>7, <1>9
  <1>11. /\ Has(atts', Prim') /\ Has(atts', Back') /\ (Prim' = NoFile => Back' = NoFile)
         /\ Prim' # Back' => \A j \in J(d) : j # NoFile /\ j.candidate = Prim'
    BY <1>6, <1>10, MidwayBacked
  <1>12. Corrupt \notin {Prim', Back', Jour'}
    BY <1>7, <1>9
  <1>13. \A f \in Deciding : Images(root'[f]) = {root'[f].now}
    BY <1>2, BackedTypes DEF Deciding
  <1>14. FilesBacked'
    BY <1>7, <1>11, <1>12, <1>13, OneImageBacked
  <1> QED BY <1>14, VanishedBacked DEF PowerLoss

\* At the start the primary is its own backup, and has its bytes.
LEMMA InitBacked == Init => Backed
  <1> SUFFICES ASSUME Init PROVE Backed
    OBVIOUS
  <1>1. PICK s \in Installed :
          /\ root = [f \in RootFiles |->
                       OnDisk(IF f \in {"primary", "last_good"} THEN s ELSE NoFile)]
          /\ accepted = (IF s = NoFile THEN DefaultSnapshot ELSE s)
    BY DEF Init
  <1>2. atts = [f \in AttachmentFiles |->
                  OnDisk(IF f[1] = "bin" THEN accepted.bytes[f[2]] ELSE NoFile)]
    BY DEF Init
  <1>3. s \in Snapshots \cup {NoFile} /\ s # Corrupt /\ NoFile # Corrupt
    BY ConstantsAssumption, DistinctAssumption
  <1>4. /\ Prim = s /\ Back = s /\ P(root) = {s} /\ G(root) = {s} /\ J(root) = {NoFile}
    BY <1>1 DEF Prim, Back, P, G, J, Images, OnDisk, RootFiles
  <1>5. Has(atts, s)
    <2>1. ASSUME s # NoFile, NEW a \in Recorded(s) PROVE atts[Managed(a)].now # NoFile
      <3>1. /\ Managed(a) \in AttachmentFiles /\ Managed(a)[1] = "bin" /\ Managed(a)[2] = a
            /\ s.bytes[a] # NoFile
        BY <2>1 DEF Managed, AttachmentFiles, Recorded
      <3>2. atts[Managed(a)].now = s.bytes[a]
        BY <1>1, <1>2, <2>1, <3>1 DEF OnDisk
      <3> QED BY <3>1, <3>2
    <2> QED BY <2>1 DEF Has
  <1>6. FilesBacked
    BY <1>3, <1>4, <1>5 DEF FilesBacked
  <1>7. pc = "idle" /\ held \notin Libraries
    BY DistinctAssumption DEF Init
  <1>8. HeldBacked
    BY <1>7 DEF HeldBacked
  <1>9. SaveBacked /\ SettleBacked /\ EntriesLeft
    BY <1>7 DEF SaveBacked, SettleBacked, EntriesLeft, EndPcs
  <1> QED BY <1>6, <1>8, <1>9 DEF Backed

\* Every step keeps the bytes backed.
LEMMA NextBacked ==
    ASSUME TypeInv, Keeping, Settling, Backing, [Next]_vars PROVE Backing'
  <1> SUFFICES ASSUME OneFailure' PROVE Backed'
    BY DEF Backing
  <1>1. OneFailure /\ Harmless
    BY HarmlessStep
  <1>2. Unbroken
    BY <1>1 DEF Unbroken, Keeping, Retrying, Settling, Backing
  <1>3. BytesStay
    BY <1>1, <1>2, StepKeepsBytes
  <1>4. CASE SaveStep
    BY <1>1, <1>2, <1>3, <1>4, BeginBacked, WriteIntentBacked, StageEntryBacked,
       StageDoneBacked, PreflightBacked, WriteJournalBacked, WritePrimaryBacked,
       WriteLastGoodBacked, RemoveJournalBacked DEF SaveStep
  <1>5. CASE SettleStep
    BY <1>1, <1>2, <1>3, <1>5, SettleStepBacked, RemoveIntentBacked DEF SettleStep
  <1>6. CASE LoadStep
    BY <1>1, <1>2, <1>3, <1>6, RecoverJournalBacked, FinishLastGoodBacked,
       ClearJournalBacked, ReadPrimaryBacked, RestorePrimaryBacked, RecoverIntentBacked
    DEF LoadStep
  <1>7. CASE UNCHANGED vars
    <2>1. UNCHANGED <<root, atts, pc, phase, held, job, call, lib, work>>
      BY <1>7 DEF vars
    <2>2. FilesBacked'
      BY <1>1, <1>2, <1>3, <2>1, SameFilesBacked
    <2>3. Prim' = Prim /\ Back' = Back /\ Jour' = Jour /\ Journaled' = Journaled
      BY <1>7 DEF vars, Prim, Back, Jour, Journaled, J
    <2>4. HeldBacked' /\ EntriesLeft'
      BY <1>2, <2>1, <2>3
      DEF Unbroken, Backed, HeldBacked, EntriesLeft, Decoded, EditKeepsBytes
    <2>5. SaveBacked'
      BY <1>2, <2>1, <2>3 DEF Unbroken, Backed, SaveBacked, Has
    <2>6. SettleBacked'
      BY <1>2, <2>1, <2>3 DEF Unbroken, Backed, SettleBacked, Decoded
    <2> QED BY <2>2, <2>4, <2>5, <2>6 DEF Backed
  <1>8. ~ \E f \in RootFiles : Decay(f)
    BY <1>1 DEF Harmless
  <1> QED BY <1>1, <1>2, <1>3, <1>4, <1>5, <1>6, <1>7, <1>8, ReturnBacked, UserBacked,
             ReadFaultBacked, KillBacked, PowerLossBacked DEF Next, Step, Failure

THEOREM AlwaysBacking == Spec => []Backing
  <1>1. Init => Backing
    BY InitBacked DEF Backing
  <1>2. TypeInv /\ Keeping /\ Settling /\ Backing /\ [Next]_vars => Backing'
    BY NextBacked
  <1>3. Spec => []TypeInv
    BY InitType, NextType, PTL DEF Spec
  <1> QED BY <1>1, <1>2, <1>3, AlwaysKeeping, AlwaysSettling, PTL DEF Spec

\* The backup never outlives the bytes of an attachment that it names: for
\* every sequence of commits of every kind, read errors, discarded candidates
\* and restarts, with killed processes or with power losses but not both, and
\* without failed writes and decayed files, each of its attachments is there.
THEOREM BackupAlwaysKeepsItsBytes == Spec => []BackupKeepsItsBytes
  <1>1. Backing => BackupKeepsItsBytes
    BY DEF Backing, OneFailure, Backed, FilesBacked, Has, BackupKeepsItsBytes, Back
  <1> QED BY <1>1, AlwaysBacking, PTL
=============================================================================
