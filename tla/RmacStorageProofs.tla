-------------------------- MODULE RmacStorageProofs --------------------------
(***************************************************************************)
(* What the primitives of RmacStorage preserve, for every directory.       *)
(***************************************************************************)
EXTENDS RmacStorage, TLAPS

\* A create, rename or unlink keeps the type of the directory.
LEMMA PutType ==
    ASSUME NEW d, NEW T, IsDirectory(d, T), NEW p \in DOMAIN T, NEW c \in T[p]
    PROVE  IsDirectory(Put(d, p, c), T)
  <1>1. DOMAIN Put(d, p, c) = DOMAIN T
    BY DEF Put, IsDirectory
  <1>2. ASSUME NEW q \in DOMAIN T
        PROVE  Put(d, p, c)[q] \in [now : T[q], may : SUBSET T[q]]
    <2>1. CASE q = p
      <3>1. Put(d, p, c)[p] = [now |-> c, may |-> d[p].may \cup {c}]
        BY DEF Put, IsDirectory
      <3>2. d[p].may \subseteq T[p]
        BY DEF IsDirectory
      <3> QED BY <2>1, <3>1, <3>2
    <2>2. CASE q # p
      BY <2>2 DEF Put, IsDirectory
    <2> QED BY <2>1, <2>2
  <1> QED BY <1>1, <1>2 DEF IsDirectory

\* sync_directory keeps the type of the directory.
LEMMA SyncType ==
    ASSUME NEW d, NEW T, IsDirectory(d, T)
    PROVE  IsDirectory(Sync(d), T)
  BY DEF Sync, IsDirectory, OnDisk

\* The two fields of a result.
LEMMA ResultFields ==
    ASSUME NEW good \in BOOLEAN, NEW d
    PROVE  Result(good, d).ok = good /\ Result(good, d).dir = d
  BY DEF Result

\* A verified replacement changes nothing, replaces, or replaces and syncs;
\* only the last is reported as a success.
LEMMA WriteVerifiedOutcome ==
    ASSUME NEW d, NEW p, NEW c, NEW r \in WriteVerified(d, p, c)
    PROVE  /\ r.ok \in BOOLEAN
           /\ r.dir \in {d, Put(d, p, c), Sync(Put(d, p, c))}
           /\ r.ok => r.dir = Sync(Put(d, p, c))
  BY ResultFields DEF WriteVerified

\* The outcomes of a creation.
LEMMA WriteNewOutcome ==
    ASSUME NEW d, NEW p, NEW c, NEW r \in WriteNew(d, p, c)
    PROVE  /\ r.ok \in BOOLEAN
           /\ r.dir \in {d, Put(d, p, c), Put(d, p, Torn), Sync(Put(d, p, c)),
                         Put(Put(d, p, c), p, NoFile),
                         Put(Put(d, p, Torn), p, NoFile)}
  BY ResultFields, ZenonT(60) DEF WriteNew

\* The outcomes of an unlink: only a path that was there can fail to go.
LEMMA RemoveFileOutcome ==
    ASSUME NEW d, NEW p, NEW r \in RemoveFile(d, p)
    PROVE  /\ r.ok \in BOOLEAN
           /\ r.dir = IF r.ok /\ d[p].now # NoFile THEN Put(d, p, NoFile) ELSE d
  BY ResultFields DEF RemoveFile

\* The outcomes of a durable unlink.
LEMMA RemoveFileDurableOutcome ==
    ASSUME NEW d, NEW p, NEW r \in RemoveFileDurable(d, p)
    PROVE  /\ r.ok \in BOOLEAN
           /\ r.dir \in {d, Put(d, p, NoFile), Sync(Put(d, p, NoFile))}
  BY ResultFields DEF RemoveFileDurable

\* Every result of a verified replacement keeps the type of the directory.
LEMMA WriteVerifiedType ==
    ASSUME NEW d, NEW T, IsDirectory(d, T), NEW p \in DOMAIN T, NEW c \in T[p],
           NEW r \in WriteVerified(d, p, c)
    PROVE  IsDirectory(r.dir, T)
  <1>1. IsDirectory(Put(d, p, c), T)
    BY PutType
  <1>2. IsDirectory(Sync(Put(d, p, c)), T)
    BY <1>1, SyncType
  <1> QED BY <1>1, <1>2, WriteVerifiedOutcome

\* So does every result of a creation.
LEMMA WriteNewType ==
    ASSUME NEW d, NEW T, IsDirectory(d, T), NEW p \in DOMAIN T, NEW c \in T[p],
           NoFile \in T[p], Torn \in T[p], NEW r \in WriteNew(d, p, c)
    PROVE  IsDirectory(r.dir, T)
  <1>1. IsDirectory(Put(d, p, c), T) /\ IsDirectory(Put(d, p, Torn), T)
    BY PutType
  <1>2. IsDirectory(Sync(Put(d, p, c)), T)
    BY <1>1, SyncType
  <1>3. /\ IsDirectory(Put(Put(d, p, c), p, NoFile), T)
        /\ IsDirectory(Put(Put(d, p, Torn), p, NoFile), T)
    BY <1>1, PutType
  <1> QED BY <1>1, <1>2, <1>3, WriteNewOutcome

\* So does every result of an unlink, synced or not.
LEMMA RemoveFileType ==
    ASSUME NEW d, NEW T, IsDirectory(d, T), NEW p \in DOMAIN T, NoFile \in T[p],
           NEW r \in RemoveFile(d, p) \cup RemoveFileDurable(d, p)
    PROVE  IsDirectory(r.dir, T)
  <1>1. IsDirectory(Put(d, p, NoFile), T)
    BY PutType
  <1>2. IsDirectory(Sync(Put(d, p, NoFile)), T)
    BY <1>1, SyncType
  <1> QED BY <1>1, <1>2, RemoveFileOutcome, RemoveFileDurableOutcome

\* A power loss leaves of every path one content that it might have.
LEMMA PowerLossFile ==
    ASSUME NEW d, NEW e \in AfterPowerLoss(d), NEW p \in DOMAIN d
    PROVE  /\ DOMAIN e = DOMAIN d
           /\ \/ e[p] = d[p] /\ d[p].may = {d[p].now}
              \/ \E c \in d[p].may : e[p] = OnDisk(c)
  <1> DEFINE U == Unsynced(d)
  <1>1. PICK f \in [U -> UNION {d[q].may : q \in U}] :
          /\ \A q \in U : f[q] \in d[q].may
          /\ e = [q \in DOMAIN d |-> IF q \in U THEN OnDisk(f[q]) ELSE d[q]]
    BY DEF AfterPowerLoss
  <1>2. p \notin U => d[p].may = {d[p].now}
    BY DEF Unsynced
  <1> QED BY <1>1, <1>2

\* A power loss keeps the type of the directory.
LEMMA PowerLossType ==
    ASSUME NEW d, NEW T, IsDirectory(d, T), NEW e \in AfterPowerLoss(d)
    PROVE  IsDirectory(e, T)
  <1>1. DOMAIN d = DOMAIN T
    BY DEF IsDirectory
  <1>2. ASSUME NEW p \in DOMAIN T
        PROVE  e[p] \in [now : T[p], may : SUBSET T[p]]
    <2>1. d[p] \in [now : T[p], may : SUBSET T[p]]
      BY DEF IsDirectory
    <2>2. d[p].may \subseteq T[p]
      BY <2>1
    <2>3. \/ e[p] = d[p]
          \/ \E c \in d[p].may : e[p] = OnDisk(c)
      <3>1. p \in DOMAIN d
        BY <1>1
      <3> QED BY <3>1, PowerLossFile
    <2>4. ASSUME NEW c \in d[p].may
          PROVE  OnDisk(c) \in [now : T[p], may : SUBSET T[p]]
      BY <2>2 DEF OnDisk
    <2> QED BY <2>1, <2>3, <2>4
  <1>3. DOMAIN e = DOMAIN T
    BY <1>1 DEF AfterPowerLoss
  <1> QED BY <1>2, <1>3 DEF IsDirectory

=============================================================================
