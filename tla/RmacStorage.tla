---------------------------- MODULE RmacStorage ----------------------------
(***************************************************************************)
(* The durable-file primitives of the rmac-storage crate (write.rs), over  *)
(* one directory.                                                          *)
(*                                                                         *)
(* A directory is a function from paths to files, and a file is a record   *)
(*   now  the content the running system reads back,                       *)
(*   may  every content a power loss may leave at that path.               *)
(* A create, rename or unlink changes `now' at once and only ADDS to       *)
(* `may'; fsync of the directory (sync_directory) makes the visible        *)
(* content of every entry of that directory the only possible one.         *)
(*                                                                         *)
(* A primitive is the SET of its possible results [ok, dir]: Ok, and every *)
(* way in which it can report an error, including the ones that report an  *)
(* error after the change became visible.  A power loss in the middle of a *)
(* primitive leaves the directory in one of its error results.             *)
(*                                                                         *)
(* Temporary files of a replacement are private to the call and never read *)
(* back, so they are not part of the directory.                            *)
(***************************************************************************)

CONSTANTS
    NoFile,     \* the path does not exist
    Torn        \* a file holding only a part of the bytes meant for it

\* Every path p of the directory d holds, or may hold, a member of T[p].
IsDirectory(d, T) ==
    /\ DOMAIN d = DOMAIN T
    /\ \A p \in DOMAIN T : d[p] \in [now : T[p], may : SUBSET T[p]]

\* A file that holds c for good.
OnDisk(c) == [now |-> c, may |-> {c}]

Result(good, d) == [ok |-> good, dir |-> d]

\* The visible content of path p becomes c; what a power loss leaves is open.
Put(d, p, c) == [d EXCEPT ![p] = [now |-> c, may |-> @.may \cup {c}]]

\* sync_directory: the visible entries become the durable ones.
Sync(d) == [p \in DOMAIN d |-> OnDisk(d[p].now)]

(***************************************************************************)
(* atomic_write_private followed by the caller's exact readback: the       *)
(* temporary file is written and synced, renamed over p, the directory     *)
(* synced, p read back and compared.  It fails before the rename, between  *)
(* the rename and the directory sync, or in the readback.                  *)
(***************************************************************************)
WriteVerified(d, p, c) ==
    { Result(TRUE,  Sync(Put(d, p, c))),
      Result(FALSE, d),
      Result(FALSE, Put(d, p, c)),
      Result(FALSE, Sync(Put(d, p, c))) }

(***************************************************************************)
(* write_new_private / write_new_private_stream on an absent path: the     *)
(* file is created at its FINAL path, then filled and synced, then the     *)
(* directory is synced; an error removes it again, best effort.  The last  *)
(* two results are a failed cleanup of a half-written and of a complete    *)
(* file.  (The streamed variant also syncs its cleanup: the second result  *)
(* when nothing else was unsynced.)                                        *)
(***************************************************************************)
WriteNew(d, p, c) ==
    { Result(TRUE,  Sync(Put(d, p, c))),
      Result(FALSE, d),
      Result(FALSE, Put(Put(d, p, Torn), p, NoFile)),
      Result(FALSE, Put(Put(d, p, c), p, NoFile)),
      Result(FALSE, Put(d, p, Torn)),
      Result(FALSE, Put(d, p, c)) }

(***************************************************************************)
(* remove_file: a bare unlink, never synced.  The callers read a missing   *)
(* path as success.                                                        *)
(***************************************************************************)
RemoveFile(d, p) ==
    IF d[p].now = NoFile
    THEN { Result(TRUE, d) }
    ELSE { Result(TRUE, Put(d, p, NoFile)), Result(FALSE, d) }

(***************************************************************************)
(* remove_file_durable: unlink, then sync.  On a missing path the unlink   *)
(* returns NotFound BEFORE the sync, which the callers read as success.    *)
(***************************************************************************)
RemoveFileDurable(d, p) ==
    IF d[p].now = NoFile
    THEN { Result(TRUE, d) }
    ELSE { Result(TRUE,  Sync(Put(d, p, NoFile))),
           Result(FALSE, d),
           Result(FALSE, Put(d, p, NoFile)) }

\* Paths whose durable content is open.
Unsynced(d) == {p \in DOMAIN d : d[p].may # {d[p].now}}

\* Every directory a power loss may leave.
AfterPowerLoss(d) ==
    LET U == Unsynced(d) IN
    { [p \in DOMAIN d |-> IF p \in U THEN OnDisk(f[p]) ELSE d[p]] :
        f \in { g \in [U -> UNION {d[p].may : p \in U}] :
                  \A p \in U : g[p] \in d[p].may } }

=============================================================================
