---------------------------- MODULE MCFinderTrash ----------------------------
(***************************************************************************)
(* Small instances of FinderTrash for TLC.                                 *)
(***************************************************************************)
EXTENDS FinderTrash, TLC

FirstIsDirectory == {1}

=============================================================================
