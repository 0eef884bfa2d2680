---------------------------- MODULE MCLockSession ----------------------------
(***************************************************************************)
(* Small instances of LockSession for TLC.                                 *)
(***************************************************************************)
EXTENDS LockSession
=============================================================================
