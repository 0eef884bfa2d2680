----------------------------- MODULE MCSafeMode -----------------------------
(***************************************************************************)
(* Small instances of SafeMode for TLC.                                    *)
(***************************************************************************)
EXTENDS SafeMode

CONSTANTS bar, dock
=============================================================================
