---------------------------- MODULE MCNotesEdits ----------------------------
(***************************************************************************)
(* Small instances of NotesEdits for TLC.                                  *)
(***************************************************************************)
EXTENDS NotesEdits, TLC

CONSTANTS n1, n2

TwoNotes == {n1, n2}

=============================================================================
