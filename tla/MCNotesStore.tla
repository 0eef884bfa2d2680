---------------------------- MODULE MCNotesStore ----------------------------
(***************************************************************************)
(* Small instances of NotesStore for TLC.                                  *)
(***************************************************************************)
EXTENDS NotesStoreInv, TLC

CONSTANTS t0, t1, b0, b1

MCText == {t0, t1}
MCBytes == {b0, b1}

\* A library that was installed earlier and records attachments 1..n.
Existing(n) ==
    [ revision |-> 1, text |-> t0,
      bytes |-> [a \in Attachments |-> IF a <= n THEN b0 ELSE NoFile],
      next |-> n + 1 ]

FirstStart == {NoFile}
OneAttachment == {Existing(1)}

=============================================================================
