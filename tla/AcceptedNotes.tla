---------------------------- MODULE AcceptedNotes ----------------------------
(***************************************************************************)
(* What the Notes library promises the application (AcceptedLibrary and    *)
(* the Pending phase of the worker), without files: one library, changed   *)
(* as a whole by one candidate at a time, and only on top of the library   *)
(* that the application was shown; a candidate that failed is kept until   *)
(* it is the library or is given up; a start finds the library that was    *)
(* promised or a later one.  NotesStore implements this specification with *)
(* its journal, its backup and its intents, as long as the medium returns  *)
(* what was written to it.                                                 *)
(***************************************************************************)
EXTENDS Naturals

CONSTANTS
    Library,        \* the snapshots; each has a revision
    Nothing         \* no candidate

VARIABLES
    found,          \* the library a start would find now
    accepted,       \* the one last shown to the application
    settled,        \* the one last promised to it for good
    wanted,         \* the candidate to be committed, or Nothing
    conflict,       \* a retry met a library that the candidate does not follow
    intact          \* the medium returns what was written to it

vars == <<found, accepted, settled, wanted, conflict, intact>>

\* Library x is y or a later one.
AsNew(x, y) == x.revision > y.revision \/ x = y

Init ==
    /\ found \in Library /\ accepted = found /\ settled = found
    /\ wanted = Nothing /\ conflict = FALSE /\ intact = TRUE

\* The application wants a change of the library it is shown: only while no
\* other is pending, except for an edit made again after a conflict.
Ask ==
    /\ wanted = Nothing \/ conflict
    /\ wanted' \in Library /\ wanted'.revision = accepted.revision + 1
    /\ conflict' = FALSE
    /\ UNCHANGED <<found, accepted, settled>>

\* The candidate is the next library after the one the application is shown.
Committed ==
    /\ wanted # Nothing /\ wanted.revision = accepted.revision + 1
    /\ found = accepted /\ found' = wanted

Commit == Committed /\ UNCHANGED <<accepted, settled, wanted, conflict>>

\* The application is shown what a start would find, and may be promised it.
\* The candidate is done if it is that library, and is kept if it is not.
Show ==
    /\ accepted' = found /\ settled' \in {settled, found}
    /\ wanted' = IF wanted = found THEN Nothing ELSE wanted
    /\ conflict' \in BOOLEAN
    /\ conflict' => wanted' # Nothing /\ found # accepted
    /\ UNCHANGED found

\* A candidate in conflict is tried once more as it is.
Retry ==
    /\ conflict /\ conflict' = FALSE
    /\ UNCHANGED <<found, accepted, settled, wanted>>

\* The candidate is given up, or the process ends, perhaps while committing it.
Drop ==
    /\ found' = found \/ Committed
    /\ wanted' = Nothing /\ conflict' = FALSE
    /\ UNCHANGED <<accepted, settled>>

\* A power loss may undo what was not promised.
PowerLoss ==
    /\ found' \in Library /\ AsNew(found', settled)
    /\ wanted' = Nothing /\ conflict' = FALSE
    /\ UNCHANGED <<accepted, settled>>

\* The medium fails for good; what then holds is not stated here.
MediumFails == ~intact'

Next ==
    \/ intact /\ intact' /\ (Ask \/ Commit \/ Show \/ Retry \/ Drop \/ PowerLoss)
    \/ MediumFails

Spec == Init /\ [][Next]_vars

=============================================================================
