----------------------------- MODULE SecureLock -----------------------------
(***************************************************************************)
(* What a session locker promises (the invariants of ADR 0005), without    *)
(* Wayland, PAM or systemd: the session, the locker process that asks the  *)
(* compositor to lock it, and the one authentication attempt that may be   *)
(* under way.  The session opens in one step only, from an attempt that    *)
(* passed; a cancelled attempt is drained and can never pass; a locker     *)
(* that dies leaves the session as it is.  LockProvider implements this    *)
(* specification; LockSession is built on its actions.                     *)
(***************************************************************************)

VARIABLES
    session,        \* "open" or "locked", as the compositor shows it
    locker,         \* the locker process
    attempt         \* its authentication attempt

vars == <<session, locker, attempt>>

Lockers == {"gone", "asking", "holding", "ready", "done"}
Attempts == {"none", "running", "cancelled", "passed"}

Init ==
    /\ session \in {"open", "locked"}
    /\ locker = "asking" /\ attempt = "none"

\* A new process; the session is still locked when it replaces a dead one.
Start ==
    /\ locker \in {"gone", "done"}
    /\ locker' = "asking" /\ attempt' = "none"
    /\ UNCHANGED session

Lock ==
    /\ locker = "asking"
    /\ locker' = "holding" /\ session' = "locked"
    /\ UNCHANGED attempt

\* systemd is told READY=1: a lock request may return.
Ready ==
    /\ locker = "holding" /\ locker' = "ready"
    /\ UNCHANGED <<session, attempt>>

Holding == locker \in {"holding", "ready"}

Begin ==
    /\ Holding /\ attempt = "none" /\ attempt' = "running"
    /\ UNCHANGED <<session, locker>>

Refuse ==
    /\ attempt = "running" /\ attempt' = "none"
    /\ UNCHANGED <<session, locker>>

Cancel ==
    /\ attempt = "running" /\ attempt' = "cancelled"
    /\ UNCHANGED <<session, locker>>

\* The worker of the cancelled attempt ended; its verdict is dropped, and
\* input typed meanwhile starts the next attempt.
Drain ==
    /\ attempt = "cancelled" /\ attempt' \in {"none", "running"}
    /\ UNCHANGED <<session, locker>>

\* The attempt passed, and the unlock request goes out with the verdict.
\* A lock object the compositor has already finished opens nothing: the
\* locker then fails, and the session stays locked.
Unlock ==
    /\ Holding /\ attempt = "running"
    /\ attempt' = "passed" /\ session' = "open"
    /\ UNCHANGED locker

\* The exit with status 0, after the unlock request is flushed.
Leave ==
    /\ locker = "ready" /\ attempt = "passed"
    /\ locker' = "done"
    /\ UNCHANGED <<session, attempt>>

\* Denial, a lost lock, an error, a crash or a kill: nothing opens.
Fail ==
    /\ locker \notin {"gone", "done"}
    /\ locker' = "gone" /\ attempt' = "none"
    /\ UNCHANGED session

Next ==
    \/ Start \/ Lock \/ Ready \/ Begin \/ Refuse \/ Cancel \/ Drain
    \/ Unlock \/ Leave \/ Fail

Spec == Init /\ [][Next]_vars
=============================================================================
