--------------------------- MODULE MCLockProvider ---------------------------
(* LockProvider for TLC; every constant is a bound given in the cfg. *)
EXTENDS LockProvider

\* The queues a prompt may find, and the loop of replay_queued_inputs as it is
\* written: one key at a time while the field is open.
Queues == UNION {[1 .. n -> [key : KeyNames, turn : 0 .. 1]] : n \in 0 .. MaxQueue}
Prompted(kind, queue) ==
    [NewCoordinator EXCEPT
        !.phase = "Authenticating", !.active = 1, !.attempt = 1,
        !.editor = [kind |-> kind, typed |-> {}], !.queue = queue]
Loop(s) ==
    FoldLeft(LAMBDA t, key :
                IF t.editor = NoEditor \/ t.err # NoError THEN t
                ELSE ApplyEditorInput([t EXCEPT !.queue = Tail(@)], key),
             s, s.queue)

ASSUME ReplayIsTheLoop ==
    \A kind \in Kinds, queue \in Queues :
        Replay(Prompted(kind, queue)) = Loop(Prompted(kind, queue))
=============================================================================
