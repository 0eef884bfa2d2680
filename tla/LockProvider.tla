---------------------------- MODULE LockProvider ----------------------------
(***************************************************************************)
(* One rmac-lock-provider process, from its lock request to its exit:      *)
(*   c        Provider (provider.rs of rmac-lock-provider) inside          *)
(*            Coordinator (runtime.rs of rmac-lock-provider-linux),        *)
(*   auth     LinuxRuntime.authentication, the attempt whose worker lives, *)
(*   worker   the rmac-pam-worker thread (pam/transaction.rs) behind the   *)
(*            one-prompt broker (pam_broker.rs),                           *)
(*   wire     LockingState.phase (wayland.rs),                             *)
(*   proc     the poll loop and ProcessLifecycle (development_process.rs,  *)
(*            process.rs).                                                 *)
(* One turn of the loop handles the wire events read so far (pc "events"), *)
(* then the prompts and the end of the worker ("auth"), then tells logind  *)
(* and systemd ("apply").  The compositor, PAM and the person typing are   *)
(* external and interleave with every step.                                *)
(*                                                                         *)
(* A key is a character, Return or Escape, stamped with the answer it was  *)
(* typed for: `turn' counts the answers given, cancelled or judged so far. *)
(* Outputs, frames, Caps Lock, focus and the rest of presentation never    *)
(* reach these decisions and are left out, as is a full field, which only  *)
(* ignores the character.                                                  *)
(***************************************************************************)
EXTENDS Naturals, SequencesExt

CONSTANTS
    MaxQueue,       \* MAX_QUEUED_INPUTS, 32 in the code
    MaxKeys,        \* bound: keys pressed
    MaxPrompts      \* bound: prompts of one PAM conversation

ASSUME ProviderAssumption ==
    /\ MaxQueue \in Nat \ {0} /\ MaxKeys \in Nat /\ MaxPrompts \in Nat

VARIABLES session, sent, wire, c, auth, worker, proc, hint, keys

compositor == <<session, sent>>
vars == <<session, sent, wire, c, auth, worker, proc, hint, keys>>

-----------------------------------------------------------------------------
(* State *)

Phases == {"Acquiring", "Locked", "Authenticating", "UnlockAuthorized",
           "Denied", "FailedLocked", "Finished"}
Terminal == {"Denied", "FailedLocked", "Finished"}
AttemptIds == 0..(MaxKeys + 2)          \* 0: None
Turns == 0..(2 * MaxKeys + 2)
KeyNames == {"text", "submit", "cancel"}
Keys == [key : KeyNames, turn : Turns]
Kinds == {"text", "notice", "binary"}   \* echo on or off; info, error, radio
Editors == [kind : Kinds, typed : SUBSET Turns]
NoEditor == [kind |-> "none", typed |-> {}]
Outcomes == {"Succeeded", "Failed", "Panicked"}

\* Errors a PAM stack can bring about; every other error is the program's own.
StackErrors == {"PromptWithoutAttempt", "UnsupportedPrompt", "Panicked"}
OwnErrors == {"Provider", "DuplicatePrompt", "MissingAttemptToken",
              "WorkerAlreadyActive", "StaleWorker", "WorkerUnavailable",
              "DuplicateWorker", "UnlockBeforeLocked", "InvalidLockEvent",
              "Lifecycle"}
NoError == "none"

\* RuntimeActions: what the coordinator asks the pump to do.
Quiet == [ready |-> FALSE, start |-> 0, unlock |-> FALSE, exit |-> FALSE,
          reply |-> "none"]

Coordinators ==
    [ phase : Phases, active : AttemptIds, next : AttemptIds, told : BOOLEAN,
      attempt : AttemptIds, draining : AttemptIds,
      editor : Editors \cup {NoEditor}, queue : Seq(Keys),
      turn : Turns, cancelled : SUBSET AttemptIds,
      verdict : {"none"} \cup Outcomes,
      out : [ready : BOOLEAN, start : AttemptIds, unlock : BOOLEAN,
             exit : BOOLEAN, reply : {"none", "answer", "cancel"}],
      err : {NoError} \cup StackErrors \cup OwnErrors ]

\* turn, cancelled and verdict are history: the answers so far, the attempts
\* the person cancelled, and what PAM said of the last attempt judged.
NewCoordinator ==
    [ phase |-> "Acquiring", active |-> 0, next |-> 1, told |-> FALSE,
      attempt |-> 0, draining |-> 0, editor |-> NoEditor, queue |-> <<>>,
      turn |-> 0, cancelled |-> {}, verdict |-> "none",
      out |-> Quiet, err |-> NoError ]

NoWorker == [st |-> "none", kind |-> "none", asked |-> 0]

Init ==
    /\ session \in {"open", "locked"}   \* locked: it replaces a dead locker
    /\ sent = <<>> /\ wire = "AwaitingDecision"
    /\ c = NewCoordinator /\ auth = 0 /\ worker = NoWorker
    /\ proc = [pc |-> "events", pending |-> FALSE, exit |-> "none",
               ready |-> FALSE, notified |-> FALSE, flushed |-> FALSE,
               end |-> "running"]
    /\ hint \in {FALSE, session = "locked"}
    /\ keys = 0

-----------------------------------------------------------------------------
(* Provider::apply and Coordinator, as functions of the coordinator *)

Err(s, e) == IF s.err = NoError THEN [s EXCEPT !.err = e] ELSE s

CompositorLocked(s) ==
    IF s.phase = "Acquiring"
    THEN [s EXCEPT !.phase = "Locked", !.told = TRUE, !.out.ready = ~s.told]
    ELSE Err(s, "Provider")

CompositorFinished(s) ==
    IF s.phase \in Terminal THEN Err(s, "Provider")
    ELSE [s EXCEPT !.active = 0, !.out.exit = TRUE,
                   !.phase = IF s.told THEN "FailedLocked" ELSE "Denied"]

UnlockCommitted(s) ==
    IF s.phase = "UnlockAuthorized"
    THEN [s EXCEPT !.phase = "Finished", !.out.exit = TRUE]
    ELSE Err(s, "Provider")

\* AuthenticationSucceeded, Failed and Cancelled: only for the active attempt.
Settle(s, attempt, phase) ==
    IF s.phase = "Authenticating" /\ s.active = attempt
    THEN [s EXCEPT !.active = 0, !.phase = phase]
    ELSE Err(s, "Provider")

StartAuthentication(s) ==
    IF s.err # NoError THEN s
    ELSE IF s.attempt # 0 \/ s.draining # 0 THEN Err(s, "WorkerAlreadyActive")
    ELSE IF s.phase # "Locked" THEN Err(s, "Provider")
    ELSE [s EXCEPT !.active = s.next, !.next = @ + 1, !.attempt = s.next,
                   !.phase = "Authenticating", !.out.start = s.next]

\* (mutant) the queue has no bound
BugQueueInput(s, key) == [s EXCEPT !.queue = Append(@, key)]

QueueInput(s, key) ==
    IF Len(s.queue) >= MaxQueue THEN s
    ELSE [s EXCEPT !.queue = Append(@, key)]

\* (mutant) what was typed past the Return stays queued
BugCompleted(s) ==
    [s EXCEPT !.editor = NoEditor, !.turn = @ + 1, !.out.reply = "answer"]

\* EditOutcome::Completed: the answer is on its way to PAM.
Completed(s) ==
    [s EXCEPT !.editor = NoEditor, !.queue = <<>>, !.turn = @ + 1,
              !.out.reply = "answer"]

\* (mutant) the attempt stays the coordinator's own while its worker drains
BugCancelled(s) ==
    [s EXCEPT !.editor = NoEditor, !.queue = <<>>, !.turn = @ + 1,
              !.cancelled = @ \cup {s.attempt}, !.out.reply = "cancel"]

\* EditOutcome::Cancelled: the worker must end before another may start.
Cancelled(s) ==
    IF s.attempt = 0 THEN Err(s, "MissingAttemptToken")
    ELSE Settle([s EXCEPT !.editor = NoEditor, !.queue = <<>>, !.turn = @ + 1,
                          !.attempt = 0, !.draining = s.attempt,
                          !.cancelled = @ \cup {s.attempt},
                          !.out.reply = "cancel"],
                s.attempt, "Locked")

ApplyEditorInput(s, key) ==
    IF key.key = "cancel" THEN Cancelled(s)
    ELSE IF s.editor.kind = "binary" THEN Err(s, "UnsupportedPrompt")
    ELSE IF key.key = "submit" THEN Completed(s)
    ELSE IF s.editor.kind = "text"
         THEN [s EXCEPT !.editor.typed = @ \cup {key.turn}]
         ELSE s

\* (mutant) a key starts the next attempt while the old worker drains
BugHandleInput(s, key) ==
    IF s.editor # NoEditor THEN ApplyEditorInput(s, key)
    ELSE IF s.phase = "Locked" THEN StartAuthentication(QueueInput(s, key))
    ELSE IF s.phase = "Authenticating" THEN QueueInput(s, key)
    ELSE s

HandleInput(s, key) ==
    IF s.editor # NoEditor THEN ApplyEditorInput(s, key)
    ELSE IF s.phase = "Locked" /\ s.draining = 0
         THEN StartAuthentication(QueueInput(s, key))
    ELSE IF s.phase \in {"Locked", "Authenticating"} THEN QueueInput(s, key)
    ELSE s

\* replay_queued_inputs: what was typed before the prompt fills its field, up
\* to the first key that ends the prompt or the process.
Replay(s) ==
    LET Ends(i) == s.queue[i].key # "text" \/ s.editor.kind = "binary"
        first == {i \in DOMAIN s.queue : Ends(i) /\ \A j \in 1 .. i - 1 : ~Ends(j)}
        Fill(n) == [s EXCEPT
            !.editor.typed = IF s.editor.kind = "text"
                             THEN {s.queue[i].turn : i \in 1 .. n} ELSE {},
            !.queue = SubSeq(@, n + 1, Len(@))]
    IN IF first = {} THEN Fill(Len(s.queue))
       ELSE LET n == CHOOSE i \in first : TRUE
            IN ApplyEditorInput([Fill(n - 1) EXCEPT !.queue = Tail(@)],
                                s.queue[n])

\* RuntimeEvent::Prompt
ShowPrompt(s, kind) ==
    IF s.phase # "Authenticating" \/ s.attempt = 0
    THEN Err(s, "PromptWithoutAttempt")
    ELSE IF s.editor # NoEditor THEN Err(s, "DuplicatePrompt")
    ELSE Replay([s EXCEPT !.editor = [kind |-> kind, typed |-> {}]])

\* (mutant) input typed while the worker drained starts nothing
BugDrains(s, attempt, outcome) ==
    IF s.draining = attempt THEN [s EXCEPT !.draining = 0]
    ELSE Settle([s EXCEPT !.attempt = 0, !.editor = NoEditor, !.queue = <<>>,
                          !.turn = @ + 1, !.verdict = outcome,
                          !.out.unlock = outcome = "Succeeded"], attempt,
                IF outcome = "Succeeded" THEN "UnlockAuthorized" ELSE "Locked")

\* (mutant) a late success of a cancelled attempt counts
BugLateSuccess(s, attempt, outcome) ==
    IF s.draining = attempt /\ outcome # "Succeeded"
    THEN [s EXCEPT !.draining = 0]
    ELSE [s EXCEPT !.attempt = 0, !.draining = 0, !.active = 0,
                   !.editor = NoEditor, !.queue = <<>>, !.turn = @ + 1,
                   !.verdict = outcome, !.out.unlock = outcome = "Succeeded",
                   !.phase = IF outcome = "Succeeded" THEN "UnlockAuthorized"
                             ELSE "Locked"]

AuthenticationFinished(s, attempt, outcome) ==
    IF s.draining = attempt
    THEN LET t == [s EXCEPT !.draining = 0]
         IN IF s.queue # <<>> /\ s.phase = "Locked"
            THEN StartAuthentication(t) ELSE t
    ELSE IF s.attempt # attempt THEN Err(s, "StaleWorker")
    ELSE IF outcome = "Panicked" THEN Err(s, "Panicked")
    ELSE LET t == [s EXCEPT !.attempt = 0, !.editor = NoEditor, !.queue = <<>>,
                            !.turn = @ + 1, !.verdict = outcome]
         IN IF outcome = "Succeeded"
            THEN Settle([t EXCEPT !.out.unlock = TRUE], attempt,
                        "UnlockAuthorized")
            ELSE Settle(t, attempt, "Locked")

LockFinished(s) ==
    CompositorFinished([s EXCEPT !.editor = NoEditor, !.queue = <<>>,
                                 !.attempt = 0, !.draining = 0])

-----------------------------------------------------------------------------
(* LinuxRuntime: what the pump does with a coordinator that has moved *)

Alive == proc.end = "running"

\* main returns an error, or the process is killed: the PAM thread dies with
\* it and nothing is sent to the compositor.
Die ==
    /\ proc' = [proc EXCEPT !.end = "failed"]
    /\ auth' = 0 /\ worker' = NoWorker

DieOf(s, e) == Die /\ c' = Err([s EXCEPT !.out = Quiet], e)

ExitOf(s) ==
    IF ~s.out.exit THEN "none"
    ELSE IF s.phase = "Finished" THEN "AuthenticatedUnlock" ELSE s.phase

\* LinuxRuntime::execute but for the unlock: `held' and w are the attempt and
\* the worker the pump holds, pc is where the turn of the loop goes on.  An
\* exit ends the turn.
Execute(s, held, w, pc) ==
    IF s.err # NoError THEN DieOf(s, s.err)
    ELSE IF s.out.reply # "none" /\ w.st # "shown"
    THEN DieOf(s, "WorkerUnavailable")
    ELSE IF s.out.start # 0 /\ held # 0 THEN DieOf(s, "DuplicateWorker")
    ELSE /\ c' = [s EXCEPT !.out = Quiet]
         /\ auth' = IF s.out.start # 0 THEN s.out.start ELSE held
         /\ worker' = IF s.out.start # 0 THEN [NoWorker EXCEPT !.st = "run"]
                      ELSE IF s.out.reply # "none" THEN [w EXCEPT !.st = "run"]
                      ELSE w
         /\ proc' = [proc EXCEPT !.pc = IF s.out.exit THEN "apply" ELSE pc,
                                 !.pending = @ \/ s.out.ready,
                                 !.exit = ExitOf(s)]

(* The wire events of one turn: LinuxRuntime::poll *)

\* ext_session_lock_v1.locked
LockAcquired ==
    /\ Alive /\ proc.pc = "events" /\ sent # <<>> /\ Head(sent) = "locked"
    /\ sent' = Tail(sent)
    /\ IF wire = "AwaitingDecision"
       THEN Execute(StartAuthentication(CompositorLocked(c)), auth, worker,
                    "events")
       ELSE DieOf(c, "InvalidLockEvent")
    /\ wire' = "Locked"
    /\ UNCHANGED <<session, hint, keys>>

\* ext_session_lock_v1.finished
LockFinishes ==
    /\ Alive /\ proc.pc = "events" /\ sent # <<>> /\ Head(sent) = "finished"
    /\ sent' = Tail(sent)
    /\ IF wire \in {"AwaitingDecision", "Locked"}
       THEN Execute(LockFinished(c), auth, worker, "events")
       ELSE DieOf(c, "InvalidLockEvent")
    /\ wire' = "Finished"
    /\ UNCHANGED <<session, hint, keys>>

\* The UnlockFlushed event that unlock_and_flush left in the queue.
UnlockFlushed ==
    /\ Alive /\ proc.pc = "events" /\ proc.flushed
    /\ LET s == UnlockCommitted(c)
       IN IF s.err # NoError THEN DieOf(s, s.err)
          ELSE /\ c' = [s EXCEPT !.out = Quiet]
               /\ proc' = [proc EXCEPT !.flushed = FALSE, !.pc = "apply",
                                       !.exit = ExitOf(s)]
               /\ UNCHANGED <<auth, worker>>
    /\ UNCHANGED <<session, sent, wire, hint, keys>>

Input(key) ==
    /\ Alive /\ proc.pc = "events" /\ keys < MaxKeys
    /\ keys' = keys + 1
    /\ Execute(HandleInput(c, [key |-> key, turn |-> c.turn]), auth, worker,
               "events")
    /\ UNCHANGED <<session, sent, wire, hint>>

EventsDone ==
    /\ Alive /\ proc.pc = "events" /\ ~proc.flushed
    /\ proc' = [proc EXCEPT !.pc = "auth"]
    /\ UNCHANGED <<session, sent, wire, c, auth, worker, hint, keys>>

(* LinuxRuntime::poll_authentication *)

TakePrompt ==
    /\ Alive /\ proc.pc = "auth" /\ auth # 0 /\ worker.st = "asking"
    /\ Execute(ShowPrompt(c, worker.kind), auth,
               [worker EXCEPT !.st = "shown"], "auth")
    /\ UNCHANGED <<session, sent, wire, hint, keys>>

\* The worker still runs, or none does.
AuthenticationWaits ==
    /\ Alive /\ proc.pc = "auth" /\ worker.st \notin {"asking"} \cup Outcomes
    /\ proc' = [proc EXCEPT !.pc = "apply"]
    /\ UNCHANGED <<session, sent, wire, c, auth, worker, hint, keys>>

\* send_unlock, and the roundtrip that follows it: a lock the compositor has
\* finished meanwhile makes the roundtrip fail and opens nothing.
UnlockAndFlush(s) ==
    IF wire # "Locked"
    THEN DieOf(s, "UnlockBeforeLocked") /\ UNCHANGED <<session, sent, wire>>
    ELSE /\ wire' = "UnlockSent" /\ sent' = <<>>
         /\ IF sent # <<>> THEN DieOf(s, NoError) /\ UNCHANGED session
            ELSE /\ session' = "open"
                 /\ c' = [s EXCEPT !.out = Quiet]
                 /\ auth' = 0 /\ worker' = NoWorker
                 /\ proc' = [proc EXCEPT !.pc = "apply", !.flushed = TRUE]

WorkerFinished ==
    /\ Alive /\ proc.pc = "auth" /\ auth # 0 /\ worker.st \in Outcomes
    /\ LET s == AuthenticationFinished(c, auth, worker.st)
       IN IF s.out.unlock /\ s.err = NoError THEN UnlockAndFlush(s)
          ELSE /\ Execute(s, 0, NoWorker, "apply")
               /\ UNCHANGED <<session, sent, wire>>
    /\ UNCHANGED <<hint, keys>>

(* ProcessLifecycle::apply and execute_actions *)

LifecycleError ==
    \/ proc.pending /\ (proc.ready \/ proc.exit = "AuthenticatedUnlock")
    \/ proc.exit \in {"AuthenticatedUnlock", "FailedLocked"}
         /\ ~(proc.ready \/ proc.pending)
    \/ proc.exit = "Denied" /\ (proc.ready \/ proc.pending)

\* set_locked_hint may fail and only warns; READY=1 goes out after it.
Hinted(locked) == hint' \in {hint, locked}

Apply ==
    /\ Alive /\ proc.pc = "apply"
    /\ IF LifecycleError
       THEN DieOf(c, "Lifecycle") /\ UNCHANGED hint
       ELSE /\ proc' = [proc EXCEPT !.pc = "events", !.pending = FALSE,
                          !.ready = @ \/ proc.pending,
                          !.notified = @ \/ (proc.pending /\ proc.exit = "none"),
                          !.end = IF proc.exit = "none" THEN "running"
                                  ELSE IF proc.exit = "AuthenticatedUnlock"
                                       THEN "left" ELSE "failed"]
            /\ IF proc.exit = "AuthenticatedUnlock" THEN Hinted(FALSE)
               ELSE IF proc.pending THEN Hinted(TRUE) ELSE UNCHANGED hint
            /\ IF proc.exit = "none" THEN UNCHANGED <<auth, worker>>
               ELSE auth' = 0 /\ worker' = NoWorker
            /\ UNCHANGED c
    /\ UNCHANGED <<session, sent, wire, keys>>

\* A wire, spawn or notification error, the watchdog, a kill.
Crash ==
    /\ Alive /\ Die
    /\ UNCHANGED <<session, sent, wire, c, hint, keys>>

-----------------------------------------------------------------------------
(* The compositor and PAM: external *)

\* The compositor locks and says so, or gives the lock up; it finishes a lock
\* at most once and says nothing after the unlock request.
CompositorLocks ==
    /\ Alive /\ wire = "AwaitingDecision" /\ sent = <<>>
    /\ session' = "locked" /\ sent' = <<"locked">>
    /\ UNCHANGED <<wire, c, auth, worker, proc, hint, keys>>

CompositorFinishes ==
    /\ Alive /\ wire \in {"AwaitingDecision", "Locked"}
    /\ "finished" \notin Range(sent) /\ c.phase \notin Terminal
    /\ sent' = Append(sent, "finished")
    /\ UNCHANGED <<session, wire, c, auth, worker, proc, hint, keys>>

\* pam_authenticate calls back; respond blocks until the prompt is answered
\* or cancelled, and a module may ask again after a cancelled one.
PamAsks ==
    /\ worker.st = "run" /\ worker.asked < MaxPrompts
    /\ \E kind \in Kinds :
          worker' = [st |-> "asking", kind |-> kind, asked |-> worker.asked + 1]
    /\ UNCHANGED <<session, sent, wire, c, auth, proc, hint, keys>>

PamEnds ==
    /\ worker.st = "run"
    /\ \E outcome \in Outcomes : worker' = [worker EXCEPT !.st = outcome]
    /\ UNCHANGED <<session, sent, wire, c, auth, proc, hint, keys>>

-----------------------------------------------------------------------------
Poll ==
    \/ LockAcquired \/ LockFinishes \/ UnlockFlushed \/ EventsDone
    \/ TakePrompt \/ AuthenticationWaits \/ WorkerFinished \/ Apply

Next ==
    \/ Poll \/ Crash
    \/ \E key \in KeyNames : Input(key)
    \/ CompositorLocks \/ CompositorFinishes \/ PamAsks \/ PamEnds

Spec == Init /\ [][Next]_vars

\* The loop polls at least every 50 ms, and a PAM conversation that waits for
\* no answer returns.
ProviderSpec == Spec /\ WF_vars(Poll) /\ WF_vars(PamEnds)

-----------------------------------------------------------------------------
(* Properties *)

\* The types of the process, the coordinator and the worker; the queue of
\* inputs is bounded (MAX_QUEUED_INPUTS).
ProviderTypeOK ==
    /\ session \in {"open", "locked"} /\ hint \in BOOLEAN
    /\ sent \in {<<>>, <<"locked">>, <<"finished">>, <<"locked", "finished">>}
    /\ wire \in {"AwaitingDecision", "Locked", "Finished", "UnlockSent"}
    /\ c \in Coordinators /\ Len(c.queue) <= MaxQueue
    /\ auth \in AttemptIds /\ keys \in 0..MaxKeys
    /\ worker \in [st : {"none", "run", "asking", "shown"} \cup Outcomes,
                   kind : {"none"} \cup Kinds, asked : 0..MaxPrompts]
    /\ proc \in [pc : {"events", "auth", "apply"}, pending : BOOLEAN,
                 exit : {"none", "AuthenticatedUnlock", "Denied", "FailedLocked"},
                 ready : BOOLEAN, notified : BOOLEAN, flushed : BOOLEAN,
                 end : {"running", "failed", "left"}]

\* Unlock authority exists only after PAM passed the very attempt it was
\* minted for, an attempt the person never cancelled: a worker that ends late
\* with success, after Escape, authorises nothing (authentication_finished).
AuthorityFromPam ==
    c.phase \in {"UnlockAuthorized", "Finished"} =>
        c.verdict = "Succeeded" /\ c.next - 1 \notin c.cancelled

\* Nothing typed for one answer is left over for the next one: what waits in
\* the queue or stands in the field was typed after the last prompt was
\* answered, cancelled or judged, so the characters typed past a Return never
\* land in the next prompt (replay_queued_inputs, apply_editor_input).
TypedForThisAnswer ==
    Alive => /\ \A i \in DOMAIN c.queue : c.queue[i].turn = c.turn
             /\ c.editor.typed \subseteq {c.turn}

\* No order of wire events, keys, prompts and worker ends brings the process
\* down by an error of its own (a second worker, a stale result, a prompt over
\* a prompt, readiness twice, an unlock before the lock): only a PAM stack
\* that asks after a cancellation, sends a binary prompt or panics can.
NoErrorOfItsOwn == c.err \notin OwnErrors

\* The locker's promise, on the state of the process: the lock is held from
\* the compositor's decision on, and the session opens with the verdict.
LockerOf ==
    IF proc.end = "failed" THEN "gone"
    ELSE IF proc.end = "left" THEN "done"
    ELSE IF proc.notified THEN "ready"
    ELSE IF c.told \/ "locked" \in Range(sent) THEN "holding" ELSE "asking"

AttemptOf ==
    IF proc.end = "failed" THEN "none"
    ELSE IF c.phase \in {"UnlockAuthorized", "Finished"} THEN "passed"
    ELSE IF c.attempt # 0 THEN "running"
    ELSE IF c.draining # 0 THEN "cancelled" ELSE "none"

Lock == INSTANCE SecureLock WITH
    locker <- LockerOf, attempt <- AttemptOf

\* The process implements SecureLock: the session opens only with a passed
\* attempt, READY=1 follows the lock, the exit with status 0 follows the
\* unlock, and every other end leaves the session locked.
ImplementsSecureLock == Lock!Spec

\* What is typed while a cancelled PAM worker is still ending is not
\* forgotten: it starts the next attempt as soon as that worker has ended.
TypingRestartsAuthentication ==
    (Alive /\ c.draining # 0 /\ c.queue # <<>>) ~> (c.attempt # 0 \/ ~Alive)
=============================================================================
