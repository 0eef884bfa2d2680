----------------------------- MODULE LockSession -----------------------------
(***************************************************************************)
(* The lock of one graphical session around the locker process:            *)
(*   - the locker is SecureLock, which LockProvider implements;            *)
(*   - unit, starts: rmac-lock.service as systemd runs it (Type=notify,    *)
(*     Restart=on-failure, a start limit, OnFailure=the fallback unit);    *)
(*   - fb: rmac-lock-fallback.service, `supervise' of lock.rs around       *)
(*     swaylock, restarted without a limit;                                *)
(*   - k: the lock coordinator, `coordinate' of lock.rs with the power     *)
(*     button of power_key.rs, one select loop that blocks in request();   *)
(*     it may die and is started again;                                    *)
(*   - machine: logind, which delays a sleep while the coordinator holds   *)
(*     its inhibitor, and forces it after InhibitDelayMaxSec.              *)
(* systemd, logind, the compositor and swaylock are external.  Time is two *)
(* flags: `pending' (the double-press window: waiting, then due) and       *)
(* `guard' (the two seconds after a wake).  A suspended machine takes no   *)
(* step but the wake.                                                      *)
(***************************************************************************)
EXTENDS Naturals, Sequences

CONSTANTS
    Burst,          \* StartLimitBurst
    MaxCrashes,     \* bound: crashes of the locker, swaylock, coordinator
    MaxEvents       \* bound: lock requests, sleeps and power button presses

ASSUME SessionAssumption ==
    /\ Burst \in Nat \ {0}
    /\ MaxCrashes \in Nat /\ MaxEvents \in Nat

VARIABLES
    session, locker, attempt,       \* SecureLock
    unit, starts,                   \* rmac-lock.service
    fb,                             \* rmac-lock-fallback.service
    hint,                           \* logind's LockedHint
    k,                              \* the coordinator
    machine,                        \* "awake", "preparing" or "asleep"
    inbox,                          \* signals and presses for the coordinator
    spent                           \* what the bounds count

P == INSTANCE SecureLock

process == <<session, locker, attempt>>
vars == <<session, locker, attempt, unit, starts, fb, hint, k, machine, inbox,
          spent>>

Budget == [crashes |-> MaxCrashes, events |-> MaxEvents]

Spend(what) ==
    /\ spent[what] < Budget[what]
    /\ spent' = [spent EXCEPT ![what] = @ + 1]

Up == machine # "asleep"

-----------------------------------------------------------------------------
(* State *)

\* The coordinator with its delay inhibitor taken: PowerKey::default.
Fresh(pc) ==
    [pc |-> pc, why |-> "none", job |-> "none", press |-> "none",
     locked |-> FALSE, inhibitor |-> TRUE, pending |-> "none", guard |-> FALSE]

Dead == [Fresh("dead") EXCEPT !.inhibitor = FALSE]

Quiet == [lock |-> 0, sleep |-> <<>>, presses |-> <<>>]

Init ==
    /\ session = "open" /\ locker = "gone" /\ attempt = "none"
    /\ unit = "inactive" /\ starts = 0
    /\ fb = [step |-> "off", lk |-> "none"]
    /\ hint = FALSE
    /\ k = Fresh("select")
    /\ machine = "awake"
    /\ inbox = Quiet
    /\ spent = [b \in DOMAIN Budget |-> 0]

\* A hint that cannot be set is only reported; one that cannot be read counts
\* as unlocked.
SetHint(locked) == hint' \in {locked, hint}
SessionLocked == {hint, FALSE}

\* A start job that waits ends with the unit.
Answer(result) == IF k.job = "wait" THEN [k EXCEPT !.job = result] ELSE k

-----------------------------------------------------------------------------
(* rmac-lock.service: external *)

ProviderHolds == P!Holding
FallbackHolds == fb.lk = "held"

\* OnFailure= starts the fallback unit unless it runs already.
OnFailure ==
    fb' = IF fb.step = "off" THEN [step |-> "spawned", lk |-> "asking"] ELSE fb

\* ExecStart=, or the start limit: the unit fails and the fallback starts.
\* systemd need not take OnFailure= for a unit that was failed before.
LimitHit == starts >= Burst

\* (mutant) the unit without OnFailure=
BugLaunch ==
    IF starts >= Burst
    THEN unit' = "failed" /\ UNCHANGED <<process, starts, fb>>
    ELSE /\ P!Start /\ unit' = "activating" /\ starts' = starts + 1
         /\ UNCHANGED fb

Launch ==
    IF LimitHit
    THEN /\ unit' = "failed"
         /\ OnFailure \/ (unit = "failed" /\ UNCHANGED fb)
         /\ UNCHANGED <<process, starts>>
    ELSE /\ P!Start /\ unit' = "activating" /\ starts' = starts + 1
         /\ UNCHANGED fb

\* systemctl --user start rmac-lock.service.  A unit that waits for its
\* restart keeps the job queued; one that runs is left alone.
Stopped == unit \in {"inactive", "failed"}

StartUnit ==
    IF Stopped THEN Launch ELSE UNCHANGED <<process, unit, starts, fb>>

\* (mutant) Type=simple: the job succeeds once the process is started
BugJobBegins == IF Stopped /\ LimitHit THEN "failed" ELSE "ok"

\* What the caller's start job does at first: an active unit makes it succeed
\* at once, the start limit makes it fail at once.
JobBegins ==
    CASE unit = "active" -> "ok"
      [] Stopped /\ LimitHit -> "failed"
      [] OTHER -> "wait"

\* RestartSec=1s: a supervise whose swaylock has exited is gone by then.  The
\* timing matters: a unit that failed for good while the fallback unit was
\* still exiting would find it active and not start it.
RestartUnit ==
    /\ Up /\ unit = "restart" /\ fb.lk # "opened" /\ Launch
    /\ k' = IF LimitHit THEN Answer("failed") ELSE k
    /\ UNCHANGED <<hint, machine, inbox, spent>>

IntervalPasses ==
    /\ Up /\ starts > 0 /\ starts' = 0
    /\ UNCHANGED <<process, unit, fb, hint, k, machine, inbox, spent>>

\* The locker asks the compositor, which grants the lock to one client.
LockerLocks ==
    /\ Up /\ ~FallbackHolds /\ P!Lock
    /\ UNCHANGED <<unit, starts, fb, hint, k, machine, inbox, spent>>

\* LockedHint=true, then READY=1.
LockerReady ==
    /\ Up /\ P!Ready
    /\ SetHint(TRUE) /\ unit' = "active" /\ k' = Answer("ok")
    /\ UNCHANGED <<starts, fb, machine, inbox, spent>>

LockerAuthenticates ==
    /\ Up /\ (P!Begin \/ P!Refuse \/ P!Cancel \/ P!Drain)
    /\ UNCHANGED <<unit, starts, fb, hint, k, machine, inbox, spent>>

LockerUnlocks ==
    /\ Up /\ P!Unlock
    /\ UNCHANGED <<unit, starts, fb, hint, k, machine, inbox, spent>>

\* LockedHint=false, then the exit with status 0.
LockerLeaves ==
    /\ Up /\ P!Leave
    /\ SetHint(FALSE) /\ unit' = "inactive"
    /\ UNCHANGED <<starts, fb, k, machine, inbox, spent>>

\* The compositor denies a second lock.
LockerDenied ==
    /\ Up /\ locker = "asking" /\ FallbackHolds /\ P!Fail
    /\ unit' = "restart" /\ k' = Answer("failed")
    /\ UNCHANGED <<starts, fb, hint, machine, inbox, spent>>

\* An error, the watchdog or the start timeout.
LockerCrashes ==
    /\ Up /\ P!Fail /\ Spend("crashes")
    /\ unit' = "restart" /\ k' = Answer("failed")
    /\ UNCHANGED <<starts, fb, hint, machine, inbox>>

\* The lock shortcut, the idle timer or Lock Now: a start job of their own.
LockRequested ==
    /\ Up /\ Spend("events") /\ StartUnit
    /\ UNCHANGED <<hint, k, machine, inbox>>

-----------------------------------------------------------------------------
(* rmac-lock-fallback.service: supervise and the swaylock it runs *)

SwaylockLocks ==
    /\ Up /\ fb.lk = "asking" /\ ~ProviderHolds
    /\ fb' = [fb EXCEPT !.lk = "held"] /\ session' = "locked"
    /\ UNCHANGED <<locker, attempt, unit, starts, hint, k, machine, inbox, spent>>

\* PAM accepted the password: external.
SwaylockUnlocks ==
    /\ Up /\ fb.lk = "held"
    /\ fb' = [fb EXCEPT !.lk = "opened"] /\ session' = "open"
    /\ UNCHANGED <<locker, attempt, unit, starts, hint, k, machine, inbox, spent>>

\* (mutant) a failed fallback is not restarted
BugSwaylockStops == fb' = [step |-> "off", lk |-> "none"]

\* supervise fails with it: LockedHint stays as it is.
SwaylockStops == fb' = [step |-> "restart", lk |-> "none"]

SwaylockDenied ==
    /\ Up /\ fb.lk = "asking" /\ ProviderHolds /\ SwaylockStops
    /\ UNCHANGED <<process, unit, starts, hint, k, machine, inbox, spent>>

SwaylockCrashes ==
    /\ Up /\ fb.lk \in {"asking", "held"} /\ SwaylockStops /\ Spend("crashes")
    /\ UNCHANGED <<process, unit, starts, hint, k, machine, inbox>>

\* The readiness byte was read: LockedHint=true, then READY=1.
SuperviseReady ==
    /\ Up /\ fb.step = "spawned" /\ fb.lk \in {"held", "opened"}
    /\ fb' = [fb EXCEPT !.step = "notified"] /\ SetHint(TRUE)
    /\ UNCHANGED <<process, unit, starts, k, machine, inbox, spent>>

\* swaylock exited with status 0: LockedHint=false.
SuperviseDone ==
    /\ Up /\ fb.step = "notified" /\ fb.lk = "opened"
    /\ fb' = [step |-> "off", lk |-> "none"] /\ SetHint(FALSE)
    /\ UNCHANGED <<process, unit, starts, k, machine, inbox, spent>>

RestartFallback ==
    /\ Up /\ fb.step = "restart"
    /\ fb' = [step |-> "spawned", lk |-> "asking"]
    /\ UNCHANGED <<process, unit, starts, hint, k, machine, inbox, spent>>

-----------------------------------------------------------------------------
(* logind: external *)

\* Signals reach a coordinator that has subscribed to them.
Listening == k.pc \notin {"dead", "starting"}
Signal(what) == inbox' = IF Listening THEN what ELSE inbox

PrepareForSleep(start) == [inbox EXCEPT !.sleep = Append(@, start)]

\* Suspend(): refused while a sleep is under way.
Suspend ==
    IF machine = "awake"
    THEN machine' = "preparing" /\ Signal(PrepareForSleep(TRUE))
    ELSE UNCHANGED <<machine, inbox>>

LockSignal ==
    /\ Up /\ Spend("events") /\ Signal([inbox EXCEPT !.lock = @ + 1])
    /\ UNCHANGED <<process, unit, starts, fb, hint, k, machine>>

\* The lid, the menu bar's Sleep, the idle policy.
SleepRequested ==
    /\ machine = "awake" /\ Spend("events") /\ Suspend
    /\ UNCHANGED <<process, unit, starts, fb, hint, k>>

FallsAsleep ==
    /\ machine = "preparing" /\ machine' = "asleep"
    /\ UNCHANGED <<process, unit, starts, fb, hint, k, inbox, spent>>

\* Nothing delays the sleep, or InhibitDelayMaxSec has passed.
GoToSleep == ~k.inhibitor /\ FallsAsleep
ForceSleep == k.inhibitor /\ FallsAsleep

\* The press that wakes a laptop may be delivered as a key event.
Wake ==
    /\ machine = "asleep" /\ machine' = "awake"
    /\ \/ Signal(PrepareForSleep(FALSE)) /\ UNCHANGED spent
       \/ /\ Spend("events")
          /\ Signal([PrepareForSleep(FALSE) EXCEPT !.presses = Append(@, "wake")])
    /\ UNCHANGED <<process, unit, starts, fb, hint, k>>

Press ==
    /\ Up /\ Spend("events")
    /\ Signal([inbox EXCEPT !.presses = Append(@, "user")])
    /\ UNCHANGED <<process, unit, starts, fb, hint, k, machine>>

-----------------------------------------------------------------------------
(* coordinate: the loop takes any branch of its select! that is ready *)

Selecting == Up /\ k.pc = "select"

\* request() blocks the whole loop until the start job ends.
Request(why, next) ==
    /\ StartUnit
    /\ k' = [next EXCEPT !.pc = "locking", !.why = why, !.job = JobBegins]

HandleLockSignal ==
    /\ Selecting /\ inbox.lock > 0
    /\ inbox' = [inbox EXCEPT !.lock = @ - 1]
    /\ Request("signal", k)
    /\ UNCHANGED <<hint, machine, spent>>

SleepSignal(start) ==
    Selecting /\ inbox.sleep # <<>> /\ Head(inbox.sleep) = start

RestOfInbox == [inbox EXCEPT !.sleep = Tail(@)]

\* power_key.sleeping(), then the pre-sleep lock.
HandlePreparing ==
    /\ SleepSignal(TRUE) /\ inbox' = RestOfInbox
    /\ Request("sleep", [k EXCEPT !.pending = "none"])
    /\ UNCHANGED <<hint, machine, spent>>

\* An error ends the process: its inhibitor and the signals it had not
\* handled are gone.
Die == k' = Dead /\ inbox' = Quiet

\* (mutant) no new inhibitor after the wake
BugHandleWoke ==
    /\ SleepSignal(FALSE) /\ inbox' = RestOfInbox
    /\ k' = [k EXCEPT !.pending = "none", !.guard = TRUE]
    /\ UNCHANGED <<process, unit, starts, fb, hint, machine, spent>>

\* power_key.woke(), then a new inhibitor.  logind refuses one while the next
\* sleep is already being prepared, and the coordinator ends with the error.
HandleWoke ==
    /\ SleepSignal(FALSE)
    /\ IF machine = "awake"
       THEN /\ k' = [k EXCEPT !.pending = "none", !.guard = TRUE,
                             !.inhibitor = TRUE]
            /\ inbox' = RestOfInbox
       ELSE Die
    /\ UNCHANGED <<process, unit, starts, fb, hint, machine, spent>>

\* (mutant) a lock signal that failed is requested again at once
BugRequestReturns ==
    /\ Up /\ k.pc = "locking" /\ k.job \in {"ok", "failed"}
    /\ k' = [k EXCEPT !.pc = IF k.job = "ok" THEN "select" ELSE "locking",
                      !.job = "none"]
    /\ UNCHANGED <<process, unit, starts, fb, hint, machine, inbox, spent>>

RequestReturns ==
    /\ Up /\ k.pc = "locking" /\ k.job \in {"ok", "failed"}
    /\ k' = [k EXCEPT !.pc = "select", !.why = "none", !.job = "none",
                      !.inhibitor = @ /\ ~(k.why = "sleep" /\ k.job = "ok")]
    /\ IF k.why = "power" THEN Suspend ELSE UNCHANGED <<machine, inbox>>
    /\ UNCHANGED <<process, unit, starts, fb, hint, spent>>

\* session_locked() is read before the press or the deadline is judged.
HandlePress ==
    /\ Selecting /\ inbox.presses # <<>>
    /\ inbox' = [inbox EXCEPT !.presses = Tail(@)]
    /\ \E locked \in SessionLocked :
          k' = [k EXCEPT !.pc = "press", !.press = Head(inbox.presses),
                         !.locked = locked]
    /\ UNCHANGED <<process, unit, starts, fb, hint, machine, spent>>

HandleDeadline ==
    /\ Selecting /\ k.pending = "due"
    /\ \E locked \in SessionLocked :
          k' = [k EXCEPT !.pc = "deadline", !.locked = locked]
    /\ UNCHANGED <<process, unit, starts, fb, hint, machine, inbox, spent>>

Judged(pending) ==
    [k EXCEPT !.pc = "select", !.press = "none", !.locked = FALSE,
              !.pending = pending]

\* PowerKeyAction::Sleep.
Sleep(lockFirst) ==
    IF lockFirst
    THEN Request("power", Judged("none")) /\ UNCHANGED <<machine, inbox>>
    ELSE Suspend /\ k' = Judged("none") /\ UNCHANGED <<process, unit, starts, fb>>

\* PowerKey::press: ignored, sleep at once, the dialog, or wait for a second.
JudgePress ==
    /\ Up /\ k.pc = "press"
    /\ IF ~k.guard /\ k.locked THEN Sleep(FALSE)
       ELSE /\ k' = Judged(CASE k.guard -> k.pending
                             [] k.pending = "waiting" -> "none"
                             [] OTHER -> "waiting")
            /\ UNCHANGED <<process, unit, starts, fb, machine, inbox>>
    /\ UNCHANGED <<hint, spent>>

\* PowerKey::deadline_passed.
JudgeDeadline ==
    /\ Up /\ k.pc = "deadline" /\ Sleep(~k.locked)
    /\ UNCHANGED <<hint, spent>>

\* DOUBLE_PRESS_WINDOW and WAKE_GUARD.
WindowPasses ==
    /\ Up /\ k.pending = "waiting" /\ k' = [k EXCEPT !.pending = "due"]
    /\ UNCHANGED <<process, unit, starts, fb, hint, machine, inbox, spent>>

GuardPasses ==
    /\ Up /\ k.guard /\ k' = [k EXCEPT !.guard = FALSE]
    /\ UNCHANGED <<process, unit, starts, fb, hint, machine, inbox, spent>>

\* A lost connection or a kill.
CoordinatorDies ==
    /\ Up /\ k.pc # "dead" /\ Spend("crashes") /\ Die
    /\ UNCHANGED <<process, unit, starts, fb, hint, machine>>

\* The inhibitor first, which logind refuses while a sleep is prepared ...
CoordinatorStarts ==
    /\ machine = "awake" /\ k.pc = "dead" /\ k' = Fresh("starting")
    /\ UNCHANGED <<process, unit, starts, fb, hint, machine, inbox, spent>>

\* ... and the subscriptions after it.
CoordinatorSubscribes ==
    /\ Up /\ k.pc = "starting" /\ k' = [k EXCEPT !.pc = "select"]
    /\ UNCHANGED <<process, unit, starts, fb, hint, machine, inbox, spent>>

-----------------------------------------------------------------------------
(* Specification *)

Systemd == RestartUnit \/ IntervalPasses \/ LockRequested
Locker ==
    \/ LockerLocks \/ LockerReady \/ LockerAuthenticates \/ LockerUnlocks
    \/ LockerLeaves \/ LockerDenied \/ LockerCrashes
Fallback ==
    \/ SwaylockLocks \/ SwaylockUnlocks \/ SwaylockDenied \/ SwaylockCrashes
    \/ SuperviseReady \/ SuperviseDone \/ RestartFallback
Logind ==
    \/ LockSignal \/ SleepRequested \/ GoToSleep \/ ForceSleep \/ Wake \/ Press
Coordinator ==
    \/ HandleLockSignal \/ HandlePreparing \/ HandleWoke \/ RequestReturns
    \/ HandlePress \/ HandleDeadline \/ JudgePress \/ JudgeDeadline
    \/ WindowPasses \/ GuardPasses
    \/ CoordinatorDies \/ CoordinatorStarts \/ CoordinatorSubscribes

Next == Systemd \/ Locker \/ Fallback \/ Logind \/ Coordinator

SessionSpec == Init /\ [][Next]_vars

\* Fairness: systemd restarts what failed, a live process takes its next step,
\* the compositor answers.  Nothing is assumed of the user, of crashes, of
\* sleep or of the start limit's interval.
SessionLiveSpec ==
    /\ SessionSpec
    /\ WF_vars(RestartUnit) /\ WF_vars(RestartFallback)
    /\ WF_vars(LockerLocks) /\ WF_vars(LockerReady)
    /\ WF_vars(LockerLeaves) /\ WF_vars(LockerDenied)
    /\ WF_vars(SwaylockLocks) /\ WF_vars(SwaylockDenied)
    /\ WF_vars(SuperviseReady) /\ WF_vars(SuperviseDone)
    /\ WF_vars(RequestReturns) /\ WF_vars(CoordinatorSubscribes)
    /\ WF_vars(CoordinatorStarts)

-----------------------------------------------------------------------------
(* Properties *)

\* Every variable keeps its type; a unit that runs has a process, and a
\* process that has not told systemd it is ready is being activated.
SessionTypeOK ==
    /\ session \in {"open", "locked"}
    /\ locker \in P!Lockers /\ attempt \in P!Attempts
    /\ unit \in {"inactive", "activating", "active", "restart", "failed"}
    /\ (unit = "activating") = (locker \in {"asking", "holding"})
    /\ (unit = "active") = (locker = "ready")
    /\ starts \in 0 .. Burst
    /\ fb.step \in {"off", "spawned", "notified", "restart"}
    /\ fb.lk \in {"none", "asking", "held", "opened"}
    /\ hint \in BOOLEAN
    /\ k.pc \in {"dead", "starting", "select", "locking", "press", "deadline"}
    /\ (k.pc = "locking") = (k.job # "none")
    /\ k.pending \in {"none", "waiting", "due"}
    /\ machine \in {"awake", "preparing", "asleep"}
    /\ inbox.sleep \in Seq(BOOLEAN)

\* A lock request that reports success found the session locked, or met the
\* user's own unlock: the locker has the password and has not exited yet.
RequestLocks ==
    [][k.job # "ok" /\ k'.job = "ok" => session' = "locked" \/ attempt = "passed"]_vars

\* While the machine is awake and no sleep signal waits to be handled, the
\* coordinator's inhibitor delays the next sleep: every path of the loop that
\* gives the inhibitor up takes a new one after the wake.
AwakeIsGuarded ==
    k.pc = "select" /\ machine = "awake" /\ inbox.sleep = <<>> => k.inhibitor

\* A session left locked by a dead locker gets one again, the provider or the
\* fallback, whatever crashed and whatever the start limit did.
LockedHasALocker ==
    session = "locked" /\ ~ProviderHolds /\ ~FallbackHolds ~>
        ProviderHolds \/ FallbackHolds \/ ~Up

\* A lock request the start limit does not refuse locks the session in the
\* end, though the lockers crash on the way and the request itself may have
\* failed: the unit is restarted, and past the limit the fallback locks.
RequestEndsLocked ==
    k.pc = "locking" /\ unit # "failed" ~>
        session = "locked" \/ attempt = "passed" \/ ~Up

\* What power_key.rs says of WAKE_GUARD: the press that woke the machine is
\* ignored, and does not send it straight back to sleep.
WakePressIgnored ==
    [][k.press = "wake" /\ k'.press = "none" => machine' = machine]_vars
=============================================================================
