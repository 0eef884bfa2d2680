------------------------------ MODULE SafeMode ------------------------------
(***************************************************************************)
(* Safe mode of the desktop session (rmac-session): an essential component *)
(* that exhausts its restart budget leaves a marker on the disk, the login *)
(* wrapper consumes it, and the login after that is normal again.          *)
(*   - disk: the marker safe-mode.json, a file of RmacStorage; a plain     *)
(*     unlink or rename is not synced (of the archived copy, which only    *)
(*     diagnostics read, the writing and its failure);                     *)
(*   - record: safe-mode-login.json in the runtime directory;              *)
(*   - login: the wrapper rmac-wayland-session and, inside it, begin_login *)
(*     of supervisor.rs, one step per file operation;                      *)
(*   - observer[u]: rmac-component-failure@u.service, which runs           *)
(*     observe-failure and outlives a logout;                              *)
(*   - notice: notify-safe-mode;  leave: clear-safe-mode, from a terminal; *)
(*   - target: which of the two conflicting systemd targets is active.     *)
(* systemd, the compositor and the user are external.  A marker is the     *)
(* failure it records: the unit, the build of its executable, a number.    *)
(***************************************************************************)
EXTENDS Naturals, FiniteSets, RmacStorage

CONSTANTS
    Units,          \* COMPONENT_UNITS
    Essential,      \* ESSENTIAL_UNITS
    Invalid,        \* a marker that does not parse
    None,
    MaxLogins,      \* bound: logins
    MaxFailures,    \* bound: components that fail
    MaxLeaves,      \* bound: uses of the command that leaves safe mode
    MaxTroubles     \* bound: components replaced, failed operations and
                    \* systemctl commands, logins cut short, power losses

ASSUME SafeModeAssumption ==
    /\ Essential \subseteq Units
    /\ \A m \in {NoFile, Invalid, None} :
          m \notin [unit : Essential, build : Nat, number : Nat]
    /\ MaxLogins \in Nat /\ MaxFailures \in Nat
    /\ MaxLeaves \in Nat /\ MaxTroubles \in Nat

VARIABLES
    disk, record,
    build,          \* the executable each unit has installed
    login, target, health, observer, notice, leave,
    spent,          \* what the bounds count
    ghost           \* history, for the properties only

vars == <<disk, record, build, login, target, health, observer, notice, leave,
          spent, ghost>>
session == <<target, health, notice>>

Budget == [logins |-> MaxLogins, failures |-> MaxFailures,
           leaves |-> MaxLeaves, troubles |-> MaxTroubles]

Spend(what) ==
    /\ spent[what] < Budget[what]
    /\ spent' = [spent EXCEPT ![what] = @ + 1]

FaultUnless(good) == IF good THEN UNCHANGED spent ELSE Spend("troubles")

Marker == disk["marker"].now
Out == [pc |-> "out", via |-> "none", mode |-> "normal", found |-> None]

\* The marker is what an earlier session left.
Init ==
    /\ \E m \in {NoFile, Invalid}
              \cup [unit : Essential, build : {0}, number : {0}] :
          disk = [marker |-> OnDisk(m)]
    /\ record = None
    /\ build = [u \in Units |-> 0]
    /\ login = Out /\ target = "none"
    /\ health = [u \in Units |-> "off"]
    /\ observer = [u \in Units |-> [pc |-> "idle", state |-> None]]
    /\ notice = "off" /\ leave = "off"
    /\ spent = [b \in DOMAIN Budget |-> 0]
    /\ ghost = [served |-> {}, again |-> {}, cleared |-> FALSE,
                unanswered |-> {}]

-----------------------------------------------------------------------------
(* The two targets, which conflict: each stops the other.  The safe one runs *)
(* the notice unit.                                                          *)

Stopped == [u \in Units |-> IF health[u] = "up" THEN "off" ELSE health[u]]

NoTarget == target' = "none" /\ health' = Stopped /\ notice' = "off"

SafeTarget ==
    /\ target' = "safe" /\ health' = Stopped
    /\ notice' = IF target = "safe" THEN notice ELSE "read"

\* (mutant) the normal target does not conflict with the notice
BugNormalTarget ==
    /\ target' = "normal" /\ UNCHANGED notice
    /\ health' = [u \in Units |-> "up"]

NormalTarget ==
    /\ target' = "normal" /\ notice' = "off"
    /\ health' = [u \in Units |-> "up"]

-----------------------------------------------------------------------------
(* The login wrapper *)

\* stop_leftover_desktop first; a failure observer is not one of its units.
LogIn ==
    /\ login.pc = "out" /\ Spend("logins") /\ NoTarget
    /\ login' = [Out EXCEPT !.pc = "begin"]
    /\ UNCHANGED <<disk, record, build, observer, leave, ghost>>

At(pc) == login.pc = pc
Goto(pc) == login' = [login EXCEPT !.pc = pc]
Boot(mode, via) ==
    login' = [login EXCEPT !.pc = "start", !.mode = mode, !.via = via]

\* begin_login: the record of an earlier safe login goes first.
BeginLogin ==
    /\ At("begin") /\ Goto("read") /\ record' = None
    /\ UNCHANGED <<disk, build, session, observer, leave, spent, ghost>>

\* read_marker, and login_outcome against the executable installed now.
ReadMarker ==
    /\ At("read")
    /\ IF Marker = NoFile
       THEN Boot("normal", "supervisor")
       ELSE login' = [login EXCEPT !.pc = "archive", !.found = Marker]
    /\ UNCHANGED <<disk, record, build, session, observer, leave, spent, ghost>>

LoginOutcome(state) ==
    CASE state = Invalid -> "discarded"
      [] state # Invalid /\ state.build # build[state.unit] -> "skipped"
      [] OTHER -> "safe"

Archive ==
    /\ At("archive")
    /\ \/ /\ UNCHANGED spent
          /\ login' = [login EXCEPT
                 !.pc = "mirror",
                 !.mode = IF LoginOutcome(login.found) = "safe"
                          THEN "safe" ELSE "normal"]
       \/ Spend("troubles") /\ Goto("fallback")
    /\ UNCHANGED <<disk, record, build, session, observer, leave, ghost>>

\* The runtime record of a safe login.
Mirror ==
    /\ At("mirror") /\ Goto("consume")
    /\ record' = IF login.mode = "safe" THEN login.found ELSE record
    /\ UNCHANGED <<disk, build, session, observer, leave, spent, ghost>>

\* (mutant) the marker is only archived
BugConsume ==
    /\ At("consume") /\ Boot(login.mode, "supervisor")
    /\ UNCHANGED <<disk, record, build, session, observer, leave, spent, ghost>>

Consume ==
    /\ At("consume")
    /\ \E r \in RemoveFile(disk, "marker") :
          /\ disk' = r.dir /\ FaultUnless(r.ok)
          /\ IF r.ok THEN Boot(login.mode, "supervisor") ELSE Goto("fallback")
    /\ UNCHANGED <<record, build, session, observer, leave, ghost>>

\* The supervisor is missing, is killed or reports another error.
SupervisorFails ==
    /\ login.pc \in {"begin", "read", "archive", "mirror", "consume"}
    /\ Spend("troubles") /\ Goto("fallback")
    /\ UNCHANGED <<disk, record, build, session, observer, leave, ghost>>

\* Without an answer the wrapper trusts the marker's presence and moves it
\* aside itself.
Fallback ==
    /\ At("fallback")
    /\ IF Marker = NoFile
       THEN Boot("normal", "wrapper")
       ELSE login' = [login EXCEPT !.pc = "move", !.found = Marker]
    /\ UNCHANGED <<disk, record, build, session, observer, leave, spent, ghost>>

MoveAside ==
    /\ At("move") /\ Boot("safe", "wrapper")
    /\ \/ /\ disk' = Put(disk, "marker", NoFile)
          /\ UNCHANGED <<spent, ghost>>
       \/ /\ Spend("troubles") /\ UNCHANGED disk
          /\ ghost' = [ghost EXCEPT !.again = @ \cup {login.found}]
    /\ UNCHANGED <<record, build, session, observer, leave>>

\* rmac-session-start: the target of this login.
StartDesktop ==
    /\ At("start") /\ login' = [login EXCEPT !.pc = "in", !.found = None]
    /\ IF login.mode = "safe"
       THEN /\ SafeTarget
            /\ ghost' = [ghost EXCEPT !.served = @ \cup {login.found}]
       ELSE NormalTarget /\ UNCHANGED ghost
    /\ UNCHANGED <<disk, record, build, observer, leave, spent>>

\* The compositor ends, or the wrapper is terminated.  The runtime directory
\* goes with the user's last session, and stays with any other.
LogOut ==
    /\ ~At("out") /\ login' = Out /\ NoTarget
    /\ IF At("in") THEN UNCHANGED spent ELSE Spend("troubles")
    /\ record' \in {record, None}
    /\ UNCHANGED <<disk, build, observer, leave, ghost>>

-----------------------------------------------------------------------------
(* rmac-component-failure@.service: observe-failure *)

\* A component fails, with its budget exhausted or not, and OnFailure= starts
\* its observer.
UnitFails(u) ==
    /\ target = "normal" /\ health[u] = "up" /\ Spend("failures")
    /\ \E h \in {"failed", "exhausted"} : health' = [health EXCEPT ![u] = h]
    /\ observer' = IF observer[u].pc = "idle"
                   THEN [observer EXCEPT ![u].pc = "look"] ELSE observer
    /\ ghost' = [ghost EXCEPT !.unanswered = @ \ {u}]
    /\ UNCHANGED <<disk, record, build, login, target, notice, leave>>

\* An error ends the observer.
GivesUp(u) ==
    /\ observer' = [observer EXCEPT ![u] = [pc |-> "idle", state |-> None]]
    /\ ghost' = [ghost EXCEPT !.unanswered = @ \cup {u}]

\* (mutant) a marker of an earlier failure stands for this one
BugObserveFailure(u) ==
    /\ observer[u].pc = "look"
    /\ observer' = [observer EXCEPT ![u] =
           IF health[u] = "exhausted" /\ u \in Essential /\ Marker = NoFile
           THEN [pc |-> "write",
                 state |-> [unit |-> u, build |-> build[u],
                            number |-> spent["failures"]]]
           ELSE [pc |-> "idle", state |-> None]]
    /\ UNCHANGED <<disk, record, build, login, session, leave, spent, ghost>>

\* component_health, which fails if systemctl cannot be run or gives no answer
\* that parses; then the identity of the installed executable.
ObserveFailure(u) ==
    /\ observer[u].pc = "look"
    /\ \/ /\ observer' = [observer EXCEPT ![u] =
                 IF health[u] = "exhausted" /\ u \in Essential
                 THEN [pc |-> "write",
                       state |-> [unit |-> u, build |-> build[u],
                                  number |-> spent["failures"]]]
                 ELSE [pc |-> "idle", state |-> None]]
          /\ UNCHANGED <<spent, ghost>>
       \/ Spend("troubles") /\ GivesUp(u)
    /\ UNCHANGED <<disk, record, build, login, session, leave>>

WriteMarker(u) ==
    /\ observer[u].pc = "write"
    /\ \E r \in WriteVerified(disk, "marker", observer[u].state) :
          /\ disk' = r.dir /\ FaultUnless(r.ok)
          /\ observer' = [observer EXCEPT ![u] =
                 [pc |-> IF r.ok THEN "stop" ELSE "idle", state |-> None]]
          /\ ghost' = [ghost EXCEPT
                         !.cleared = @ /\ r.dir = disk,
                         !.unanswered = IF r.ok THEN @ ELSE @ \cup {u}]
    /\ UNCHANGED <<record, build, login, session, leave>>

\* The normal target, if it is the active one.
StopTarget ==
    /\ target' = IF target = "normal" THEN "none" ELSE target
    /\ health' = Stopped

\* systemctl stop rmac-session.target.  The marker stands when it fails, and
\* the target may have been stopped all the same.
StopSession(u) ==
    /\ observer[u].pc = "stop"
    /\ \/ /\ observer' = [observer EXCEPT ![u].pc = "start"]
          /\ StopTarget /\ UNCHANGED <<spent, ghost>>
       \/ /\ Spend("troubles") /\ GivesUp(u)
          /\ StopTarget \/ UNCHANGED <<target, health>>
    /\ UNCHANGED <<disk, record, build, login, notice, leave>>

\* systemctl start rmac-safe-mode.target, with its notice.  Without a
\* graphical session the start need not succeed.
StartSafeMode(u) ==
    /\ observer[u].pc = "start"
    /\ \/ /\ observer' = [observer EXCEPT ![u].pc = "idle"]
          /\ SafeTarget /\ UNCHANGED <<spent, ghost>>
       \/ FaultUnless(~At("in")) /\ GivesUp(u) /\ UNCHANGED session
    /\ UNCHANGED <<disk, record, build, login, leave>>

-----------------------------------------------------------------------------
(* Leaving safe mode *)

\* notice_context: nothing to explain, a marker that does not parse, or the
\* notice with its Restart Normally button, which the user may never press.
ReadNotice ==
    /\ notice = "read"
    /\ notice' = IF Marker = Invalid \/ (Marker = NoFile /\ record = None)
                 THEN "off" ELSE "shown"
    /\ UNCHANGED <<disk, record, build, login, target, health, observer, leave,
                   spent, ghost>>

RestartNormally ==
    /\ notice = "shown" /\ notice' = "marker"
    /\ UNCHANGED <<disk, record, build, login, target, health, observer, leave,
                   spent, ghost>>

\* A login has read a marker and may start safe mode for it.
Reading ==
    \/ login.pc \in {"archive", "mirror", "consume", "move"}
    \/ login.pc = "start" /\ login.mode = "safe"

\* (mutant) only the record of this login is cleared
BugClearMarker(next) ==
    /\ next' = "record" /\ UNCHANGED <<disk, spent>>
    /\ ghost' = [ghost EXCEPT !.cleared = @ \/ ~Reading]

\* clear_safe_mode, first half.  An error ends the command.
ClearMarker(next) ==
    \E r \in RemoveFile(disk, "marker") :
       /\ disk' = r.dir /\ FaultUnless(r.ok)
       /\ next' = IF r.ok THEN "record" ELSE "off"
       /\ ghost' = [ghost EXCEPT !.cleared = @ \/ (r.ok /\ ~Reading)]

\* clear_safe_mode, second half.
ClearRecord(next, then) ==
    \/ next' = then /\ record' = None /\ UNCHANGED spent
    \/ Spend("troubles") /\ next' = "off" /\ UNCHANGED record

NoticeClearsMarker ==
    /\ notice = "marker" /\ ClearMarker(notice)
    /\ UNCHANGED <<record, build, login, target, health, observer, leave>>

NoticeClearsRecord ==
    /\ notice = "record" /\ ClearRecord(notice, "quit")
    /\ UNCHANGED <<disk, build, login, target, health, observer, leave, ghost>>

\* niri quits, or cannot be asked to.
NoticeQuits ==
    /\ notice = "quit"
    /\ \/ login' = Out /\ NoTarget /\ UNCHANGED spent
       \/ /\ Spend("troubles") /\ notice' = "off"
          /\ UNCHANGED <<login, target, health>>
    /\ UNCHANGED <<disk, record, build, observer, leave, ghost>>

\* clear-safe-mode, or rmac-session-start --clear-safe-mode: from a terminal,
\* whatever the session does.
Leave ==
    /\ leave = "off" /\ Spend("leaves") /\ leave' = "marker"
    /\ UNCHANGED <<disk, record, build, login, session, observer, ghost>>

LeaveClearsMarker ==
    /\ leave = "marker" /\ ClearMarker(leave)
    /\ UNCHANGED <<record, build, login, session, observer>>

LeaveClearsRecord ==
    /\ leave = "record" /\ ClearRecord(leave, "reset")
    /\ UNCHANGED <<disk, build, login, session, observer, ghost>>

\* systemctl reset-failed.  An error ends the command.
ResetFailed ==
    /\ leave = "reset"
    /\ \/ /\ leave' = "switch" /\ UNCHANGED spent
          /\ health' = [u \in Units |-> IF health[u] = "up" THEN "up" ELSE "off"]
       \/ Spend("troubles") /\ leave' = "off" /\ UNCHANGED health
    /\ UNCHANGED <<disk, record, build, login, target, notice, observer, ghost>>

\* The normal target, which stops the safe one; or only the safe one was
\* stopped; or niri could not switch its configuration and the user has to log
\* in again.
Switch ==
    /\ leave = "switch" /\ leave' = "off"
    /\ \/ At("in") /\ NormalTarget
       \/ At("in") /\ target = "safe" /\ NoTarget
       \/ UNCHANGED session
    /\ UNCHANGED <<disk, record, build, login, observer, spent, ghost>>

-----------------------------------------------------------------------------
(* The machine *)

\* Only the builds of essential components are recorded.
Upgrade(u) ==
    /\ u \in Essential
    /\ Spend("troubles") /\ build' = [build EXCEPT ![u] = @ + 1]
    /\ UNCHANGED <<disk, record, login, session, observer, leave, ghost>>

PowerLoss ==
    /\ Spend("troubles")
    /\ disk' \in AfterPowerLoss(disk)
    /\ record' = None /\ login' = Out /\ target' = "none"
    /\ health' = [u \in Units |-> "off"]
    /\ observer' = [u \in Units |-> [pc |-> "idle", state |-> None]]
    /\ notice' = "off" /\ leave' = "off"
    /\ ghost' = [ghost EXCEPT
                   !.again = @ \cup (disk["marker"].may \ {Marker})]
    /\ UNCHANGED build

Wrapper ==
    \/ LogIn \/ BeginLogin \/ ReadMarker \/ Archive \/ Mirror \/ Consume
    \/ SupervisorFails \/ Fallback \/ MoveAside \/ StartDesktop \/ LogOut
Observer(u) ==
    \/ ObserveFailure(u) \/ WriteMarker(u) \/ StopSession(u) \/ StartSafeMode(u)
Leaving ==
    \/ ReadNotice \/ RestartNormally
    \/ NoticeClearsMarker \/ NoticeClearsRecord \/ NoticeQuits
    \/ Leave \/ LeaveClearsMarker \/ LeaveClearsRecord \/ ResetFailed \/ Switch

Next ==
    \/ Wrapper \/ Leaving \/ PowerLoss
    \/ \E u \in Units : UnitFails(u) \/ Observer(u) \/ Upgrade(u)

SafeModeSpec ==
    /\ Init /\ [][Next]_vars
    /\ \A u \in Units : WF_vars(Observer(u))

-----------------------------------------------------------------------------
(* Properties *)

Failures == [unit : Essential, build : 0 .. MaxTroubles, number : 0 .. MaxFailures]
Markers == {NoFile, Invalid} \cup Failures

\* Every variable keeps its type; only a safe target shows the notice.
SafeModeTypeOK ==
    /\ IsDirectory(disk, [p \in {"marker"} |-> Markers])
    /\ record \in Markers \cup {None}
    /\ target \in {"none", "normal", "safe"}
    /\ \A u \in Units : health[u] = "up" => target = "normal"
    /\ notice # "off" => target = "safe"
    /\ login.pc \in {"out", "begin", "read", "archive", "mirror", "consume",
                     "fallback", "move", "start", "in"}

StartsSafe == login.pc = "start" /\ login'.pc = "in" /\ login.mode = "safe"

\* Safe mode lasts one login: a failure starts a second desktop in safe mode
\* only if a power loss brought its marker back, or if the wrapper said that
\* it could not clear it; however logins and supervisors are cut short, and
\* whatever observers of an earlier session still do.
OneSafeLogin ==
    [][StartsSafe => login.found \notin ghost.served \ ghost.again]_vars

\* A user who restarts normally or leaves safe mode does not meet it again:
\* once the marker is cleared, only a failure recorded later, or a power loss
\* that brings the marker back, starts a login in safe mode.  The clear may come
\* between any two steps of another login; one that has read the marker already
\* goes on with it.
ClearedStaysCleared ==
    [][StartsSafe /\ ghost.cleared => login.found \in ghost.again]_vars

\* An essential component that used up its restarts brings the session into
\* safe mode, whatever other observers, a command that leaves safe mode and
\* earlier sessions do: unless the login ends, the component is reset or
\* started again, or the observer of this failure ends with an error.  Health
\* that cannot be read, a marker that cannot be written and a target that
\* cannot be stopped or started are such errors.
FailureIsAnswered ==
    \A u \in Essential :
        health[u] = "exhausted" /\ target = "normal" ~>
            \/ target = "safe" \/ ~At("in")
            \/ health[u] # "exhausted" \/ u \in ghost.unanswered
=============================================================================
