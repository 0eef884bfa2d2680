--------------------------- MODULE SafeModeProofs ---------------------------
(***************************************************************************)
(* Theorems about SafeMode, for every set of units and every number of     *)
(* logins, failures and troubles: the types of its variables, that safe    *)
(* mode lasts one login, and that a user who leaves it does not meet it    *)
(* again.                                                                  *)
(***************************************************************************)
EXTENDS SafeMode, RmacStorageProofs

(* The inductive invariant *)

Pcs == {"out", "begin", "read", "archive", "mirror", "consume", "fallback",
        "move", "start", "in"}
Logins == [pc : Pcs, via : {"none", "supervisor", "wrapper"},
           mode : {"normal", "safe"}, found : Markers \cup {None}]
Observers == [pc : {"idle", "look", "write", "stop", "start"},
              state : Failures \cup {None}]
Healths == {"off", "up", "failed", "exhausted"}
Ghosts == [served : SUBSET (Markers \cup {None}),
           again : SUBSET (Markers \cup {None}),
           cleared : BOOLEAN, unanswered : SUBSET Units]
Spendings == [logins : 0 .. MaxLogins, failures : 0 .. MaxFailures,
              leaves : 0 .. MaxLeaves, troubles : 0 .. MaxTroubles]
Types == [p \in {"marker"} |-> Markers]

Typed ==
    /\ IsDirectory(disk, Types)
    /\ record \in Markers \cup {None}
    /\ build \in [Units -> Nat] /\ \A u \in Units : build[u] <= spent.troubles
    /\ login \in Logins
    /\ target \in {"none", "normal", "safe"}
    /\ health \in [Units -> Healths]
    /\ observer \in [Units -> Observers]
    /\ notice \in {"off", "read", "shown", "marker", "record", "quit"}
    /\ leave \in {"off", "marker", "record", "reset", "switch"}
    /\ spent \in Spendings
    /\ ghost \in Ghosts

Modes ==
    /\ \A u \in Units : health[u] = "up" => target = "normal"
    /\ notice # "off" => target = "safe"

\* Every marker on the disk or used by a login; a failure among them has the
\* number it was recorded with.
Seen(d) == {d["marker"].now} \cup d["marker"].may
Known == Seen(disk) \cup {login.found} \cup ghost.served

Older(u, n) == \A m \in Known \cap Failures : m.unit = u => m.number < n

\* An observer that is about to record a failure records a new one.
Numbered ==
    /\ \A m \in Known \cap Failures : m.number <= spent.failures
    /\ \A u \in Units :
          /\ observer[u].pc = "look" => Older(u, spent.failures)
          /\ observer[u].pc = "write" =>
                /\ observer[u].state \in Failures
                /\ observer[u].state.unit = u
                /\ observer[u].state.number <= spent.failures
                /\ Older(u, observer[u].state.number)

\* No marker that a login reads or will read has been served, unless a power
\* loss brought it back or the wrapper could not move it.
Once ==
    /\ Marker = NoFile \/ Marker \notin ghost.served \ ghost.again
    /\ Reading => login.found # NoFile /\ login.found \notin ghost.served \ ghost.again
    /\ login.pc = "start" /\ login.mode = "safe" =>
          Marker # login.found \/ login.found \in ghost.again

\* Nor does a cleared one come back.
Cleared ==
    ghost.cleared =>
        /\ Marker = NoFile \/ Marker \in ghost.again
        /\ Reading => login.found \in ghost.again

SafeModeInv == Typed /\ Modes /\ Numbered /\ Once /\ Cleared

-----------------------------------------------------------------------------
(* Types *)

LEMMA MarkerTypes ==
    /\ "marker" \in DOMAIN Types /\ DOMAIN Types = {"marker"}
    /\ Types["marker"] = Markers
    /\ NoFile \in Markers /\ Invalid \in Markers /\ Failures \subseteq Markers
    /\ NoFile \notin Failures
BY SafeModeAssumption DEF Types, Markers, Failures

LEMMA DiskTypes ==
    ASSUME Typed
    PROVE  /\ Marker \in Markers /\ disk["marker"].may \subseteq Markers
           /\ DOMAIN disk = {"marker"}
BY MarkerTypes DEF Typed, IsDirectory, Marker

\* A step counts at most one thing, and only up.
Counts ==
    /\ spent' \in Spendings
    /\ spent.troubles <= spent'.troubles
    /\ spent.failures <= spent'.failures

LEMMA SpendCounts ==
    ASSUME Typed, NEW what \in {"logins", "failures", "leaves", "troubles"}, Spend(what)
    PROVE  /\ Counts /\ spent'[what] = spent[what] + 1
           /\ what # "failures" => spent'.failures = spent.failures
           /\ what # "troubles" => spent'.troubles = spent.troubles
<1>1. /\ spent \in Spendings /\ spent.logins \in Nat /\ spent.failures \in Nat
      /\ spent.leaves \in Nat /\ spent.troubles \in Nat
    BY SafeModeAssumption DEF Typed, Spendings
<1>2. spent[what] < Budget[what] /\ spent' = [spent EXCEPT ![what] = @ + 1]
    BY DEF Spend
<1>3. CASE what = "logins"
  <2>1. spent.logins < MaxLogins
      BY <1>2, <1>3 DEF Budget
  <2>2. QED
      BY <1>1, <1>2, <1>3, <2>1, SafeModeAssumption DEF Counts, Spendings
<1>4. CASE what = "failures"
  <2>1. spent.failures < MaxFailures
      BY <1>2, <1>4 DEF Budget
  <2>2. QED
      BY <1>1, <1>2, <1>4, <2>1, SafeModeAssumption DEF Counts, Spendings
<1>5. CASE what = "troubles"
  <2>1. spent.troubles < MaxTroubles
      BY <1>2, <1>5 DEF Budget
  <2>2. QED
      BY <1>1, <1>2, <1>5, <2>1, SafeModeAssumption DEF Counts, Spendings
<1>6. CASE what = "leaves"
  <2>1. spent.leaves < MaxLeaves
      BY <1>2, <1>6 DEF Budget
  <2>2. QED
      BY <1>1, <1>2, <1>6, <2>1, SafeModeAssumption DEF Counts, Spendings
<1>7. QED
    BY <1>3, <1>4, <1>5, <1>6

LEMMA FaultCounts ==
    ASSUME Typed, NEW good, FaultUnless(good)
    PROVE  Counts /\ spent'.failures = spent.failures
<1>1. CASE UNCHANGED spent
    BY <1>1, SafeModeAssumption DEF Typed, Counts, Spendings
<1>2. CASE Spend("troubles")
    BY <1>2, SpendCounts
<1>3. QED
    BY <1>1, <1>2 DEF FaultUnless

\* Nothing is counted.
LEMMA NothingCounts ==
    ASSUME Typed, UNCHANGED spent
    PROVE  Counts /\ spent'.failures = spent.failures
BY SafeModeAssumption DEF Typed, Counts, Spendings

\* What the three file operations leave of the marker.
LEMMA RemoveLeaves ==
    ASSUME Typed, NEW r \in RemoveFile(disk, "marker")
    PROVE  /\ IsDirectory(r.dir, Types) /\ r.ok \in BOOLEAN
           /\ Seen(r.dir) \subseteq Seen(disk) \cup {NoFile}
           /\ r.ok => r.dir["marker"].now = NoFile
           /\ ~r.ok => r.dir = disk
<1>1. IsDirectory(r.dir, Types)
    BY MarkerTypes, RemoveFileType DEF Typed
<1>2. /\ r.ok \in BOOLEAN
      /\ r.dir = IF r.ok /\ Marker # NoFile THEN Put(disk, "marker", NoFile)
                 ELSE disk
    BY RemoveFileOutcome DEF Marker
<1>3. "marker" \in DOMAIN disk
    BY DiskTypes
<1>4. Put(disk, "marker", NoFile)["marker"]
          = [now |-> NoFile, may |-> disk["marker"].may \cup {NoFile}]
    BY <1>3 DEF Put
<1>5. r.ok => r.dir["marker"].now = NoFile
    BY <1>2, <1>4, RemoveFileOutcome DEF Marker, RemoveFile, Result
<1>6. Seen(r.dir) \subseteq Seen(disk) \cup {NoFile}
    BY <1>2, <1>4 DEF Seen
<1>7. ~r.ok => r.dir = disk
    BY <1>2
<1>8. QED
    BY <1>1, <1>2, <1>5, <1>6, <1>7

LEMMA WriteLeaves ==
    ASSUME Typed, NEW m \in Failures, NEW r \in WriteVerified(disk, "marker", m)
    PROVE  /\ IsDirectory(r.dir, Types) /\ r.ok \in BOOLEAN
           /\ Seen(r.dir) \subseteq Seen(disk) \cup {m}
           /\ r.dir = disk \/ r.dir["marker"].now = m
<1>1. IsDirectory(r.dir, Types)
    BY MarkerTypes, WriteVerifiedType DEF Typed
<1>2. /\ r.ok \in BOOLEAN
      /\ r.dir \in {disk, Put(disk, "marker", m), Sync(Put(disk, "marker", m))}
    BY WriteVerifiedOutcome
<1>3. "marker" \in DOMAIN disk
    BY DiskTypes
<1>4. /\ Put(disk, "marker", m)["marker"]
            = [now |-> m, may |-> disk["marker"].may \cup {m}]
      /\ "marker" \in DOMAIN Put(disk, "marker", m)
    BY <1>3 DEF Put
<1>5. Sync(Put(disk, "marker", m))["marker"] = [now |-> m, may |-> {m}]
    BY <1>4 DEF Sync, OnDisk
<1>6. Seen(r.dir) \subseteq Seen(disk) \cup {m}
    BY <1>2, <1>4, <1>5 DEF Seen
<1>7. QED
    BY <1>1, <1>2, <1>4, <1>5, <1>6

LEMMA PutLeaves ==
    ASSUME Typed, disk' = Put(disk, "marker", NoFile)
    PROVE  /\ IsDirectory(disk', Types) /\ Marker' = NoFile
           /\ Seen(disk') \subseteq Seen(disk) \cup {NoFile}
<1>1. IsDirectory(disk', Types)
    BY MarkerTypes, PutType DEF Typed
<1>2. "marker" \in DOMAIN disk
    BY DiskTypes
<1>3. disk'["marker"] = [now |-> NoFile, may |-> disk["marker"].may \cup {NoFile}]
    BY <1>2 DEF Put
<1>4. QED
    BY <1>1, <1>3 DEF Seen, Marker

LEMMA LossLeaves ==
    ASSUME Typed, disk' \in AfterPowerLoss(disk)
    PROVE  /\ IsDirectory(disk', Types)
           /\ Seen(disk') \subseteq Seen(disk)
           /\ Marker' = Marker \/ Marker' \in disk["marker"].may \ {Marker}
<1>1. IsDirectory(disk', Types)
    BY PowerLossType DEF Typed
<1>2. "marker" \in DOMAIN disk
    BY DiskTypes
<1>3. \/ disk'["marker"] = disk["marker"]
      \/ \E m \in disk["marker"].may : disk'["marker"] = OnDisk(m)
    BY <1>2, PowerLossFile
<1>4. CASE disk'["marker"] = disk["marker"]
    BY <1>1, <1>4 DEF Seen, Marker
<1>5. ASSUME NEW m \in disk["marker"].may, disk'["marker"] = OnDisk(m)
      PROVE  Marker' = m /\ Seen(disk') = {m} /\ {m} \subseteq Seen(disk)
    BY <1>5 DEF Seen, Marker, OnDisk
<1>6. QED
    BY <1>1, <1>3, <1>4, <1>5

\* Each step keeps the types.
LEMMA Steady ==
    ASSUME Typed, Counts, IsDirectory(disk', Types), build' = build
    PROVE  \A u \in Units : build'[u] <= spent'.troubles
<1>1. spent.troubles \in Nat /\ spent'.troubles \in Nat
    BY SafeModeAssumption DEF Counts, Typed, Spendings
<1>2. QED
    BY <1>1 DEF Typed, Counts

LEMMA WrapperTyped ==
    ASSUME Typed, Wrapper
    PROVE  Typed' /\ Counts
<1> USE DEF At, Goto, Boot
<1>1. login \in Logins /\ ghost \in Ghosts /\ health \in [Units -> Healths]
    BY DEF Typed
<1>2. Stopped \in [Units -> Healths] /\ [u \in Units |-> "up"] \in [Units -> Healths]
    BY <1>1 DEF Stopped, Healths
<1>3. /\ Marker \in Markers /\ NoFile \in Markers
      /\ Out \in Logins
    BY DiskTypes, MarkerTypes DEF Out, Logins, Pcs
<1>4. IsDirectory(disk, Types)
    BY DEF Typed
<1>5. CASE LogIn
  <2>1. Counts
      BY <1>5, SpendCounts DEF LogIn
  <2>2. login' \in Logins
      BY <1>3, <1>5 DEF LogIn, Logins, Pcs
  <2>3. QED
      BY <1>2, <1>4, <1>5, <2>1, <2>2, Steady DEF LogIn, NoTarget, Typed, Counts
<1>6. CASE BeginLogin \/ ReadMarker \/ Mirror
  <2>1. Counts
      BY <1>6, NothingCounts DEF BeginLogin, ReadMarker, Mirror
  <2>2. login' \in Logins /\ record' \in Markers \cup {None}
      BY <1>1, <1>3, <1>6 DEF BeginLogin, ReadMarker, Mirror, Logins, Pcs, Typed
  <2>3. QED
      BY <1>4, <1>6, <2>1, <2>2, Steady
      DEF BeginLogin, ReadMarker, Mirror, Typed, Counts, session
<1>7. CASE Archive \/ SupervisorFails \/ Fallback
  <2>1. Counts
      BY <1>7, SpendCounts, NothingCounts DEF Archive, SupervisorFails, Fallback
  <2>2. login' \in Logins
      BY <1>1, <1>3, <1>7 DEF Archive, SupervisorFails, Fallback, Logins, Pcs
  <2>3. QED
      BY <1>4, <1>7, <2>1, <2>2, Steady
      DEF Archive, SupervisorFails, Fallback, Typed, Counts, session
<1>8. CASE Consume
  <2>1. PICK r \in RemoveFile(disk, "marker") :
            /\ disk' = r.dir /\ FaultUnless(r.ok)
            /\ IF r.ok THEN Boot(login.mode, "supervisor") ELSE Goto("fallback")
      BY <1>8 DEF Consume
  <2>2. Counts /\ IsDirectory(disk', Types)
      BY <2>1, FaultCounts, RemoveLeaves
  <2>3. login' \in Logins
      BY <1>1, <2>1 DEF Logins, Pcs
  <2>4. QED
      BY <1>8, <2>2, <2>3, Steady DEF Consume, Typed, Counts, session
<1>9. CASE MoveAside
  <2>1. Counts /\ IsDirectory(disk', Types)
      BY <1>4, <1>9, PutLeaves, SpendCounts, NothingCounts DEF MoveAside
  <2>2. login' \in Logins
      BY <1>1, <1>9 DEF MoveAside, Logins, Pcs
  <2>3. ghost' \in Ghosts
      BY <1>1, <1>9 DEF MoveAside, Logins, Ghosts
  <2>4. QED
      BY <1>9, <2>1, <2>2, <2>3, Steady DEF MoveAside, Typed, Counts, session
<1>10. CASE StartDesktop
  <2>1. Counts
      BY <1>10, NothingCounts DEF StartDesktop
  <2>2. login' \in Logins
      BY <1>1, <1>10 DEF StartDesktop, Logins, Pcs
  <2>3. ghost' \in Ghosts
      BY <1>1, <1>10 DEF StartDesktop, Logins, Ghosts
  <2>4. /\ target' \in {"none", "normal", "safe"} /\ health' \in [Units -> Healths]
        /\ notice' \in {"off", "read", "shown", "marker", "record", "quit"}
      BY <1>2, <1>10 DEF StartDesktop, SafeTarget, NormalTarget, Typed
  <2>5. QED
      BY <1>4, <1>10, <2>1, <2>2, <2>3, <2>4, Steady DEF StartDesktop, Typed, Counts
<1>11. CASE LogOut
  <2>1. Counts
      BY <1>11, SpendCounts, NothingCounts DEF LogOut
  <2>2. QED
      BY <1>2, <1>3, <1>4, <1>11, <2>1, Steady DEF LogOut, NoTarget, Typed, Counts
<1>12. QED
    BY <1>5, <1>6, <1>7, <1>8, <1>9, <1>10, <1>11 DEF Wrapper

LEMMA ObserverTyped ==
    ASSUME Typed, NEW u \in Units,
           UnitFails(u) \/ Observer(u) \/ Upgrade(u), Numbered
    PROVE  Typed' /\ Counts
<1>1. /\ ghost \in Ghosts /\ health \in [Units -> Healths]
      /\ observer \in [Units -> Observers] /\ IsDirectory(disk, Types)
      /\ build \in [Units -> Nat] /\ spent \in Spendings
      /\ build[u] \in 0 .. MaxTroubles
    BY SafeModeAssumption DEF Typed, Spendings
<1>2. Stopped \in [Units -> Healths]
    BY <1>1 DEF Stopped, Healths
<1>3. CASE UnitFails(u)
  <2>1. Counts
      BY <1>3, SpendCounts DEF UnitFails
  <2>2. health' \in [Units -> Healths]
      BY <1>1, <1>3 DEF UnitFails, Healths
  <2>3. observer' \in [Units -> Observers]
      BY <1>1, <1>3 DEF UnitFails, Observers
  <2>4. ghost' \in Ghosts
      BY <1>1, <1>3 DEF UnitFails, Ghosts
  <2>5. QED
      BY <1>1, <1>3, <2>1, <2>2, <2>3, <2>4, Steady DEF UnitFails, Typed, Counts
<1>4. CASE ObserveFailure(u)
  <2>1. Counts
      BY <1>4, NothingCounts, SpendCounts DEF ObserveFailure
  <2>2. u \in Essential =>
           [unit |-> u, build |-> build[u], number |-> spent["failures"]] \in Failures
      BY <1>1 DEF Failures, Spendings
  <2>3. observer' \in [Units -> Observers]
      BY <1>1, <1>4, <2>2 DEF ObserveFailure, GivesUp, Observers
  <2>4. ghost' \in Ghosts
      BY <1>1, <1>4 DEF ObserveFailure, GivesUp, Ghosts
  <2>5. QED
      BY <1>1, <1>4, <2>1, <2>3, <2>4, Steady
      DEF ObserveFailure, Typed, Counts, session
<1>5. CASE WriteMarker(u)
  <2>1. PICK r \in WriteVerified(disk, "marker", observer[u].state) :
          /\ disk' = r.dir /\ FaultUnless(r.ok)
          /\ observer' = [observer EXCEPT ![u] =
                 [pc |-> IF r.ok THEN "stop" ELSE "idle", state |-> None]]
          /\ ghost' = [ghost EXCEPT
                         !.cleared = @ /\ r.dir = disk,
                         !.unanswered = IF r.ok THEN @ ELSE @ \cup {u}]
      BY <1>5 DEF WriteMarker
  <2>2. observer[u].state \in Failures
      BY <1>5 DEF WriteMarker, Numbered
  <2>3. Counts /\ IsDirectory(disk', Types)
      BY <2>1, <2>2, FaultCounts, WriteLeaves
  <2>4. observer' \in [Units -> Observers]
      BY <1>1, <2>1 DEF Observers
  <2>5. ghost' \in Ghosts
    <3> DEFINE c == ghost.cleared /\ r.dir = disk
               x == IF r.ok THEN ghost.unanswered ELSE ghost.unanswered \cup {u}
    <3>1. c \in BOOLEAN /\ x \in SUBSET Units
        BY <1>1 DEF Ghosts
    <3>2. ghost' = [ghost EXCEPT !.cleared = c, !.unanswered = x]
        BY <1>1, <2>1 DEF Ghosts
    <3> HIDE DEF c, x
    <3>3. QED
        BY <1>1, <3>1, <3>2 DEF Ghosts
  <2>6. QED
      BY <1>5, <2>3, <2>4, <2>5, Steady DEF WriteMarker, Typed, Counts, session
<1>6. CASE StopSession(u) \/ StartSafeMode(u)
  <2>1. Counts
      BY <1>6, NothingCounts, SpendCounts, FaultCounts
      DEF StopSession, StartSafeMode
  <2>2. observer' \in [Units -> Observers] /\ ghost' \in Ghosts
      BY <1>1, <1>6 DEF StopSession, StartSafeMode, GivesUp, Observers, Ghosts
  <2>3. /\ target' \in {"none", "normal", "safe"} /\ health' \in [Units -> Healths]
        /\ notice' \in {"off", "read", "shown", "marker", "record", "quit"}
      BY <1>2, <1>6
      DEF StopSession, StopTarget, StartSafeMode, SafeTarget, Typed, session
  <2>4. QED
      BY <1>1, <1>6, <2>1, <2>2, <2>3, Steady
      DEF StopSession, StartSafeMode, Typed, Counts
<1>7. CASE Upgrade(u)
  <2>1. Counts /\ spent'.troubles = spent.troubles + 1
      BY <1>7, SpendCounts DEF Upgrade
  <2>2. spent.troubles \in Nat
      BY SafeModeAssumption DEF Typed, Spendings
  <2>3. build' \in [Units -> Nat] /\ \A v \in Units : build'[v] <= spent'.troubles
      BY <1>1, <1>7, <2>1, <2>2 DEF Upgrade, Typed
  <2>4. QED
      BY <1>1, <1>7, <2>1, <2>3 DEF Upgrade, Typed, Counts, session
<1>8. QED
    BY <1>3, <1>4, <1>5, <1>6, <1>7 DEF Observer

\* The two halves of clear_safe_mode, for the notice and for the command.
LEMMA ClearingTyped ==
    ASSUME Typed, NoticeClearsMarker \/ LeaveClearsMarker
    PROVE  Typed' /\ Counts
<1>1. ghost \in Ghosts
    BY DEF Typed
<1>2. PICK r \in RemoveFile(disk, "marker") :
        /\ disk' = r.dir /\ FaultUnless(r.ok)
        /\ ghost' = [ghost EXCEPT !.cleared = @ \/ (r.ok /\ ~Reading)]
    BY DEF NoticeClearsMarker, LeaveClearsMarker, ClearMarker
<1>3. Counts /\ IsDirectory(disk', Types)
    BY <1>2, FaultCounts, RemoveLeaves
<1>4. ghost' \in Ghosts
  <2> DEFINE c == ghost.cleared \/ (r.ok /\ ~Reading)
  <2>1. ghost' = [ghost EXCEPT !.cleared = c] /\ c \in BOOLEAN
      BY <1>1, <1>2 DEF Ghosts
  <2> HIDE DEF c
  <2>2. QED
      BY <1>1, <2>1 DEF Ghosts
<1>5. /\ notice' \in {"off", "read", "shown", "marker", "record", "quit"}
      /\ leave' \in {"off", "marker", "record", "reset", "switch"}
    BY DEF NoticeClearsMarker, LeaveClearsMarker, ClearMarker, session, Typed
<1>6. UNCHANGED <<record, build, login, target, health, observer>>
    BY DEF NoticeClearsMarker, LeaveClearsMarker, session
<1>7. QED
    BY <1>3, <1>4, <1>5, <1>6, Steady DEF Typed, Counts

LEMMA LeavingTyped ==
    ASSUME Typed, Leaving
    PROVE  Typed' /\ Counts
<1>1. login \in Logins /\ health \in [Units -> Healths] /\ IsDirectory(disk, Types)
    BY DEF Typed
<1>2. /\ Stopped \in [Units -> Healths] /\ [u \in Units |-> "up"] \in [Units -> Healths]
      /\ [u \in Units |-> IF health[u] = "up" THEN "up" ELSE "off"]
            \in [Units -> Healths]
      /\ Out \in Logins
    BY <1>1 DEF Stopped, Healths, Out, Logins, Pcs
<1>3. CASE ReadNotice \/ RestartNormally \/ NoticeClearsRecord \/ Leave
           \/ LeaveClearsRecord
  <2>1. Counts
      BY <1>3, NothingCounts, SpendCounts
      DEF ReadNotice, RestartNormally, NoticeClearsRecord, Leave,
          LeaveClearsRecord, ClearRecord
  <2>2. QED
      BY <1>1, <1>3, <2>1, Steady
      DEF ReadNotice, RestartNormally, NoticeClearsRecord, Leave,
          LeaveClearsRecord, ClearRecord, session, Typed, Counts
<1>4. CASE NoticeQuits \/ ResetFailed \/ Switch
  <2>1. Counts
      BY <1>4, NothingCounts, SpendCounts DEF NoticeQuits, ResetFailed, Switch
  <2>2. QED
      BY <1>1, <1>2, <1>4, <2>1, Steady
      DEF NoticeQuits, ResetFailed, Switch, NoTarget, NormalTarget, session,
          Typed, Counts
<1>5. QED
    BY <1>3, <1>4, ClearingTyped DEF Leaving

LEMMA PowerLossTyped ==
    ASSUME Typed, PowerLoss
    PROVE  Typed' /\ Counts
<1>1. ghost \in Ghosts /\ disk["marker"].may \subseteq Markers
    BY DiskTypes DEF Typed
<1>2. Counts /\ IsDirectory(disk', Types)
    BY SpendCounts, LossLeaves DEF PowerLoss
<1>3. /\ Out \in Logins
      /\ [u \in Units |-> "off"] \in [Units -> Healths]
      /\ [u \in Units |-> [pc |-> "idle", state |-> None]] \in [Units -> Observers]
    BY DEF Out, Logins, Pcs, Healths, Observers
<1>4. ghost' \in Ghosts
    BY <1>1 DEF PowerLoss, Ghosts
<1>5. QED
    BY <1>2, <1>3, <1>4, Steady DEF PowerLoss, Typed, Counts

LEMMA StepTyped ==
    ASSUME Typed, Numbered, Next \/ UNCHANGED vars
    PROVE  Typed' /\ Counts
<1>1. CASE UNCHANGED vars
  <2>1. Counts
      BY <1>1, NothingCounts DEF vars
  <2>2. QED
      BY <1>1, <2>1 DEF vars, Typed
<1>2. CASE Next
    BY <1>2, WrapperTyped, LeavingTyped, PowerLossTyped, ObserverTyped DEF Next
<1>3. QED
    BY <1>1, <1>2

-----------------------------------------------------------------------------
(* A component runs only under the normal target, the notice only under the *)
(* safe one.                                                                *)

LEMMA StepModes ==
    ASSUME Typed, Modes, Next \/ UNCHANGED vars
    PROVE  Modes'
<1> USE DEF Modes
<1>1. /\ health \in [Units -> Healths]
      /\ \A u \in Units : Stopped[u] # "up"
      /\ target \in {"none", "normal", "safe"}
    BY DEF Typed, Stopped, Healths
<1>2. CASE SafeTarget \/ NoTarget \/ NormalTarget
    BY <1>1, <1>2 DEF SafeTarget, NoTarget, NormalTarget
<1>3. CASE UNCHANGED session \/ UNCHANGED vars
    BY <1>3 DEF session, vars
<1>4. CASE Wrapper
    BY <1>2, <1>3, <1>4
    DEF Wrapper, LogIn, BeginLogin, ReadMarker, Archive, Mirror, Consume,
        SupervisorFails, Fallback, MoveAside, StartDesktop, LogOut
<1>5. CASE Leaving
  <2>1. CASE ReadNotice \/ RestartNormally \/ NoticeClearsMarker
             \/ NoticeClearsRecord \/ ResetFailed
      BY <1>1, <2>1
      DEF ReadNotice, RestartNormally, NoticeClearsMarker, NoticeClearsRecord,
          ResetFailed
  <2>2. CASE NoticeQuits
      BY <1>1, <1>2, <2>2 DEF NoticeQuits
  <2>3. CASE Leave \/ LeaveClearsMarker \/ LeaveClearsRecord \/ Switch
      BY <1>2, <1>3, <2>3
      DEF Leave, LeaveClearsMarker, LeaveClearsRecord, Switch
  <2>4. QED
      BY <1>5, <2>1, <2>2, <2>3 DEF Leaving
<1>6. CASE PowerLoss
    BY <1>6 DEF PowerLoss
<1>7. ASSUME NEW u \in Units, UnitFails(u) \/ Observer(u) \/ Upgrade(u)
      PROVE  Modes'
  <2>1. CASE UnitFails(u)
      BY <1>1, <2>1 DEF UnitFails
  <2>2. CASE StopSession(u)
      BY <1>1, <2>2 DEF StopSession, StopTarget
  <2>3. CASE ObserveFailure(u) \/ WriteMarker(u) \/ StartSafeMode(u) \/ Upgrade(u)
    <3>1. ObserveFailure(u) => UNCHANGED session
        BY DEF ObserveFailure
    <3>2. WriteMarker(u) => UNCHANGED session
        BY Zenon DEF WriteMarker
    <3>3. StartSafeMode(u) => SafeTarget \/ UNCHANGED session
        BY DEF StartSafeMode
    <3>4. Upgrade(u) => UNCHANGED session
        BY DEF Upgrade
    <3>5. QED
        BY <1>2, <1>3, <2>3, <3>1, <3>2, <3>3, <3>4
  <2>4. QED
      BY <1>7, <2>1, <2>2, <2>3 DEF Observer
<1>8. QED
    BY <1>3, <1>4, <1>5, <1>6, <1>7 DEF Next

-----------------------------------------------------------------------------
(* Where the markers that are known come from *)

\* Steps that only read the markers, or add what a removal leaves.
LEMMA NothingNew ==
    ASSUME Typed, Typed', Numbered, Counts,
           Known' \subseteq Known \cup {NoFile, None},
           \A u \in Units : \/ observer'[u] = observer[u]
                            \/ observer'[u].pc \notin {"look", "write"}
    PROVE  Numbered'
<1>1. NoFile \notin Failures /\ None \notin Failures
    BY SafeModeAssumption DEF Failures
<1>2. (Known \cap Failures)' \subseteq Known \cap Failures
    BY <1>1 DEF Failures
<1>3. /\ spent.failures \in Nat /\ spent'.failures \in Nat
      /\ spent.failures <= spent'.failures
    BY SafeModeAssumption DEF Typed, Spendings, Counts
<1>4. \A m \in Failures : m.number \in Nat
    BY DEF Failures
<1>5. \A u \in Units :
        observer[u].pc = "write" => observer[u].state.number \in Nat
    BY <1>4 DEF Numbered
<1>6. \A m \in (Known \cap Failures)' : m.number <= spent'.failures
    BY <1>2, <1>3, <1>4 DEF Numbered
<1>7. ASSUME NEW u \in Units, observer'[u].pc = "look"
      PROVE  Older(u, spent.failures)'
  <2>1. Older(u, spent.failures)
      BY <1>7 DEF Numbered
  <2>2. QED
      BY <1>2, <1>3, <1>4, <2>1 DEF Older
<1>8. ASSUME NEW u \in Units, observer'[u].pc = "write"
      PROVE  /\ (observer[u].state)' \in Failures
             /\ (observer[u].state.unit)' = u
             /\ (observer[u].state.number)' <= spent'.failures
             /\ Older(u, observer[u].state.number)'
  <2>1. observer'[u] = observer[u]
      BY <1>8
  <2>2. /\ observer[u].state \in Failures /\ observer[u].state.unit = u
        /\ observer[u].state.number <= spent.failures
        /\ Older(u, observer[u].state.number)
      BY <1>8, <2>1 DEF Numbered
  <2>3. Older(u, observer[u].state.number)'
      BY <1>2, <2>1, <2>2 DEF Older
  <2>4. QED
      BY <1>3, <1>4, <2>1, <2>2, <2>3
<1>9. QED
    BY <1>6, <1>7, <1>8 DEF Numbered, Failures

LEMMA WrapperReads ==
    ASSUME Typed, Wrapper
    PROVE  Known' \subseteq Known \cup {NoFile, None} /\ observer' = observer
<1> USE DEF At, Goto, Boot, Known
<1>1. login \in Logins /\ Marker \in Seen(disk) /\ Out.found = None /\ ghost \in Ghosts
    BY DEF Typed, Seen, Marker, Out
<1>2. CASE LogIn \/ LogOut
    BY <1>1, <1>2 DEF LogIn, LogOut, Out
<1>3. CASE BeginLogin \/ ReadMarker \/ Mirror \/ Archive \/ SupervisorFails \/ Fallback
  <2>1. disk' = disk /\ ghost' = ghost /\ observer' = observer
      BY <1>3
      DEF BeginLogin, ReadMarker, Mirror, Archive, SupervisorFails, Fallback
  <2>2. login'.found \in {login.found, Marker}
      BY <1>1, <1>3
      DEF BeginLogin, ReadMarker, Mirror, Archive, SupervisorFails, Fallback, Logins
  <2>3. QED
      BY <1>1, <2>1, <2>2
<1>4. CASE Consume
  <2>1. PICK r \in RemoveFile(disk, "marker") :
            /\ disk' = r.dir
            /\ IF r.ok THEN Boot(login.mode, "supervisor") ELSE Goto("fallback")
      BY <1>4 DEF Consume
  <2>2. login'.found = login.found
      BY <1>1, <2>1 DEF Logins
  <2>3. Seen(disk') \subseteq Seen(disk) \cup {NoFile}
      BY <2>1, RemoveLeaves
  <2>4. QED
      BY <1>4, <2>2, <2>3 DEF Consume
<1>5. CASE MoveAside
  <2>1. Seen(disk') \subseteq Seen(disk) \cup {NoFile}
      BY <1>5, PutLeaves DEF MoveAside
  <2>2. login'.found = login.found /\ ghost'.served = ghost.served
      BY <1>1, <1>5 DEF MoveAside, Logins, Ghosts
  <2>3. QED
      BY <1>5, <2>1, <2>2 DEF MoveAside
<1>6. CASE StartDesktop
  <2>1. disk' = disk /\ observer' = observer /\ login'.found = None
      BY <1>1, <1>6 DEF StartDesktop, Logins
  <2>2. ghost'.served \subseteq ghost.served \cup {login.found}
      BY <1>1, <1>6 DEF StartDesktop, Ghosts
  <2>3. QED
      BY <2>1, <2>2
<1>7. QED
    BY <1>2, <1>3, <1>4, <1>5, <1>6 DEF Wrapper

\* Only clear_safe_mode touches the disk, and it only removes.
LEMMA ClearingRemoves ==
    ASSUME Typed, NoticeClearsMarker \/ LeaveClearsMarker
    PROVE  \E r \in RemoveFile(disk, "marker") :
             /\ disk' = r.dir /\ login' = login /\ observer' = observer
             /\ ghost'.served = ghost.served /\ ghost'.again = ghost.again
             /\ ghost'.cleared = (ghost.cleared \/ (r.ok /\ ~Reading))
<1>1. ghost \in Ghosts
    BY DEF Typed
<1>2. PICK r \in RemoveFile(disk, "marker") :
        /\ disk' = r.dir
        /\ ghost' = [ghost EXCEPT !.cleared = @ \/ (r.ok /\ ~Reading)]
    BY DEF NoticeClearsMarker, LeaveClearsMarker, ClearMarker
<1>3. /\ ghost'.served = ghost.served /\ ghost'.again = ghost.again
      /\ ghost'.cleared = (ghost.cleared \/ (r.ok /\ ~Reading))
    BY <1>1, <1>2 DEF Ghosts
<1>4. login' = login /\ observer' = observer
    BY DEF NoticeClearsMarker, LeaveClearsMarker
<1>5. QED
    BY <1>2, <1>3, <1>4

LEMMA LeavingReads ==
    ASSUME Typed, Leaving
    PROVE  Known' \subseteq Known \cup {NoFile, None} /\ observer' = observer
<1>1. CASE NoticeClearsMarker \/ LeaveClearsMarker
  <2>1. PICK r \in RemoveFile(disk, "marker") :
          /\ disk' = r.dir /\ login' = login /\ observer' = observer
          /\ ghost'.served = ghost.served
      BY <1>1, ClearingRemoves
  <2>2. QED
      BY <2>1, RemoveLeaves DEF Known
<1>2. CASE ~(NoticeClearsMarker \/ LeaveClearsMarker)
    BY <1>2
    DEF Leaving, ReadNotice, RestartNormally, NoticeClearsRecord, NoticeQuits,
        Leave, LeaveClearsRecord, ResetFailed, Switch, Known, Out
<1>3. QED
    BY <1>1, <1>2

LEMMA PowerLossReads ==
    ASSUME Typed, PowerLoss
    PROVE  /\ Known' \subseteq Known \cup {NoFile, None}
           /\ \A u \in Units : observer'[u].pc = "idle"
<1>1. Seen(disk') \subseteq Seen(disk)
    BY LossLeaves DEF PowerLoss
<1>2. ghost'.served = ghost.served /\ login'.found = None
    BY DEF PowerLoss, Typed, Ghosts, Out
<1>3. QED
    BY <1>1, <1>2 DEF PowerLoss, Known

-----------------------------------------------------------------------------
(* A marker that is written is a new one *)

LEMMA WriteMarkerNew ==
    ASSUME Typed, Numbered, NEW u \in Units, WriteMarker(u)
    PROVE  \E m \in Failures :
             /\ m = observer[u].state /\ m \notin Known
             /\ m.unit = u /\ m.number <= spent.failures
             /\ Seen(disk') \subseteq Seen(disk) \cup {m}
             /\ disk' = disk \/ Marker' = m
             /\ ghost'.served = ghost.served /\ ghost'.again = ghost.again
             /\ ghost'.cleared = (ghost.cleared /\ disk' = disk)
<1>1. observer[u].pc = "write" /\ ghost \in Ghosts
    BY Zenon DEF WriteMarker, Typed
<1>2. PICK r \in WriteVerified(disk, "marker", observer[u].state) :
          /\ disk' = r.dir
          /\ ghost' = [ghost EXCEPT
                         !.cleared = @ /\ r.dir = disk,
                         !.unanswered = IF r.ok THEN @ ELSE @ \cup {u}]
    BY Zenon DEF WriteMarker
<1>3. PICK m \in Failures : m = observer[u].state
    BY <1>1 DEF Numbered
<1>4. m.unit = u /\ m.number <= spent.failures /\ Older(u, m.number)
    BY <1>1, <1>3 DEF Numbered
<1>5. m \notin Known
    BY <1>3, <1>4 DEF Older, Failures
<1>6. /\ Seen(disk') \subseteq Seen(disk) \cup {m}
      /\ disk' = disk \/ Marker' = m
    BY <1>2, <1>3, WriteLeaves DEF Marker
<1>7. /\ ghost'.served = ghost.served /\ ghost'.again = ghost.again
      /\ ghost'.cleared = (ghost.cleared /\ r.dir = disk)
    BY <1>1, <1>2 DEF Ghosts
<1>8. QED
    BY <1>2, <1>3, <1>4, <1>5, <1>6, <1>7

LEMMA WriteMarkerNumbered ==
    ASSUME Typed, Typed', Numbered, Counts, NEW u \in Units, WriteMarker(u)
    PROVE  Numbered' /\ login' = login
<1>1. PICK m \in Failures :
          /\ m = observer[u].state /\ m \notin Known
          /\ m.unit = u /\ m.number <= spent.failures
          /\ Seen(disk') \subseteq Seen(disk) \cup {m}
          /\ ghost'.served = ghost.served
    BY WriteMarkerNew
<1>2. login' = login
    BY Zenon DEF WriteMarker
<1>3. /\ observer'[u].pc \notin {"look", "write"}
      /\ \A v \in Units \ {u} : observer'[v] = observer[v]
  <2>1. observer \in [Units -> Observers]
      BY DEF Typed
  <2>2. \E r \in WriteVerified(disk, "marker", observer[u].state) :
          observer' = [observer EXCEPT ![u] =
                 [pc |-> IF r.ok THEN "stop" ELSE "idle", state |-> None]]
      BY Zenon DEF WriteMarker
  <2>3. QED
      BY <2>1, <2>2
<1>4. Known' \subseteq Known \cup {m}
    BY <1>1, <1>2 DEF Known
<1>5. /\ spent.failures \in Nat /\ spent'.failures \in Nat
      /\ spent.failures <= spent'.failures
    BY SafeModeAssumption DEF Typed, Spendings, Counts
<1>6. \A k \in Failures : k.number \in Nat
    BY DEF Failures
<1>7. Failures' = Failures
    BY DEF Failures
<1>8. \A k \in (Known \cap Failures)' : k.number <= spent'.failures
    BY <1>1, <1>4, <1>5, <1>6, <1>7 DEF Numbered
<1>9. ASSUME NEW v \in Units, observer'[v].pc \in {"look", "write"}
      PROVE  /\ v # u /\ observer'[v] = observer[v]
             /\ \A k \in (Known \cap Failures)' : k.unit = v => k \in Known \cap Failures
    BY <1>1, <1>3, <1>4, <1>7, <1>9
<1>10. ASSUME NEW v \in Units, observer'[v].pc = "look"
       PROVE  Older(v, spent.failures)'
  <2>1. Older(v, spent.failures)
      BY <1>9, <1>10 DEF Numbered
  <2>2. QED
      BY <1>5, <1>6, <1>9, <1>10, <2>1 DEF Older
<1>11. ASSUME NEW v \in Units, observer'[v].pc = "write"
       PROVE  /\ (observer[v].state)' \in Failures
              /\ (observer[v].state.unit)' = v
              /\ (observer[v].state.number)' <= spent'.failures
              /\ Older(v, observer[v].state.number)'
  <2>1. observer'[v] = observer[v]
      BY <1>9, <1>11
  <2>2. /\ observer[v].state \in Failures /\ observer[v].state.unit = v
        /\ observer[v].state.number <= spent.failures
        /\ Older(v, observer[v].state.number)
      BY <1>11, <2>1 DEF Numbered
  <2>3. Older(v, observer[v].state.number)'
      BY <1>9, <1>11, <2>1, <2>2 DEF Older
  <2>4. QED
      BY <1>5, <1>6, <2>1, <2>2, <2>3
<1>12. QED
    BY <1>2, <1>7, <1>8, <1>10, <1>11 DEF Numbered

\* What the steps of an observer that write nothing leave alone.
LEMMA ObserverLeaves ==
    ASSUME Typed, NEW u \in Units,
           ObserveFailure(u) \/ StopSession(u) \/ StartSafeMode(u)
    PROVE  /\ disk' = disk /\ Marker' = Marker /\ login' = login
           /\ ghost'.served = ghost.served /\ ghost'.again = ghost.again
           /\ ghost'.cleared = ghost.cleared
           /\ spent'.failures = spent.failures
           /\ \A v \in Units : v # u => observer'[v] = observer[v]
<1>1. ghost \in Ghosts /\ observer \in [Units -> Observers]
    BY DEF Typed
<1>2. /\ disk' = disk /\ Marker' = Marker /\ login' = login
      /\ \/ UNCHANGED spent \/ Spend("troubles")
      /\ \/ UNCHANGED ghost \/ GivesUp(u)
    BY DEF ObserveFailure, StopSession, StartSafeMode, FaultUnless, Marker
<1>3. spent'.failures = spent.failures
    BY <1>2, SpendCounts
<1>4. /\ ghost'.served = ghost.served /\ ghost'.again = ghost.again
      /\ ghost'.cleared = ghost.cleared
    BY <1>1, <1>2 DEF GivesUp, Ghosts
<1>5. \A v \in Units : v # u => observer'[v] = observer[v]
    BY <1>1 DEF ObserveFailure, StopSession, StartSafeMode, GivesUp
<1>6. QED
    BY <1>2, <1>3, <1>4, <1>5

\* A failing component starts its observer, which knows of no failure of it
\* with this number; looking takes that number.
LEMMA FailureNumbered ==
    ASSUME Typed, Typed', Numbered, Counts, NEW u \in Units,
           UnitFails(u) \/ ObserveFailure(u)
    PROVE  Numbered'
<1>1. /\ observer \in [Units -> Observers] /\ ghost \in Ghosts
      /\ build \in [Units -> Nat] /\ build[u] \in 0 .. MaxTroubles
      /\ spent \in Spendings /\ spent' \in Spendings
    BY SafeModeAssumption DEF Typed, Spendings
<1>2. /\ spent.failures \in Nat /\ spent'.failures \in Nat
      /\ spent.failures <= spent'.failures
    BY <1>1, SafeModeAssumption DEF Spendings, Counts
<1>3. Known' = Known /\ Failures' = Failures
    BY <1>1, ObserverLeaves DEF UnitFails, Known, Failures, Ghosts
<1>4. \A k \in Failures : k.number \in Nat
    BY DEF Failures
<1>5. \A k \in (Known \cap Failures)' : k.number <= spent'.failures
    BY <1>2, <1>3, <1>4 DEF Numbered
<1>6. ASSUME NEW v \in Units, observer'[v].pc = "look"
      PROVE  Older(v, spent.failures)'
  <2>1. CASE UnitFails(u)
    <3>1. spent'.failures = spent.failures + 1
        BY <2>1, SpendCounts DEF UnitFails
    <3>2. QED
        BY <1>2, <1>3, <1>4, <3>1 DEF Older, Numbered
  <2>2. CASE ObserveFailure(u)
    <3>1. observer[v].pc = "look"
        BY <1>1, <1>6, <2>2 DEF ObserveFailure, GivesUp
    <3>2. Older(v, spent.failures) /\ spent'.failures = spent.failures
        BY <2>2, <3>1, ObserverLeaves DEF Numbered
    <3>3. QED
        BY <1>3, <3>2 DEF Older
  <2>3. QED
      BY <2>1, <2>2
<1>7. ASSUME NEW v \in Units, observer'[v].pc = "write"
      PROVE  /\ (observer[v].state)' \in Failures
             /\ (observer[v].state.unit)' = v
             /\ (observer[v].state.number)' <= spent'.failures
             /\ Older(v, observer[v].state.number)'
  <2>1. CASE observer'[v] = observer[v]
    <3>1. /\ observer[v].state \in Failures /\ observer[v].state.unit = v
          /\ observer[v].state.number <= spent.failures
          /\ Older(v, observer[v].state.number)
        BY <1>7, <2>1 DEF Numbered
    <3>2. QED
        BY <1>2, <1>3, <1>4, <2>1, <3>1 DEF Older
  <2>2. CASE observer'[v] # observer[v]
    <3>1. ObserveFailure(u) /\ v = u
      <4>1. UnitFails(u) => observer'[v] = observer[v] \/ observer'[v].pc = "look"
          BY <1>1 DEF UnitFails, Observers
      <4>2. ObserveFailure(u) => v = u \/ observer'[v] = observer[v]
          BY ObserverLeaves
      <4>3. QED
          BY <1>7, <2>2, <4>1, <4>2
    <3>2. /\ u \in Essential /\ spent' = spent /\ observer[u].pc = "look"
          /\ observer'[u].state = [unit |-> u, build |-> build[u],
                                   number |-> spent["failures"]]
        BY <1>1, <1>7, <3>1 DEF ObserveFailure, GivesUp
    <3>3. [unit |-> u, build |-> build[u], number |-> spent["failures"]] \in Failures
        BY <1>1, <3>2 DEF Failures, Spendings
    <3>4. Older(u, spent.failures)
        BY <3>2 DEF Numbered
    <3>5. observer'[u].state.number = spent.failures /\ observer'[u].state.unit = u
        BY <3>2
    <3>6. QED
        BY <1>2, <1>3, <3>1, <3>2, <3>3, <3>4, <3>5 DEF Older
  <2>3. QED
      BY <2>1, <2>2
<1>8. QED
    BY <1>3, <1>5, <1>6, <1>7 DEF Numbered

LEMMA StepNumbered ==
    ASSUME Typed, Typed', Numbered, Counts, Next \/ UNCHANGED vars
    PROVE  Numbered'
<1>1. CASE UNCHANGED vars
    BY <1>1, NothingNew DEF vars, Known
<1>2. CASE Wrapper
    BY <1>2, NothingNew, WrapperReads
<1>3. CASE Leaving
    BY <1>3, NothingNew, LeavingReads
<1>4. CASE PowerLoss
    BY <1>4, NothingNew, PowerLossReads
<1>5. ASSUME NEW u \in Units, UnitFails(u) \/ Observer(u) \/ Upgrade(u)
      PROVE  Numbered'
  <2>1. CASE UnitFails(u) \/ ObserveFailure(u)
      BY <2>1, FailureNumbered
  <2>2. CASE WriteMarker(u)
      BY <2>2, WriteMarkerNumbered
  <2>3. CASE StopSession(u) \/ StartSafeMode(u) \/ Upgrade(u)
    <3>1. Known' = Known
        BY <2>3, ObserverLeaves DEF Upgrade, Known
    <3>2. \A v \in Units : \/ observer'[v] = observer[v]
                           \/ observer'[v].pc \notin {"look", "write"}
        BY <2>3 DEF StopSession, StartSafeMode, GivesUp, Upgrade, Typed, Observers
    <3>3. QED
        BY <3>1, <3>2, NothingNew
  <2>4. QED
      BY <1>5, <2>1, <2>2, <2>3 DEF Observer
<1>6. QED
    BY <1>1, <1>2, <1>3, <1>4, <1>5 DEF Next

-----------------------------------------------------------------------------
(* One login in safe mode *)

\* Steps that leave the marker, the login and the history of them alone.
LEMMA NothingServed ==
    ASSUME Once, Cleared, Marker' = Marker, login' = login,
           ghost'.served = ghost.served, ghost'.again = ghost.again,
           ghost'.cleared = ghost.cleared
    PROVE  Once' /\ Cleared'
BY DEF Once, Cleared, Reading

\* Steps after which no login reads a marker.
LEMMA NobodyReads ==
    ASSUME Once, Cleared, login' = Out,
           Marker' \in {Marker, NoFile} \cup ghost'.again,
           ghost'.served = ghost.served, ghost.again \subseteq ghost'.again,
           ghost'.cleared = ghost.cleared
    PROVE  Once' /\ Cleared'
BY DEF Once, Cleared, Reading, Out

LEMMA LoginServed ==
    ASSUME Typed, Once, Cleared,
           LogIn \/ BeginLogin \/ ReadMarker \/ Archive \/ Mirror
              \/ SupervisorFails \/ Fallback
    PROVE  Once' /\ Cleared'
<1> USE DEF At, Goto, Boot
<1>1. login \in Logins
    BY DEF Typed
<1>2. disk' = disk /\ Marker' = Marker /\ ghost' = ghost
    BY DEF LogIn, BeginLogin, ReadMarker, Archive, Mirror, SupervisorFails,
           Fallback, Marker
<1>3. \/ login'.pc \in {"begin", "read", "fallback"}
      \/ login'.pc = "start" /\ login'.mode = "normal"
      \/ /\ login.pc \in {"archive", "mirror"} /\ login'.found = login.found
         /\ login'.pc \in {"mirror", "consume"}
      \/ /\ Marker # NoFile /\ login'.found = Marker
         /\ login'.pc \in {"archive", "move"}
    BY <1>1
    DEF LogIn, BeginLogin, ReadMarker, Archive, Mirror, SupervisorFails,
        Fallback, Logins, Out
<1>4. Reading' => /\ login'.pc # "start"
                  /\ \/ Reading /\ login'.found = login.found
                     \/ Marker # NoFile /\ login'.found = Marker
    BY <1>3 DEF Reading
<1>5. ~(login'.pc = "start" /\ login'.mode = "safe")
    BY <1>3
<1>6. QED
    BY <1>2, <1>4, <1>5 DEF Once, Cleared

\* The two ways in which a login disposes of the marker.
LEMMA ConsumeServed ==
    ASSUME Typed, Once, Cleared, Consume \/ MoveAside
    PROVE  Once' /\ Cleared'
<1> USE DEF At, Goto, Boot
<1>1. login \in Logins /\ ghost \in Ghosts
    BY DEF Typed
<1>2. CASE Consume
  <2>1. PICK r \in RemoveFile(disk, "marker") :
            /\ disk' = r.dir
            /\ IF r.ok THEN Boot(login.mode, "supervisor") ELSE Goto("fallback")
      BY <1>2 DEF Consume
  <2>2. ghost' = ghost /\ login.pc = "consume"
      BY <1>2 DEF Consume
  <2>3. CASE r.ok
    <3>1. Marker' = NoFile /\ login'.found = login.found /\ login'.pc = "start"
        BY <1>1, <2>1, <2>3, RemoveLeaves DEF Marker, Logins
    <3>2. QED
        BY <2>2, <3>1 DEF Once, Cleared, Reading
  <2>4. CASE ~r.ok
    <3>1. Marker' = Marker /\ login'.pc = "fallback"
        BY <1>1, <2>1, <2>4, RemoveLeaves DEF Marker, Logins
    <3>2. QED
        BY <2>2, <3>1 DEF Once, Cleared, Reading
  <2>5. QED
      BY <2>3, <2>4
<1>3. CASE MoveAside
  <2>1. /\ login.pc = "move" /\ login'.pc = "start"
        /\ login'.found = login.found
        /\ ghost'.served = ghost.served /\ ghost'.cleared = ghost.cleared
        /\ ghost.again \subseteq ghost'.again
      BY <1>1, <1>3 DEF MoveAside, Logins, Ghosts
  <2>2. \/ Marker' = NoFile
        \/ Marker' = Marker /\ login.found \in ghost'.again
      BY <1>1, <1>3, PutLeaves DEF MoveAside, Ghosts, Marker
  <2>3. QED
      BY <2>1, <2>2 DEF Once, Cleared, Reading
<1>4. QED
    BY <1>2, <1>3

LEMMA StartServed ==
    ASSUME Typed, Once, Cleared, StartDesktop
    PROVE  Once' /\ Cleared'
<1>1. login \in Logins /\ ghost \in Ghosts
    BY DEF Typed
<1>2. /\ login.pc = "start" /\ login'.pc = "in" /\ Marker' = Marker
      /\ ghost'.again = ghost.again /\ ghost'.cleared = ghost.cleared
    BY <1>1 DEF StartDesktop, At, Logins, Ghosts, Marker
<1>3. \/ login.mode = "safe" /\ ghost'.served = ghost.served \cup {login.found}
      \/ ghost'.served = ghost.served
    BY <1>1 DEF StartDesktop, Ghosts
<1>4. QED
    BY <1>2, <1>3 DEF Once, Cleared, Reading

LEMMA ClearingServed ==
    ASSUME Typed, Once, Cleared, NoticeClearsMarker \/ LeaveClearsMarker
    PROVE  Once' /\ Cleared'
<1>1. PICK r \in RemoveFile(disk, "marker") :
        /\ disk' = r.dir /\ login' = login
        /\ ghost'.served = ghost.served /\ ghost'.again = ghost.again
        /\ ghost'.cleared = (ghost.cleared \/ (r.ok /\ ~Reading))
    BY ClearingRemoves
<1>2. CASE r.ok
  <2>1. Marker' = NoFile
      BY <1>1, <1>2, RemoveLeaves DEF Marker
  <2>2. ghost'.cleared => ghost.cleared \/ ~Reading
      BY <1>1
  <2>3. Reading' = Reading
      BY <1>1 DEF Reading
  <2>4. Once'
      BY <1>1, <2>1 DEF Once, Reading
  <2>5. Cleared'
      BY <1>1, <2>1, <2>2, <2>3 DEF Cleared
  <2>6. QED
      BY <2>4, <2>5
<1>3. CASE ~r.ok
  <2>1. Marker' = Marker
      BY <1>1, <1>3, RemoveLeaves DEF Marker
  <2>2. ghost.cleared \in BOOLEAN
      BY DEF Typed, Ghosts
  <2>3. ghost'.cleared = ghost.cleared
      BY <1>1, <1>3, <2>2
  <2>4. QED
      BY <1>1, <2>1, <2>3, NothingServed
<1>4. QED
    BY <1>2, <1>3

LEMMA PowerLossServed ==
    ASSUME Typed, Once, Cleared, PowerLoss
    PROVE  Once' /\ Cleared'
<1>1. /\ ghost'.served = ghost.served /\ ghost'.cleared = ghost.cleared
      /\ ghost'.again = ghost.again \cup (disk["marker"].may \ {Marker})
    BY DEF PowerLoss, Typed, Ghosts
<1>2. Marker' \in {Marker} \cup ghost'.again
    BY <1>1, LossLeaves DEF PowerLoss
<1>3. QED
    BY <1>1, <1>2, NobodyReads DEF PowerLoss

LEMMA WriteServed ==
    ASSUME Typed, Numbered, Once, Cleared, NEW u \in Units, WriteMarker(u)
    PROVE  Once' /\ Cleared'
<1>1. PICK m \in Failures :
          /\ m \notin Known
          /\ disk' = disk \/ Marker' = m
          /\ ghost'.served = ghost.served /\ ghost'.again = ghost.again
          /\ ghost'.cleared = (ghost.cleared /\ disk' = disk)
    BY WriteMarkerNew
<1>2. login' = login
    BY Zenon DEF WriteMarker
<1>3. CASE disk' = disk
  <2>1. ghost.cleared \in BOOLEAN
      BY DEF Typed, Ghosts
  <2>2. ghost'.cleared = ghost.cleared /\ Marker' = Marker
      BY <1>1, <1>3, <2>1 DEF Marker
  <2>3. QED
      BY <1>1, <1>2, <2>2, NothingServed
<1>4. CASE disk' # disk
  <2>1. Marker' = m /\ m \notin ghost.served /\ m # login.found /\ ~ghost'.cleared
      BY <1>1, <1>4 DEF Known
  <2>2. QED
      BY <1>1, <1>2, <2>1 DEF Once, Cleared, Reading
<1>5. QED
    BY <1>3, <1>4

LEMMA StepServed ==
    ASSUME Typed, Numbered, Once, Cleared, Next \/ UNCHANGED vars
    PROVE  Once' /\ Cleared'
<1>1. CASE UNCHANGED vars
    BY <1>1, NothingServed DEF vars, Marker
<1>2. CASE Wrapper
  <2>1. CASE LogOut
      BY <2>1, NobodyReads DEF LogOut, Marker
  <2>2. QED
      BY <1>2, <2>1, LoginServed, ConsumeServed, StartServed DEF Wrapper
<1>3. CASE Leaving
  <2>1. CASE NoticeQuits
    <3>1. Marker' = Marker /\ ghost' = ghost /\ login' \in {login, Out}
        BY <2>1 DEF NoticeQuits, Marker
    <3>2. QED
        BY <3>1, NobodyReads, NothingServed
  <2>2. CASE ~(NoticeQuits \/ NoticeClearsMarker \/ LeaveClearsMarker)
      BY <1>3, <2>2, NothingServed
      DEF Leaving, ReadNotice, RestartNormally, NoticeClearsRecord, Leave,
          LeaveClearsRecord, ResetFailed, Switch, Marker
  <2>3. QED
      BY <2>1, <2>2, ClearingServed
<1>4. CASE PowerLoss
    BY <1>4, PowerLossServed
<1>5. ASSUME NEW u \in Units, UnitFails(u) \/ Observer(u) \/ Upgrade(u)
      PROVE  Once' /\ Cleared'
  <2>1. CASE UnitFails(u)
    <3>1. /\ ghost'.served = ghost.served /\ ghost'.again = ghost.again
          /\ ghost'.cleared = ghost.cleared
        BY <2>1 DEF UnitFails, Typed, Ghosts
    <3>2. QED
        BY <2>1, <3>1, NothingServed DEF UnitFails, Marker
  <2>2. CASE ObserveFailure(u) \/ StopSession(u) \/ StartSafeMode(u) \/ Upgrade(u)
      BY <2>2, ObserverLeaves, NothingServed DEF Upgrade, Marker
  <2>3. QED
      BY <1>5, <2>1, <2>2, WriteServed DEF Observer
<1>6. QED
    BY <1>1, <1>2, <1>3, <1>4, <1>5 DEF Next

-----------------------------------------------------------------------------
(* The theorems *)

LEMMA InitInv ==
    ASSUME Init
    PROVE  SafeModeInv
<1>1. PICK m \in {NoFile, Invalid}
              \cup [unit : Essential, build : {0}, number : {0}] :
          disk = [marker |-> OnDisk(m)]
    BY DEF Init
<1>2. /\ 0 \in 0 .. MaxFailures /\ 0 \in 0 .. MaxTroubles /\ 0 \in 0 .. MaxLogins
      /\ 0 \in 0 .. MaxLeaves
    BY SafeModeAssumption
<1>3. m \in Markers /\ (m \in Failures => m.number = 0)
  <2>1. [unit : Essential, build : {0}, number : {0}] \subseteq Failures
      BY <1>2 DEF Failures
  <2>2. NoFile \notin Failures /\ Invalid \notin Failures
      BY SafeModeAssumption DEF Failures
  <2>3. QED
      BY <1>1, <2>1, <2>2 DEF Markers
<1>4. disk["marker"] = [now |-> m, may |-> {m}] /\ DOMAIN disk = {"marker"}
    BY <1>1 DEF OnDisk
<1>5. Marker = m /\ Seen(disk) = {m}
    BY <1>4 DEF Marker, Seen
<1>6. spent \in Spendings /\ spent.failures = 0 /\ spent.troubles = 0
    BY <1>2 DEF Init, Budget, Spendings
<1>7. Typed
  <2>1. IsDirectory(disk, Types)
      BY <1>3, <1>4 DEF IsDirectory, Types
  <2>2. login \in Logins /\ record \in Markers \cup {None}
      BY DEF Init, Out, Logins, Pcs
  <2>3. observer \in [Units -> Observers] /\ health \in [Units -> Healths]
      BY DEF Init, Observers, Healths
  <2>4. ghost \in Ghosts
      BY DEF Init, Ghosts
  <2>5. build \in [Units -> Nat] /\ \A u \in Units : build[u] <= spent.troubles
      BY <1>6 DEF Init
  <2>6. QED
      BY <1>6, <2>1, <2>2, <2>3, <2>4, <2>5 DEF Typed, Init
<1>8. Modes
    BY DEF Modes, Init
<1>9. Numbered
  <2>1. Known = {m, None} /\ None \notin Failures
      BY <1>5, SafeModeAssumption DEF Known, Init, Out, Failures
  <2>2. \A k \in Known \cap Failures : k.number <= spent.failures
      BY <1>3, <1>6, <2>1
  <2>3. \A u \in Units : observer[u].pc = "idle"
      BY DEF Init
  <2>4. QED
      BY <2>2, <2>3 DEF Numbered
<1>10. Once /\ Cleared
    BY DEF Once, Cleared, Init, Reading, Out
<1>11. QED
    BY <1>7, <1>8, <1>9, <1>10 DEF SafeModeInv

LEMMA NextInv ==
    ASSUME SafeModeInv, [Next]_vars
    PROVE  SafeModeInv'
<1>1. Typed' /\ Counts
    BY StepTyped DEF SafeModeInv
<1>2. QED
    BY <1>1, StepModes, StepNumbered, StepServed DEF SafeModeInv

LEMMA SafeModeInvariant ==
    SafeModeSpec => []SafeModeInv
BY InitInv, NextInv, PTL DEF SafeModeSpec

\* Every variable keeps its type, a component is up only under the normal
\* target, and the notice is shown only under the safe one (NormalTarget,
\* SafeTarget: the targets conflict, and each stops what the other started).
THEOREM SafeModeTypeCorrect ==
    SafeModeSpec => []SafeModeTypeOK
<1>1. SafeModeInv => SafeModeTypeOK
  <2>1. Typed => /\ login.pc \in Pcs /\ IsDirectory(disk, Types)
                 /\ record \in Markers \cup {None}
                 /\ target \in {"none", "normal", "safe"}
      BY DEF Typed, Logins
  <2>2. QED
      BY <2>1 DEF SafeModeInv, SafeModeTypeOK, Modes, Types, Pcs
<1>2. QED
    BY <1>1, SafeModeInvariant, PTL

\* Safe mode lasts one login (begin_login, the wrapper's own fallback and the
\* observers together): a marker that already started a desktop in safe mode
\* starts no other, unless a power loss restored it or the wrapper could not
\* move it.
THEOREM OneSafeLoginHolds ==
    SafeModeSpec => OneSafeLogin
<1>1. SafeModeInv /\ [Next]_vars =>
        [StartsSafe => login.found \notin ghost.served \ ghost.again]_vars
    BY DEF SafeModeInv, Once, Reading, StartsSafe
<1>2. QED
    BY <1>1, SafeModeInvariant, PTL DEF SafeModeSpec, OneSafeLogin

\* After clear_safe_mode no login starts in safe mode for what was cleared,
\* unless a power loss restored it, until an observer records a new failure.
THEOREM ClearedStaysClearedHolds ==
    SafeModeSpec => ClearedStaysCleared
<1>1. SafeModeInv /\ [Next]_vars =>
        [StartsSafe /\ ghost.cleared => login.found \in ghost.again]_vars
    BY DEF SafeModeInv, Cleared, Reading, StartsSafe
<1>2. QED
    BY <1>1, SafeModeInvariant, PTL DEF SafeModeSpec, ClearedStaysCleared
=============================================================================
