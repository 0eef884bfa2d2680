--------------------------- MODULE LockSessionProofs ---------------------------
(***************************************************************************)
(* Theorems about LockSession, for every start limit and every bound: the  *)
(* types of its variables, that a successful lock request has locked the   *)
(* session, and that the coordinator's sleep inhibitor is always taken     *)
(* again.                                                                  *)
(***************************************************************************)
EXTENDS LockSession, TLAPS

Coordinators ==
    [ pc : {"dead", "starting", "select", "locking", "press", "deadline"},
      why : {"none", "signal", "sleep", "power"},
      job : {"none", "wait", "ok", "failed"},
      press : {"none", "wake", "user"}, locked : BOOLEAN, inhibitor : BOOLEAN,
      pending : {"none", "waiting", "due"}, guard : BOOLEAN ]

Inboxes == [lock : Nat, sleep : Seq(BOOLEAN), presses : Seq({"wake", "user"})]

\* SessionTypeOK with the whole types of the records, in parts.
UnitType ==
    /\ session \in {"open", "locked"}
    /\ locker \in P!Lockers /\ attempt \in P!Attempts
    /\ unit \in {"inactive", "activating", "active", "restart", "failed"}
    /\ (unit = "activating") <=> (locker \in {"asking", "holding"})
    /\ (unit = "active") <=> (locker = "ready")
    /\ starts \in 0 .. Burst

FallbackType ==
    /\ fb \in [step : {"off", "spawned", "notified", "restart"},
               lk : {"none", "asking", "held", "opened"}]
    /\ hint \in BOOLEAN

CoordinatorType ==
    /\ k \in Coordinators
    /\ (k.pc = "locking") <=> (k.job # "none")

MachineType ==
    /\ machine \in {"awake", "preparing", "asleep"}
    /\ inbox \in Inboxes

SpentType == spent \in [{"crashes", "events"} -> Nat]

SessionType ==
    UnitType /\ FallbackType /\ CoordinatorType /\ MachineType /\ SpentType

\* One locker holds the session at a time, and what it holds is locked until
\* its own attempt has passed.
LockType ==
    /\ ~(ProviderHolds /\ FallbackHolds)
    /\ ProviderHolds /\ attempt # "passed" => session = "locked"

Last(s) == s[Len(s)]

\* The last sleep signal a listening coordinator has not handled tells where
\* the machine is; without its inhibitor, or about to give it up, the machine
\* sleeps or a wake waits to be handled.
Deaf ==
    /\ ~Listening => Len(inbox.sleep) = 0
    /\ k.pc = "starting" => k.inhibitor

LastSignal ==
    Len(inbox.sleep) # 0 /\ Last(inbox.sleep) = TRUE => machine # "awake"

Released ==
    k.pc # "dead" /\ (~k.inhibitor \/ (k.pc = "locking" /\ k.why = "sleep")) =>
        machine # "awake" \/ (Len(inbox.sleep) # 0 /\ Last(inbox.sleep) = FALSE)

GuardType == Deaf /\ LastSignal /\ Released

-----------------------------------------------------------------------------
\* Handling the head of a queue keeps its last element, or was the last.
LEMMA TailLast ==
    ASSUME NEW s \in Seq(BOOLEAN), s # <<>>
    PROVE  /\ Tail(s) \in Seq(BOOLEAN)
           /\ Len(Tail(s)) # 0 => Last(Tail(s)) = Last(s)
           /\ Len(Tail(s)) = 0 => Last(s) = Head(s)
           /\ Len(s) # 0 /\ Last(s) \in BOOLEAN
<1>1. Len(s) \in Nat /\ Len(s) > 0 /\ Len(Tail(s)) = Len(s) - 1
    OBVIOUS
<1>2. CASE Len(s) = 1
    BY <1>1, <1>2 DEF Last
<1>3. CASE Len(s) > 1
    BY <1>1, <1>3 DEF Last
<1>4. QED
    BY <1>1, <1>2, <1>3

\* What is appended is the last element.
LEMMA AppendLast ==
    ASSUME NEW s \in Seq(BOOLEAN), NEW b \in BOOLEAN
    PROVE  /\ Append(s, b) \in Seq(BOOLEAN) /\ Len(Append(s, b)) # 0
           /\ Last(Append(s, b)) = b
BY DEF Last

\* What the queues of the inbox may hold after a signal or a press.
LEMMA InboxTypes ==
    ASSUME inbox \in Inboxes
    PROVE  /\ \A b \in BOOLEAN :
                /\ PrepareForSleep(b) \in Inboxes
                /\ Len(PrepareForSleep(b).sleep) # 0
                /\ Last(PrepareForSleep(b).sleep) = b
           /\ inbox.sleep # <<>> =>
                /\ RestOfInbox \in Inboxes
                /\ Len(inbox.sleep) # 0 /\ Last(inbox.sleep) \in BOOLEAN
                /\ Len(RestOfInbox.sleep) # 0 =>
                     Last(RestOfInbox.sleep) = Last(inbox.sleep)
                /\ Len(RestOfInbox.sleep) = 0 =>
                     Last(inbox.sleep) = Head(inbox.sleep)
<1>1. inbox.sleep \in Seq(BOOLEAN)
    BY DEF Inboxes
<1>2. ASSUME NEW b \in BOOLEAN
      PROVE  /\ PrepareForSleep(b) \in Inboxes
             /\ Len(PrepareForSleep(b).sleep) # 0
             /\ Last(PrepareForSleep(b).sleep) = b
  <2>1. PrepareForSleep(b) \in Inboxes /\
          PrepareForSleep(b).sleep = Append(inbox.sleep, b)
    BY <1>1, AppendLast DEF Inboxes, PrepareForSleep
  <2>2. QED
    BY <1>1, <2>1, AppendLast
<1>3. ASSUME inbox.sleep # <<>>
      PROVE  /\ RestOfInbox \in Inboxes
             /\ Len(inbox.sleep) # 0 /\ Last(inbox.sleep) \in BOOLEAN
             /\ Len(RestOfInbox.sleep) # 0 =>
                  Last(RestOfInbox.sleep) = Last(inbox.sleep)
             /\ Len(RestOfInbox.sleep) = 0 =>
                  Last(inbox.sleep) = Head(inbox.sleep)
  <2>1. RestOfInbox \in Inboxes /\ RestOfInbox.sleep = Tail(inbox.sleep)
    BY <1>1, <1>3, TailLast DEF Inboxes, RestOfInbox
  <2>2. QED
    BY <1>1, <1>3, <2>1, TailLast
<1>4. QED
    BY <1>2, <1>3

\* A press that reaches the inbox.
LEMMA PressTypes ==
    ASSUME NEW i \in Inboxes, NEW p \in {"wake", "user"}
    PROVE  /\ [i EXCEPT !.presses = Append(@, p)] \in Inboxes
           /\ [i EXCEPT !.presses = Append(@, p)].sleep = i.sleep
<1>1. Append(i.presses, p) \in Seq({"wake", "user"})
    BY DEF Inboxes
<1>2. QED
    BY <1>1 DEF Inboxes

\* Suspend() and what it signals.
LEMMA SuspendTypes ==
    ASSUME MachineType, Suspend
    PROVE  MachineType'
BY InboxTypes DEF MachineType, Suspend, Signal

\* A start of the unit, or none.
LEMMA StartTypes ==
    ASSUME UnitType, FallbackType, StartUnit
    PROVE  UnitType' /\ fb' \in [step : {"off", "spawned", "notified", "restart"},
                                 lk : {"none", "asking", "held", "opened"}]
<1>1. UnitType'
    BY SessionAssumption
    DEF StartUnit, Stopped, Launch, LimitHit, P!Start, process, UnitType,
        P!Lockers, P!Attempts
<1>2. QED
    BY <1>1 DEF StartUnit, Stopped, Launch, LimitHit, OnFailure, FallbackType

\* Every step keeps the types.
LEMMA SessionTypeStep ==
    ASSUME SessionType, [Next]_vars
    PROVE  SessionType'
<1>1. CASE Systemd
  <2>1. CASE RestartUnit
    <3>1. UnitType'
      BY <2>1, SessionAssumption DEF RestartUnit, Launch, LimitHit,
             OnFailure, P!Start, process, Answer, Up, SessionType, UnitType,
             P!Lockers, P!Attempts
    <3>2. FallbackType'
      BY <2>1, SessionAssumption DEF RestartUnit, Launch, LimitHit,
             OnFailure, P!Start, process, Answer, Up, SessionType,
             FallbackType
    <3>3. CoordinatorType'
      BY <2>1, SessionAssumption DEF RestartUnit, Launch, LimitHit,
             OnFailure, P!Start, process, Answer, Up, SessionType,
             CoordinatorType, Coordinators
    <3>4. MachineType'
      BY <2>1 DEF RestartUnit, SessionType, MachineType, Inboxes
    <3>5. SpentType'
      BY <2>1 DEF RestartUnit, SessionType, SpentType
    <3>6. QED
      BY <3>1, <3>2, <3>3, <3>4, <3>5 DEF SessionType
  <2>2. CASE IntervalPasses
    BY <2>2, SessionAssumption DEF IntervalPasses, process, Up, SessionType,
           UnitType, FallbackType, CoordinatorType, MachineType, SpentType,
           Coordinators, Inboxes, P!Lockers, P!Attempts
  <2>3. CASE LockRequested
    <3>1. UnitType'
      BY <2>3, SessionAssumption DEF LockRequested, StartUnit, Stopped,
             Launch, LimitHit, OnFailure, P!Start, process, Up, Spend,
             Budget, SessionType, UnitType, P!Lockers, P!Attempts
    <3>2. FallbackType'
      BY <2>3, SessionAssumption DEF LockRequested, StartUnit, Stopped,
             Launch, LimitHit, OnFailure, P!Start, process, Up, Spend,
             Budget, SessionType, FallbackType
    <3>3. CoordinatorType'
      BY <2>3 DEF LockRequested, SessionType, CoordinatorType, Coordinators
    <3>4. MachineType'
      BY <2>3 DEF LockRequested, SessionType, MachineType, Inboxes
    <3>5. SpentType'
      BY <2>3, SessionAssumption DEF LockRequested, StartUnit, Stopped,
             Launch, LimitHit, OnFailure, P!Start, process, Up, Spend,
             Budget, SessionType, SpentType
    <3>6. QED
      BY <3>1, <3>2, <3>3, <3>4, <3>5 DEF SessionType
  <2>4. QED
    BY <1>1, <2>1, <2>2, <2>3 DEF Systemd
<1>2. CASE Locker
  <2>1. CASE LockerLocks
    BY <2>1 DEF LockerLocks, P!Lock, FallbackHolds, Up, SessionType,
           UnitType, FallbackType, CoordinatorType, MachineType, SpentType,
           Coordinators, Inboxes, P!Lockers, P!Attempts
  <2>2. CASE LockerReady
    <3>1. UnitType'
      BY <2>2 DEF LockerReady, P!Ready, Answer, Up, SessionType, UnitType,
             P!Lockers, P!Attempts
    <3>2. FallbackType'
      BY <2>2 DEF LockerReady, SetHint, SessionType, FallbackType
    <3>3. CoordinatorType'
      BY <2>2 DEF LockerReady, P!Ready, Answer, Up, SessionType,
             CoordinatorType, Coordinators
    <3>4. MachineType'
      BY <2>2 DEF LockerReady, SessionType, MachineType, Inboxes
    <3>5. SpentType'
      BY <2>2 DEF LockerReady, SessionType, SpentType
    <3>6. QED
      BY <3>1, <3>2, <3>3, <3>4, <3>5 DEF SessionType
  <2>3. CASE LockerAuthenticates
    BY <2>3 DEF LockerAuthenticates, P!Begin, P!Refuse, P!Cancel, P!Drain,
           P!Holding, Up, SessionType, UnitType, FallbackType,
           CoordinatorType, MachineType, SpentType, Coordinators, Inboxes,
           P!Lockers, P!Attempts
  <2>4. CASE LockerUnlocks
    BY <2>4 DEF LockerUnlocks, P!Unlock, P!Holding, Up, SessionType,
           UnitType, FallbackType, CoordinatorType, MachineType, SpentType,
           Coordinators, Inboxes, P!Lockers, P!Attempts
  <2>5. CASE LockerLeaves
    <3>1. UnitType'
      BY <2>5 DEF LockerLeaves, P!Leave, Up, SessionType, UnitType,
             P!Lockers, P!Attempts
    <3>2. FallbackType'
      BY <2>5 DEF LockerLeaves, SetHint, SessionType, FallbackType
    <3>3. CoordinatorType'
      BY <2>5 DEF LockerLeaves, SessionType, CoordinatorType, Coordinators
    <3>4. MachineType'
      BY <2>5 DEF LockerLeaves, SessionType, MachineType, Inboxes
    <3>5. SpentType'
      BY <2>5 DEF LockerLeaves, SessionType, SpentType
    <3>6. QED
      BY <3>1, <3>2, <3>3, <3>4, <3>5 DEF SessionType
  <2>6. CASE LockerDenied
    <3>1. UnitType'
      BY <2>6 DEF LockerDenied, P!Fail, Answer, FallbackHolds, Up,
             SessionType, UnitType, P!Lockers, P!Attempts
    <3>2. FallbackType'
      BY <2>6 DEF LockerDenied, SessionType, FallbackType
    <3>3. CoordinatorType'
      BY <2>6 DEF LockerDenied, P!Fail, Answer, FallbackHolds, Up,
             SessionType, CoordinatorType, Coordinators
    <3>4. MachineType'
      BY <2>6 DEF LockerDenied, SessionType, MachineType, Inboxes
    <3>5. SpentType'
      BY <2>6 DEF LockerDenied, SessionType, SpentType
    <3>6. QED
      BY <3>1, <3>2, <3>3, <3>4, <3>5 DEF SessionType
  <2>7. CASE LockerCrashes
    <3>1. UnitType'
      BY <2>7 DEF LockerCrashes, P!Fail, Answer, Up, Spend, Budget,
             SessionType, UnitType, P!Lockers, P!Attempts
    <3>2. FallbackType'
      BY <2>7 DEF LockerCrashes, SessionType, FallbackType
    <3>3. CoordinatorType'
      BY <2>7 DEF LockerCrashes, P!Fail, Answer, Up, Spend, Budget,
             SessionType, CoordinatorType, Coordinators
    <3>4. MachineType'
      BY <2>7 DEF LockerCrashes, SessionType, MachineType, Inboxes
    <3>5. SpentType'
      BY <2>7 DEF LockerCrashes, P!Fail, Answer, Up, Spend, Budget,
             SessionType, SpentType
    <3>6. QED
      BY <3>1, <3>2, <3>3, <3>4, <3>5 DEF SessionType
  <2>8. QED
    BY <1>2, <2>1, <2>2, <2>3, <2>4, <2>5, <2>6, <2>7 DEF Locker
<1>3. CASE Fallback
  <2>1. CASE SwaylockLocks
    BY <2>1 DEF SwaylockLocks, ProviderHolds, P!Holding, Up, SessionType,
           UnitType, FallbackType, CoordinatorType, MachineType, SpentType,
           Coordinators, Inboxes, P!Lockers, P!Attempts
  <2>2. CASE SwaylockUnlocks
    BY <2>2 DEF SwaylockUnlocks, Up, SessionType, UnitType, FallbackType,
           CoordinatorType, MachineType, SpentType, Coordinators, Inboxes,
           P!Lockers, P!Attempts
  <2>3. CASE SwaylockDenied
    BY <2>3 DEF SwaylockDenied, SwaylockStops, process, Up, SessionType,
           UnitType, FallbackType, CoordinatorType, MachineType, SpentType,
           Coordinators, Inboxes, P!Lockers, P!Attempts
  <2>4. CASE SwaylockCrashes
    BY <2>4 DEF SwaylockCrashes, SwaylockStops, process, Up, Spend, Budget,
           SessionType, UnitType, FallbackType, CoordinatorType, MachineType,
           SpentType, Coordinators, Inboxes, P!Lockers, P!Attempts
  <2>5. CASE SuperviseReady
    <3>1. UnitType'
      BY <2>5 DEF SuperviseReady, process, SessionType, UnitType, P!Lockers,
             P!Attempts
    <3>2. FallbackType'
      BY <2>5 DEF SuperviseReady, SetHint, SessionType, FallbackType
    <3>3. CoordinatorType'
      BY <2>5 DEF SuperviseReady, SessionType, CoordinatorType, Coordinators
    <3>4. MachineType'
      BY <2>5 DEF SuperviseReady, SessionType, MachineType, Inboxes
    <3>5. SpentType'
      BY <2>5 DEF SuperviseReady, SessionType, SpentType
    <3>6. QED
      BY <3>1, <3>2, <3>3, <3>4, <3>5 DEF SessionType
  <2>6. CASE SuperviseDone
    <3>1. UnitType'
      BY <2>6 DEF SuperviseDone, process, SessionType, UnitType, P!Lockers,
             P!Attempts
    <3>2. FallbackType'
      BY <2>6 DEF SuperviseDone, SetHint, SessionType, FallbackType
    <3>3. CoordinatorType'
      BY <2>6 DEF SuperviseDone, SessionType, CoordinatorType, Coordinators
    <3>4. MachineType'
      BY <2>6 DEF SuperviseDone, SessionType, MachineType, Inboxes
    <3>5. SpentType'
      BY <2>6 DEF SuperviseDone, SessionType, SpentType
    <3>6. QED
      BY <3>1, <3>2, <3>3, <3>4, <3>5 DEF SessionType
  <2>7. CASE RestartFallback
    BY <2>7 DEF RestartFallback, process, Up, SessionType, UnitType,
           FallbackType, CoordinatorType, MachineType, SpentType,
           Coordinators, Inboxes, P!Lockers, P!Attempts
  <2>8. QED
    BY <1>3, <2>1, <2>2, <2>3, <2>4, <2>5, <2>6, <2>7 DEF Fallback
<1>4. CASE Logind
  <2>1. CASE LockSignal
    <3>1. UnitType'
      BY <2>1 DEF LockSignal, process, SessionType, UnitType, P!Lockers,
             P!Attempts
    <3>2. FallbackType'
      BY <2>1 DEF LockSignal, SessionType, FallbackType
    <3>3. CoordinatorType'
      BY <2>1 DEF LockSignal, SessionType, CoordinatorType, Coordinators
    <3>4. MachineType'
      BY <2>1 DEF LockSignal, Signal, Listening, process, Up, Spend, Budget,
             SessionType, MachineType, Inboxes
    <3>5. SpentType'
      BY <2>1 DEF LockSignal, Signal, Listening, process, Up, Spend, Budget,
             SessionType, SpentType
    <3>6. QED
      BY <3>1, <3>2, <3>3, <3>4, <3>5 DEF SessionType
  <2>2. CASE SleepRequested
    <3>1. UnitType'
      BY <2>2 DEF SleepRequested, process, SessionType, UnitType, P!Lockers,
             P!Attempts
    <3>2. FallbackType'
      BY <2>2 DEF SleepRequested, SessionType, FallbackType
    <3>3. CoordinatorType'
      BY <2>2 DEF SleepRequested, SessionType, CoordinatorType, Coordinators
    <3>4. MachineType'
      BY <2>2, SuspendTypes DEF SleepRequested, SessionType
    <3>5. SpentType'
      BY <2>2 DEF SleepRequested, Suspend, PrepareForSleep, Signal,
             Listening, process, Spend, Budget, SessionType, SpentType
    <3>6. QED
      BY <3>1, <3>2, <3>3, <3>4, <3>5 DEF SessionType
  <2>3. CASE GoToSleep
    <3>1. UnitType'
      BY <2>3 DEF GoToSleep, FallsAsleep, process, SessionType, UnitType,
             P!Lockers, P!Attempts
    <3>2. FallbackType'
      BY <2>3 DEF GoToSleep, FallsAsleep, process, SessionType, FallbackType
    <3>3. CoordinatorType'
      BY <2>3 DEF GoToSleep, FallsAsleep, process, SessionType,
             CoordinatorType, Coordinators
    <3>4. MachineType'
      BY <2>3 DEF GoToSleep, FallsAsleep, process, SessionType, MachineType,
             Inboxes
    <3>5. SpentType'
      BY <2>3 DEF GoToSleep, FallsAsleep, process, SessionType, SpentType
    <3>6. QED
      BY <3>1, <3>2, <3>3, <3>4, <3>5 DEF SessionType
  <2>4. CASE ForceSleep
    <3>1. UnitType'
      BY <2>4 DEF ForceSleep, FallsAsleep, process, SessionType, UnitType,
             P!Lockers, P!Attempts
    <3>2. FallbackType'
      BY <2>4 DEF ForceSleep, FallsAsleep, process, SessionType, FallbackType
    <3>3. CoordinatorType'
      BY <2>4 DEF ForceSleep, FallsAsleep, process, SessionType,
             CoordinatorType, Coordinators
    <3>4. MachineType'
      BY <2>4 DEF ForceSleep, FallsAsleep, process, SessionType, MachineType,
             Inboxes
    <3>5. SpentType'
      BY <2>4 DEF ForceSleep, FallsAsleep, process, SessionType, SpentType
    <3>6. QED
      BY <3>1, <3>2, <3>3, <3>4, <3>5 DEF SessionType
  <2>5. CASE Wake
    <3>1. UnitType'
      BY <2>5 DEF Wake, process, SessionType, UnitType, P!Lockers, P!Attempts
    <3>2. FallbackType'
      BY <2>5 DEF Wake, SessionType, FallbackType
    <3>3. CoordinatorType'
      BY <2>5 DEF Wake, SessionType, CoordinatorType, Coordinators
    <3>4. MachineType'
      BY <2>5, InboxTypes, PressTypes DEF Wake, Signal, MachineType,
             SessionType
    <3>5. SpentType'
      <4>1. spent' = spent \/ Spend("events")
        BY <2>5 DEF Wake
      <4>2. QED
        BY <4>1 DEF Spend, Budget, SpentType, SessionType
    <3>6. QED
      BY <3>1, <3>2, <3>3, <3>4, <3>5 DEF SessionType
  <2>6. CASE Press
    <3>1. UnitType'
      BY <2>6 DEF Press, process, SessionType, UnitType, P!Lockers,
             P!Attempts
    <3>2. FallbackType'
      BY <2>6 DEF Press, SessionType, FallbackType
    <3>3. CoordinatorType'
      BY <2>6 DEF Press, SessionType, CoordinatorType, Coordinators
    <3>4. MachineType'
      BY <2>6, PressTypes DEF Press, Signal, MachineType, SessionType
    <3>5. SpentType'
      BY <2>6 DEF Press, Signal, Listening, process, Up, Spend, Budget,
             SessionType, SpentType
    <3>6. QED
      BY <3>1, <3>2, <3>3, <3>4, <3>5 DEF SessionType
  <2>7. QED
    BY <1>4, <2>1, <2>2, <2>3, <2>4, <2>5, <2>6 DEF Logind
<1>5. CASE Coordinator
  <2>1. CASE HandleLockSignal
    <3>1. UnitType'
      BY <2>1, StartTypes DEF HandleLockSignal, Request, SessionType
    <3>2. FallbackType'
      BY <2>1, StartTypes DEF HandleLockSignal, Request, FallbackType,
             SessionType
    <3>3. CoordinatorType'
      BY <2>1, SessionAssumption DEF HandleLockSignal, Request, JobBegins,
             Selecting, StartUnit, Stopped, Launch, LimitHit, OnFailure,
             P!Start, process, Up, SessionType, CoordinatorType, Coordinators
    <3>4. MachineType'
      BY <2>1 DEF HandleLockSignal, SessionType, MachineType, Inboxes
    <3>5. SpentType'
      BY <2>1 DEF HandleLockSignal, SessionType, SpentType
    <3>6. QED
      BY <3>1, <3>2, <3>3, <3>4, <3>5 DEF SessionType
  <2>2. CASE HandlePreparing
    <3>1. UnitType'
      BY <2>2, StartTypes DEF HandlePreparing, Request, SessionType
    <3>2. FallbackType'
      BY <2>2, StartTypes DEF HandlePreparing, Request, FallbackType,
             SessionType
    <3>3. CoordinatorType'
      BY <2>2, SessionAssumption DEF HandlePreparing, SleepSignal,
             RestOfInbox, Request, JobBegins, Selecting, StartUnit, Stopped,
             Launch, LimitHit, OnFailure, P!Start, process, Up, SessionType,
             CoordinatorType, Coordinators
    <3>4. MachineType'
      BY <2>2, InboxTypes DEF HandlePreparing, SleepSignal, MachineType,
             SessionType
    <3>5. SpentType'
      BY <2>2 DEF HandlePreparing, SessionType, SpentType
    <3>6. QED
      BY <3>1, <3>2, <3>3, <3>4, <3>5 DEF SessionType
  <2>3. CASE HandleWoke
    <3>1. UnitType'
      BY <2>3 DEF HandleWoke, process, SessionType, UnitType, P!Lockers,
             P!Attempts
    <3>2. FallbackType'
      BY <2>3 DEF HandleWoke, SessionType, FallbackType
    <3>3. CoordinatorType'
      BY <2>3 DEF HandleWoke, SleepSignal, RestOfInbox, Selecting, Die, Dead,
             Fresh, Quiet, process, Up, SessionType, CoordinatorType,
             Coordinators
    <3>4. MachineType'
      <4>1. inbox' \in {RestOfInbox, Quiet} /\ machine' = machine
        BY <2>3 DEF HandleWoke, Die
      <4>2. RestOfInbox \in Inboxes
        BY <2>3, InboxTypes DEF HandleWoke, SleepSignal, SessionType, MachineType
      <4>3. Quiet \in Inboxes
        BY DEF Quiet, Inboxes
      <4>4. QED
        BY <4>1, <4>2, <4>3 DEF SessionType, MachineType
    <3>5. SpentType'
      BY <2>3 DEF HandleWoke, SessionType, SpentType
    <3>6. QED
      BY <3>1, <3>2, <3>3, <3>4, <3>5 DEF SessionType
  <2>4. CASE RequestReturns
    <3>1. UnitType'
      BY <2>4 DEF RequestReturns, process, SessionType, UnitType, P!Lockers,
             P!Attempts
    <3>2. FallbackType'
      BY <2>4 DEF RequestReturns, SessionType, FallbackType
    <3>3. CoordinatorType'
      BY <2>4 DEF RequestReturns, SessionType, CoordinatorType, Coordinators
    <3>4. MachineType'
      BY <2>4, SuspendTypes DEF RequestReturns, MachineType, SessionType
    <3>5. SpentType'
      BY <2>4 DEF RequestReturns, SessionType, SpentType
    <3>6. QED
      BY <3>1, <3>2, <3>3, <3>4, <3>5 DEF SessionType
  <2>5. CASE HandlePress
    <3>1. UnitType'
      BY <2>5 DEF HandlePress, process, SessionType, UnitType, P!Lockers,
             P!Attempts
    <3>2. FallbackType'
      BY <2>5 DEF HandlePress, SessionType, FallbackType
    <3>3. CoordinatorType'
      <4>1. Head(inbox.presses) \in {"wake", "user"}
        BY <2>5 DEF HandlePress, SessionType, MachineType, Inboxes
      <4>2. QED
        BY <2>5, <4>1 DEF HandlePress, Selecting, SessionLocked, SessionType,
                       CoordinatorType, Coordinators, FallbackType
    <3>4. MachineType'
      <4>1. Tail(inbox.presses) \in Seq({"wake", "user"})
        BY <2>5 DEF HandlePress, SessionType, MachineType, Inboxes
      <4>2. QED
        BY <2>5, <4>1 DEF HandlePress, SessionType, MachineType, Inboxes
    <3>5. SpentType'
      BY <2>5 DEF HandlePress, SessionType, SpentType
    <3>6. QED
      BY <3>1, <3>2, <3>3, <3>4, <3>5 DEF SessionType
  <2>6. CASE HandleDeadline
    <3>1. UnitType'
      BY <2>6 DEF HandleDeadline, process, SessionType, UnitType, P!Lockers,
             P!Attempts
    <3>2. FallbackType'
      BY <2>6 DEF HandleDeadline, SessionType, FallbackType
    <3>3. CoordinatorType'
      BY <2>6 DEF HandleDeadline, Selecting, SessionLocked, CoordinatorType,
             Coordinators, FallbackType, MachineType, Inboxes, SessionType
    <3>4. MachineType'
      BY <2>6 DEF HandleDeadline, SessionType, MachineType, Inboxes
    <3>5. SpentType'
      BY <2>6 DEF HandleDeadline, SessionType, SpentType
    <3>6. QED
      BY <3>1, <3>2, <3>3, <3>4, <3>5 DEF SessionType
  <2>7. CASE JudgePress
    <3>1. UnitType'
      BY <2>7, StartTypes DEF JudgePress, Sleep, Request, UnitType, process,
             SessionType
    <3>2. FallbackType'
      BY <2>7, StartTypes DEF JudgePress, Sleep, Request, FallbackType,
             SessionType
    <3>3. CoordinatorType'
      BY <2>7, SessionAssumption, ZenonT(60) DEF JudgePress, Sleep, Judged, Suspend,
             PrepareForSleep, Signal, Listening, Request, JobBegins,
             StartUnit, Stopped, Launch, LimitHit, OnFailure, P!Start,
             process, Up, SessionType, CoordinatorType, Coordinators
    <3>4. MachineType'
      BY <2>7, SuspendTypes DEF JudgePress, Sleep, MachineType, SessionType
    <3>5. SpentType'
      BY <2>7 DEF JudgePress, SessionType, SpentType
    <3>6. QED
      BY <3>1, <3>2, <3>3, <3>4, <3>5 DEF SessionType
  <2>8. CASE JudgeDeadline
    <3>1. UnitType'
      BY <2>8, StartTypes DEF JudgeDeadline, Sleep, Request, UnitType,
             process, SessionType
    <3>2. FallbackType'
      BY <2>8, StartTypes DEF JudgeDeadline, Sleep, Request, FallbackType,
             SessionType
    <3>3. CoordinatorType'
      BY <2>8, SessionAssumption, ZenonT(60) DEF JudgeDeadline, Sleep, Judged, Suspend,
             PrepareForSleep, Signal, Listening, Request, JobBegins,
             StartUnit, Stopped, Launch, LimitHit, OnFailure, P!Start,
             process, Up, SessionType, CoordinatorType, Coordinators
    <3>4. MachineType'
      BY <2>8, SuspendTypes DEF JudgeDeadline, Sleep, MachineType,
             SessionType
    <3>5. SpentType'
      BY <2>8 DEF JudgeDeadline, SessionType, SpentType
    <3>6. QED
      BY <3>1, <3>2, <3>3, <3>4, <3>5 DEF SessionType
  <2>9. CASE WindowPasses
    <3>1. UnitType'
      BY <2>9 DEF WindowPasses, process, SessionType, UnitType, P!Lockers,
             P!Attempts
    <3>2. FallbackType'
      BY <2>9 DEF WindowPasses, SessionType, FallbackType
    <3>3. CoordinatorType'
      BY <2>9 DEF WindowPasses, SessionType, CoordinatorType, Coordinators
    <3>4. MachineType'
      BY <2>9 DEF WindowPasses, SessionType, MachineType, Inboxes
    <3>5. SpentType'
      BY <2>9 DEF WindowPasses, SessionType, SpentType
    <3>6. QED
      BY <3>1, <3>2, <3>3, <3>4, <3>5 DEF SessionType
  <2>10. CASE GuardPasses
    <3>1. UnitType'
      BY <2>10 DEF GuardPasses, process, SessionType, UnitType, P!Lockers,
             P!Attempts
    <3>2. FallbackType'
      BY <2>10 DEF GuardPasses, SessionType, FallbackType
    <3>3. CoordinatorType'
      BY <2>10 DEF GuardPasses, SessionType, CoordinatorType, Coordinators
    <3>4. MachineType'
      BY <2>10 DEF GuardPasses, SessionType, MachineType, Inboxes
    <3>5. SpentType'
      BY <2>10 DEF GuardPasses, SessionType, SpentType
    <3>6. QED
      BY <3>1, <3>2, <3>3, <3>4, <3>5 DEF SessionType
  <2>11. CASE CoordinatorDies
    <3>1. UnitType'
      BY <2>11 DEF CoordinatorDies, process, SessionType, UnitType,
             P!Lockers, P!Attempts
    <3>2. FallbackType'
      BY <2>11 DEF CoordinatorDies, SessionType, FallbackType
    <3>3. CoordinatorType'
      BY <2>11 DEF CoordinatorDies, Die, Dead, Fresh, Quiet, process, Up,
             Spend, Budget, SessionType, CoordinatorType, Coordinators
    <3>4. MachineType'
      BY <2>11 DEF CoordinatorDies, Die, Dead, Fresh, Quiet, process, Up,
             Spend, Budget, SessionType, MachineType, Inboxes
    <3>5. SpentType'
      BY <2>11 DEF CoordinatorDies, Die, Dead, Fresh, Quiet, process, Up,
             Spend, Budget, SessionType, SpentType
    <3>6. QED
      BY <3>1, <3>2, <3>3, <3>4, <3>5 DEF SessionType
  <2>12. CASE CoordinatorStarts
    <3>1. UnitType'
      BY <2>12 DEF CoordinatorStarts, process, SessionType, UnitType,
             P!Lockers, P!Attempts
    <3>2. FallbackType'
      BY <2>12 DEF CoordinatorStarts, SessionType, FallbackType
    <3>3. CoordinatorType'
      BY <2>12 DEF CoordinatorStarts, Fresh, process, SessionType,
             CoordinatorType, Coordinators
    <3>4. MachineType'
      BY <2>12 DEF CoordinatorStarts, SessionType, MachineType, Inboxes
    <3>5. SpentType'
      BY <2>12 DEF CoordinatorStarts, SessionType, SpentType
    <3>6. QED
      BY <3>1, <3>2, <3>3, <3>4, <3>5 DEF SessionType
  <2>13. CASE CoordinatorSubscribes
    <3>1. UnitType'
      BY <2>13 DEF CoordinatorSubscribes, process, SessionType, UnitType,
             P!Lockers, P!Attempts
    <3>2. FallbackType'
      BY <2>13 DEF CoordinatorSubscribes, SessionType, FallbackType
    <3>3. CoordinatorType'
      BY <2>13 DEF CoordinatorSubscribes, SessionType, CoordinatorType,
             Coordinators
    <3>4. MachineType'
      BY <2>13 DEF CoordinatorSubscribes, SessionType, MachineType, Inboxes
    <3>5. SpentType'
      BY <2>13 DEF CoordinatorSubscribes, SessionType, SpentType
    <3>6. QED
      BY <3>1, <3>2, <3>3, <3>4, <3>5 DEF SessionType
  <2>14. QED
    BY <1>5, <2>1, <2>2, <2>3, <2>4, <2>5, <2>6, <2>7, <2>8, <2>9, <2>10,
           <2>11, <2>12, <2>13 DEF Coordinator
<1>6. CASE UNCHANGED vars
    BY <1>6 DEF vars, process, SessionType, UnitType, FallbackType,
           CoordinatorType, MachineType, SpentType, Coordinators, Inboxes,
           P!Lockers, P!Attempts
<1>7. QED
    BY <1>1, <1>2, <1>3, <1>4, <1>5, <1>6 DEF Next

\* Every step keeps the locks apart.
LEMMA LockTypeStep ==
    ASSUME SessionType, LockType, [Next]_vars
    PROVE  LockType'
<1>1. CASE Systemd
  <2>1. CASE RestartUnit
    BY <2>1 DEF RestartUnit, Launch, LimitHit, OnFailure, P!Start, process,
           Answer, Up, LockType, ProviderHolds, FallbackHolds, P!Holding,
           SessionType, UnitType, FallbackType
  <2>2. CASE IntervalPasses
    BY <2>2 DEF IntervalPasses, process, Up, LockType, ProviderHolds,
           FallbackHolds, P!Holding, SessionType, UnitType, FallbackType
  <2>3. CASE LockRequested
    BY <2>3 DEF LockRequested, StartUnit, Stopped, Launch, LimitHit,
           OnFailure, P!Start, process, Up, Spend, Budget, LockType,
           ProviderHolds, FallbackHolds, P!Holding, SessionType, UnitType,
           FallbackType
  <2>4. QED
    BY <1>1, <2>1, <2>2, <2>3 DEF Systemd
<1>2. CASE Locker
  <2>1. CASE LockerLocks
    BY <2>1 DEF LockerLocks, P!Lock, FallbackHolds, Up, LockType,
           ProviderHolds, P!Holding, SessionType, UnitType, FallbackType
  <2>2. CASE LockerReady
    BY <2>2 DEF LockerReady, P!Ready, Answer, Up, LockType, ProviderHolds,
           FallbackHolds, P!Holding, SessionType, UnitType, FallbackType
  <2>3. CASE LockerAuthenticates
    BY <2>3 DEF LockerAuthenticates, P!Begin, P!Refuse, P!Cancel, P!Drain,
           P!Holding, Up, LockType, ProviderHolds, FallbackHolds,
           SessionType, UnitType, FallbackType
  <2>4. CASE LockerUnlocks
    BY <2>4 DEF LockerUnlocks, P!Unlock, P!Holding, Up, LockType,
           ProviderHolds, FallbackHolds, SessionType, UnitType, FallbackType
  <2>5. CASE LockerLeaves
    BY <2>5 DEF LockerLeaves, P!Leave, Up, LockType, ProviderHolds,
           FallbackHolds, P!Holding, SessionType, UnitType, FallbackType
  <2>6. CASE LockerDenied
    BY <2>6 DEF LockerDenied, P!Fail, Answer, FallbackHolds, Up, LockType,
           ProviderHolds, P!Holding, SessionType, UnitType, FallbackType
  <2>7. CASE LockerCrashes
    BY <2>7 DEF LockerCrashes, P!Fail, Answer, Up, Spend, Budget, LockType,
           ProviderHolds, FallbackHolds, P!Holding, SessionType, UnitType,
           FallbackType
  <2>8. QED
    BY <1>2, <2>1, <2>2, <2>3, <2>4, <2>5, <2>6, <2>7 DEF Locker
<1>3. CASE Fallback
  <2>1. CASE SwaylockLocks
    BY <2>1 DEF SwaylockLocks, ProviderHolds, P!Holding, Up, LockType,
           FallbackHolds, SessionType, UnitType, FallbackType
  <2>2. CASE SwaylockUnlocks
    BY <2>2 DEF SwaylockUnlocks, Up, LockType, ProviderHolds, FallbackHolds,
           P!Holding, SessionType, UnitType, FallbackType
  <2>3. CASE SwaylockDenied
    BY <2>3 DEF SwaylockDenied, SwaylockStops, process, Up, LockType,
           ProviderHolds, FallbackHolds, P!Holding, SessionType, UnitType,
           FallbackType
  <2>4. CASE SwaylockCrashes
    BY <2>4 DEF SwaylockCrashes, SwaylockStops, process, Up, Spend, Budget,
           LockType, ProviderHolds, FallbackHolds, P!Holding, SessionType,
           UnitType, FallbackType
  <2>5. CASE SuperviseReady
    BY <2>5 DEF SuperviseReady, process, Up, LockType, ProviderHolds,
           FallbackHolds, P!Holding, SessionType, UnitType, FallbackType
  <2>6. CASE SuperviseDone
    BY <2>6 DEF SuperviseDone, process, Up, LockType, ProviderHolds,
           FallbackHolds, P!Holding, SessionType, UnitType, FallbackType
  <2>7. CASE RestartFallback
    BY <2>7 DEF RestartFallback, process, Up, LockType, ProviderHolds,
           FallbackHolds, P!Holding, SessionType, UnitType, FallbackType
  <2>8. QED
    BY <1>3, <2>1, <2>2, <2>3, <2>4, <2>5, <2>6, <2>7 DEF Fallback
<1>4. CASE Logind
  <2>1. CASE LockSignal
    BY <2>1 DEF LockSignal, Signal, Listening, process, Up, Spend, Budget,
           LockType, ProviderHolds, FallbackHolds, P!Holding, SessionType,
           UnitType, FallbackType
  <2>2. CASE SleepRequested
    BY <2>2 DEF SleepRequested, Suspend, PrepareForSleep, Signal, Listening,
           process, Spend, Budget, LockType, ProviderHolds, FallbackHolds,
           P!Holding, SessionType, UnitType, FallbackType
  <2>3. CASE GoToSleep
    BY <2>3 DEF GoToSleep, FallsAsleep, process, LockType, ProviderHolds,
           FallbackHolds, P!Holding, SessionType, UnitType, FallbackType
  <2>4. CASE ForceSleep
    BY <2>4 DEF ForceSleep, FallsAsleep, process, LockType, ProviderHolds,
           FallbackHolds, P!Holding, SessionType, UnitType, FallbackType
  <2>5. CASE Wake
    BY <2>5 DEF Wake, PrepareForSleep, Signal, Listening, process, Spend,
           Budget, LockType, ProviderHolds, FallbackHolds, P!Holding,
           SessionType, UnitType, FallbackType
  <2>6. CASE Press
    BY <2>6 DEF Press, Signal, Listening, process, Up, Spend, Budget,
           LockType, ProviderHolds, FallbackHolds, P!Holding, SessionType,
           UnitType, FallbackType
  <2>7. QED
    BY <1>4, <2>1, <2>2, <2>3, <2>4, <2>5, <2>6 DEF Logind
<1>5. CASE Coordinator
  <2>1. CASE HandleLockSignal
    BY <2>1 DEF HandleLockSignal, Request, JobBegins, Selecting, StartUnit,
           Stopped, Launch, LimitHit, OnFailure, P!Start, process, Up,
           LockType, ProviderHolds, FallbackHolds, P!Holding, SessionType,
           UnitType, FallbackType
  <2>2. CASE HandlePreparing
    BY <2>2 DEF HandlePreparing, SleepSignal, RestOfInbox, Request,
           JobBegins, Selecting, StartUnit, Stopped, Launch, LimitHit,
           OnFailure, P!Start, process, Up, LockType, ProviderHolds,
           FallbackHolds, P!Holding, SessionType, UnitType, FallbackType
  <2>3. CASE HandleWoke
    BY <2>3 DEF HandleWoke, SleepSignal, RestOfInbox, Selecting, Die, Dead,
           Fresh, Quiet, process, Up, LockType, ProviderHolds, FallbackHolds,
           P!Holding, SessionType, UnitType, FallbackType
  <2>4. CASE RequestReturns
    BY <2>4 DEF RequestReturns, Suspend, PrepareForSleep, Signal, Listening,
           process, Up, LockType, ProviderHolds, FallbackHolds, P!Holding,
           SessionType, UnitType, FallbackType
  <2>5. CASE HandlePress
    BY <2>5 DEF HandlePress, Selecting, process, Up, LockType, ProviderHolds,
           FallbackHolds, P!Holding, SessionType, UnitType, FallbackType
  <2>6. CASE HandleDeadline
    BY <2>6 DEF HandleDeadline, Selecting, process, Up, LockType,
           ProviderHolds, FallbackHolds, P!Holding, SessionType, UnitType,
           FallbackType
  <2>7. CASE JudgePress
    BY <2>7 DEF JudgePress, Sleep, Judged, Suspend, PrepareForSleep, Signal,
           Listening, Request, JobBegins, StartUnit, Stopped, Launch,
           LimitHit, OnFailure, P!Start, process, Up, LockType,
           ProviderHolds, FallbackHolds, P!Holding, SessionType, UnitType,
           FallbackType
  <2>8. CASE JudgeDeadline
    BY <2>8 DEF JudgeDeadline, Sleep, Judged, Suspend, PrepareForSleep,
           Signal, Listening, Request, JobBegins, StartUnit, Stopped, Launch,
           LimitHit, OnFailure, P!Start, process, Up, LockType,
           ProviderHolds, FallbackHolds, P!Holding, SessionType, UnitType,
           FallbackType
  <2>9. CASE WindowPasses
    BY <2>9 DEF WindowPasses, process, Up, LockType, ProviderHolds,
           FallbackHolds, P!Holding, SessionType, UnitType, FallbackType
  <2>10. CASE GuardPasses
    BY <2>10 DEF GuardPasses, process, Up, LockType, ProviderHolds,
           FallbackHolds, P!Holding, SessionType, UnitType, FallbackType
  <2>11. CASE CoordinatorDies
    BY <2>11 DEF CoordinatorDies, Die, Dead, Fresh, Quiet, process, Up,
           Spend, Budget, LockType, ProviderHolds, FallbackHolds, P!Holding,
           SessionType, UnitType, FallbackType
  <2>12. CASE CoordinatorStarts
    BY <2>12 DEF CoordinatorStarts, Fresh, process, LockType, ProviderHolds,
           FallbackHolds, P!Holding, SessionType, UnitType, FallbackType
  <2>13. CASE CoordinatorSubscribes
    BY <2>13 DEF CoordinatorSubscribes, process, Up, LockType, ProviderHolds,
           FallbackHolds, P!Holding, SessionType, UnitType, FallbackType
  <2>14. QED
    BY <1>5, <2>1, <2>2, <2>3, <2>4, <2>5, <2>6, <2>7, <2>8, <2>9, <2>10,
           <2>11, <2>12, <2>13 DEF Coordinator
<1>6. CASE UNCHANGED vars
    BY <1>6 DEF vars, process, LockType, ProviderHolds, FallbackHolds,
           P!Holding, SessionType, UnitType, FallbackType
<1>7. QED
    BY <1>1, <1>2, <1>3, <1>4, <1>5, <1>6 DEF Next

\* A start job succeeds only on a unit that is ready.
LEMMA RequestStep ==
    ASSUME SessionType, LockType, [Next]_vars
    PROVE  k.job # "ok" /\ k'.job = "ok" => session' = "locked" \/ attempt = "passed"
<1>1. CASE Systemd
  <2>1. CASE RestartUnit
    BY <2>1 DEF RestartUnit, Launch, LimitHit, OnFailure, P!Start, process,
           Answer, Up, LockType, ProviderHolds, P!Holding, SessionType,
           UnitType, CoordinatorType, Coordinators
  <2>2. CASE IntervalPasses
    BY <2>2 DEF IntervalPasses, process, Up, LockType, ProviderHolds,
           P!Holding, SessionType, UnitType, CoordinatorType, Coordinators
  <2>3. CASE LockRequested
    BY <2>3 DEF LockRequested, StartUnit, Stopped, Launch, LimitHit,
           OnFailure, P!Start, process, Up, Spend, Budget, LockType,
           ProviderHolds, P!Holding, SessionType, UnitType, CoordinatorType,
           Coordinators
  <2>4. QED
    BY <1>1, <2>1, <2>2, <2>3 DEF Systemd
<1>2. CASE Locker
  <2>1. CASE LockerLocks
    BY <2>1 DEF LockerLocks, P!Lock, FallbackHolds, Up, LockType,
           ProviderHolds, P!Holding, SessionType, UnitType, CoordinatorType,
           Coordinators
  <2>2. CASE LockerReady
    BY <2>2 DEF LockerReady, P!Ready, Answer, Up, LockType, ProviderHolds,
           P!Holding, SessionType, UnitType, CoordinatorType, Coordinators
  <2>3. CASE LockerAuthenticates
    BY <2>3 DEF LockerAuthenticates, P!Begin, P!Refuse, P!Cancel, P!Drain,
           P!Holding, Up, LockType, ProviderHolds, SessionType, UnitType,
           CoordinatorType, Coordinators
  <2>4. CASE LockerUnlocks
    BY <2>4 DEF LockerUnlocks, P!Unlock, P!Holding, Up, LockType,
           ProviderHolds, SessionType, UnitType, CoordinatorType,
           Coordinators
  <2>5. CASE LockerLeaves
    BY <2>5 DEF LockerLeaves, P!Leave, Up, LockType, ProviderHolds,
           P!Holding, SessionType, UnitType, CoordinatorType, Coordinators
  <2>6. CASE LockerDenied
    BY <2>6 DEF LockerDenied, P!Fail, Answer, FallbackHolds, Up, LockType,
           ProviderHolds, P!Holding, SessionType, UnitType, CoordinatorType,
           Coordinators
  <2>7. CASE LockerCrashes
    BY <2>7 DEF LockerCrashes, P!Fail, Answer, Up, Spend, Budget, LockType,
           ProviderHolds, P!Holding, SessionType, UnitType, CoordinatorType,
           Coordinators
  <2>8. QED
    BY <1>2, <2>1, <2>2, <2>3, <2>4, <2>5, <2>6, <2>7 DEF Locker
<1>3. CASE Fallback
  <2>1. CASE SwaylockLocks
    BY <2>1 DEF SwaylockLocks, ProviderHolds, P!Holding, Up, LockType,
           SessionType, UnitType, CoordinatorType, Coordinators
  <2>2. CASE SwaylockUnlocks
    BY <2>2 DEF SwaylockUnlocks, Up, LockType, ProviderHolds, P!Holding,
           SessionType, UnitType, CoordinatorType, Coordinators
  <2>3. CASE SwaylockDenied
    BY <2>3 DEF SwaylockDenied, SwaylockStops, process, Up, LockType,
           ProviderHolds, P!Holding, SessionType, UnitType, CoordinatorType,
           Coordinators
  <2>4. CASE SwaylockCrashes
    BY <2>4 DEF SwaylockCrashes, SwaylockStops, process, Up, Spend, Budget,
           LockType, ProviderHolds, P!Holding, SessionType, UnitType,
           CoordinatorType, Coordinators
  <2>5. CASE SuperviseReady
    BY <2>5 DEF SuperviseReady, process, Up, LockType, ProviderHolds,
           P!Holding, SessionType, UnitType, CoordinatorType, Coordinators
  <2>6. CASE SuperviseDone
    BY <2>6 DEF SuperviseDone, process, Up, LockType, ProviderHolds,
           P!Holding, SessionType, UnitType, CoordinatorType, Coordinators
  <2>7. CASE RestartFallback
    BY <2>7 DEF RestartFallback, process, Up, LockType, ProviderHolds,
           P!Holding, SessionType, UnitType, CoordinatorType, Coordinators
  <2>8. QED
    BY <1>3, <2>1, <2>2, <2>3, <2>4, <2>5, <2>6, <2>7 DEF Fallback
<1>4. CASE Logind
  <2>1. CASE LockSignal
    BY <2>1 DEF LockSignal, Signal, Listening, process, Up, Spend, Budget,
           LockType, ProviderHolds, P!Holding, SessionType, UnitType,
           CoordinatorType, Coordinators
  <2>2. CASE SleepRequested
    BY <2>2 DEF SleepRequested, Suspend, PrepareForSleep, Signal, Listening,
           process, Spend, Budget, LockType, ProviderHolds, P!Holding,
           SessionType, UnitType, CoordinatorType, Coordinators
  <2>3. CASE GoToSleep
    BY <2>3 DEF GoToSleep, FallsAsleep, process, LockType, ProviderHolds,
           P!Holding, SessionType, UnitType, CoordinatorType, Coordinators
  <2>4. CASE ForceSleep
    BY <2>4 DEF ForceSleep, FallsAsleep, process, LockType, ProviderHolds,
           P!Holding, SessionType, UnitType, CoordinatorType, Coordinators
  <2>5. CASE Wake
    BY <2>5 DEF Wake, PrepareForSleep, Signal, Listening, process, Spend,
           Budget, LockType, ProviderHolds, P!Holding, SessionType, UnitType,
           CoordinatorType, Coordinators
  <2>6. CASE Press
    BY <2>6 DEF Press, Signal, Listening, process, Up, Spend, Budget,
           LockType, ProviderHolds, P!Holding, SessionType, UnitType,
           CoordinatorType, Coordinators
  <2>7. QED
    BY <1>4, <2>1, <2>2, <2>3, <2>4, <2>5, <2>6 DEF Logind
<1>5. CASE Coordinator
  <2>1. CASE HandleLockSignal
    BY <2>1 DEF HandleLockSignal, Request, JobBegins, Selecting, StartUnit,
           Stopped, Launch, LimitHit, OnFailure, P!Start, process, Up,
           LockType, ProviderHolds, P!Holding, SessionType, UnitType,
           CoordinatorType, Coordinators
  <2>2. CASE HandlePreparing
    BY <2>2 DEF HandlePreparing, SleepSignal, RestOfInbox, Request,
           JobBegins, Selecting, StartUnit, Stopped, Launch, LimitHit,
           OnFailure, P!Start, process, Up, LockType, ProviderHolds,
           P!Holding, SessionType, UnitType, CoordinatorType, Coordinators
  <2>3. CASE HandleWoke
    BY <2>3 DEF HandleWoke, SleepSignal, RestOfInbox, Selecting, Die, Dead,
           Fresh, Quiet, process, Up, LockType, ProviderHolds, P!Holding,
           SessionType, UnitType, CoordinatorType, Coordinators
  <2>4. CASE RequestReturns
    BY <2>4 DEF RequestReturns, Suspend, PrepareForSleep, Signal, Listening,
           process, Up, LockType, ProviderHolds, P!Holding, SessionType,
           UnitType, CoordinatorType, Coordinators
  <2>5. CASE HandlePress
    BY <2>5 DEF HandlePress, Selecting, process, Up, LockType, ProviderHolds,
           P!Holding, SessionType, UnitType, CoordinatorType, Coordinators
  <2>6. CASE HandleDeadline
    BY <2>6 DEF HandleDeadline, Selecting, process, Up, LockType,
           ProviderHolds, P!Holding, SessionType, UnitType, CoordinatorType,
           Coordinators
  <2>7. CASE JudgePress
    BY <2>7 DEF JudgePress, Sleep, Judged, Suspend, PrepareForSleep, Signal,
           Listening, Request, JobBegins, StartUnit, Stopped, Launch,
           LimitHit, OnFailure, P!Start, process, Up, LockType,
           ProviderHolds, P!Holding, SessionType, UnitType, CoordinatorType,
           Coordinators
  <2>8. CASE JudgeDeadline
    BY <2>8 DEF JudgeDeadline, Sleep, Judged, Suspend, PrepareForSleep,
           Signal, Listening, Request, JobBegins, StartUnit, Stopped, Launch,
           LimitHit, OnFailure, P!Start, process, Up, LockType,
           ProviderHolds, P!Holding, SessionType, UnitType, CoordinatorType,
           Coordinators
  <2>9. CASE WindowPasses
    BY <2>9 DEF WindowPasses, process, Up, LockType, ProviderHolds,
           P!Holding, SessionType, UnitType, CoordinatorType, Coordinators
  <2>10. CASE GuardPasses
    BY <2>10 DEF GuardPasses, process, Up, LockType, ProviderHolds,
           P!Holding, SessionType, UnitType, CoordinatorType, Coordinators
  <2>11. CASE CoordinatorDies
    BY <2>11 DEF CoordinatorDies, Die, Dead, Fresh, Quiet, process, Up,
           Spend, Budget, LockType, ProviderHolds, P!Holding, SessionType,
           UnitType, CoordinatorType, Coordinators
  <2>12. CASE CoordinatorStarts
    BY <2>12 DEF CoordinatorStarts, Fresh, process, LockType, ProviderHolds,
           P!Holding, SessionType, UnitType, CoordinatorType, Coordinators
  <2>13. CASE CoordinatorSubscribes
    BY <2>13 DEF CoordinatorSubscribes, process, Up, LockType, ProviderHolds,
           P!Holding, SessionType, UnitType, CoordinatorType, Coordinators
  <2>14. QED
    BY <1>5, <2>1, <2>2, <2>3, <2>4, <2>5, <2>6, <2>7, <2>8, <2>9, <2>10,
           <2>11, <2>12, <2>13 DEF Coordinator
<1>6. CASE UNCHANGED vars
    BY <1>6 DEF vars, process, LockType, ProviderHolds, P!Holding,
           SessionType, UnitType, CoordinatorType, Coordinators
<1>7. QED
    BY <1>1, <1>2, <1>3, <1>4, <1>5, <1>6 DEF Next

\* Every step keeps what is known of the inhibitor.
LEMMA GuardTypeStep ==
    ASSUME SessionType, GuardType, [Next]_vars
    PROVE  GuardType'
<1>1. CASE Systemd
  <2>1. CASE RestartUnit
    BY <2>1 DEF RestartUnit, Launch, LimitHit, OnFailure, P!Start, process,
           Answer, Up, GuardType, Deaf, LastSignal, Released, Listening,
           SessionType, CoordinatorType, MachineType, Coordinators, Inboxes
  <2>2. CASE IntervalPasses
    BY <2>2 DEF IntervalPasses, process, Up, GuardType, Deaf, LastSignal,
           Released, Listening, SessionType, CoordinatorType, MachineType,
           Coordinators, Inboxes
  <2>3. CASE LockRequested
    BY <2>3 DEF LockRequested, StartUnit, Stopped, Launch, LimitHit,
           OnFailure, P!Start, process, Up, Spend, Budget, GuardType, Deaf,
           LastSignal, Released, Listening, SessionType, CoordinatorType,
           MachineType, Coordinators, Inboxes
  <2>4. QED
    BY <1>1, <2>1, <2>2, <2>3 DEF Systemd
<1>2. CASE Locker
  <2>1. CASE LockerLocks
    BY <2>1 DEF LockerLocks, P!Lock, FallbackHolds, Up, GuardType, Deaf,
           LastSignal, Released, Listening, SessionType, CoordinatorType,
           MachineType, Coordinators, Inboxes
  <2>2. CASE LockerReady
    BY <2>2 DEF LockerReady, P!Ready, Answer, Up, GuardType, Deaf,
           LastSignal, Released, Listening, SessionType, CoordinatorType,
           MachineType, Coordinators, Inboxes
  <2>3. CASE LockerAuthenticates
    BY <2>3 DEF LockerAuthenticates, P!Begin, P!Refuse, P!Cancel, P!Drain,
           P!Holding, Up, GuardType, Deaf, LastSignal, Released, Listening,
           SessionType, CoordinatorType, MachineType, Coordinators, Inboxes
  <2>4. CASE LockerUnlocks
    BY <2>4 DEF LockerUnlocks, P!Unlock, P!Holding, Up, GuardType, Deaf,
           LastSignal, Released, Listening, SessionType, CoordinatorType,
           MachineType, Coordinators, Inboxes
  <2>5. CASE LockerLeaves
    BY <2>5 DEF LockerLeaves, P!Leave, Up, GuardType, Deaf, LastSignal,
           Released, Listening, SessionType, CoordinatorType, MachineType,
           Coordinators, Inboxes
  <2>6. CASE LockerDenied
    BY <2>6 DEF LockerDenied, P!Fail, Answer, FallbackHolds, Up, GuardType,
           Deaf, LastSignal, Released, Listening, SessionType,
           CoordinatorType, MachineType, Coordinators, Inboxes
  <2>7. CASE LockerCrashes
    BY <2>7 DEF LockerCrashes, P!Fail, Answer, Up, Spend, Budget, GuardType,
           Deaf, LastSignal, Released, Listening, SessionType,
           CoordinatorType, MachineType, Coordinators, Inboxes
  <2>8. QED
    BY <1>2, <2>1, <2>2, <2>3, <2>4, <2>5, <2>6, <2>7 DEF Locker
<1>3. CASE Fallback
  <2>1. CASE SwaylockLocks
    BY <2>1 DEF SwaylockLocks, ProviderHolds, P!Holding, Up, GuardType, Deaf,
           LastSignal, Released, Listening, SessionType, CoordinatorType,
           MachineType, Coordinators, Inboxes
  <2>2. CASE SwaylockUnlocks
    BY <2>2 DEF SwaylockUnlocks, Up, GuardType, Deaf, LastSignal, Released,
           Listening, SessionType, CoordinatorType, MachineType,
           Coordinators, Inboxes
  <2>3. CASE SwaylockDenied
    BY <2>3 DEF SwaylockDenied, SwaylockStops, process, Up, GuardType, Deaf,
           LastSignal, Released, Listening, SessionType, CoordinatorType,
           MachineType, Coordinators, Inboxes
  <2>4. CASE SwaylockCrashes
    BY <2>4 DEF SwaylockCrashes, SwaylockStops, process, Up, Spend, Budget,
           GuardType, Deaf, LastSignal, Released, Listening, SessionType,
           CoordinatorType, MachineType, Coordinators, Inboxes
  <2>5. CASE SuperviseReady
    BY <2>5 DEF SuperviseReady, process, Up, GuardType, Deaf, LastSignal,
           Released, Listening, SessionType, CoordinatorType, MachineType,
           Coordinators, Inboxes
  <2>6. CASE SuperviseDone
    BY <2>6 DEF SuperviseDone, process, Up, GuardType, Deaf, LastSignal,
           Released, Listening, SessionType, CoordinatorType, MachineType,
           Coordinators, Inboxes
  <2>7. CASE RestartFallback
    BY <2>7 DEF RestartFallback, process, Up, GuardType, Deaf, LastSignal,
           Released, Listening, SessionType, CoordinatorType, MachineType,
           Coordinators, Inboxes
  <2>8. QED
    BY <1>3, <2>1, <2>2, <2>3, <2>4, <2>5, <2>6, <2>7 DEF Fallback
<1>4. CASE Logind
  <2>1. CASE LockSignal
    BY <2>1 DEF LockSignal, Signal, Listening, process, Up, Spend, Budget,
           GuardType, Deaf, LastSignal, Released, SessionType,
           CoordinatorType, MachineType, Coordinators, Inboxes
  <2>2. CASE SleepRequested
    BY <2>2, AppendLast DEF SleepRequested, Suspend, PrepareForSleep, Signal,
           Listening, process, Spend, Budget, GuardType, Deaf, LastSignal,
           Released, SessionType, CoordinatorType, MachineType, Coordinators,
           Inboxes
  <2>3. CASE GoToSleep
    BY <2>3 DEF GoToSleep, FallsAsleep, process, GuardType, Deaf, LastSignal,
           Released, Listening, SessionType, CoordinatorType, MachineType,
           Coordinators, Inboxes
  <2>4. CASE ForceSleep
    BY <2>4 DEF ForceSleep, FallsAsleep, process, GuardType, Deaf,
           LastSignal, Released, Listening, SessionType, CoordinatorType,
           MachineType, Coordinators, Inboxes
  <2>5. CASE Wake
    <3>1. Deaf'
      BY <2>5 DEF Wake, Signal, Listening, Deaf, GuardType
    <3>2. LastSignal'
      BY <2>5, InboxTypes, PressTypes DEF Wake, Signal, Deaf, LastSignal,
             GuardType, MachineType, SessionType
    <3>3. Released'
      <4>1. CASE Listening
        <5>1. Len(inbox'.sleep) # 0 /\ Last(inbox'.sleep) = FALSE
          BY <2>5, <4>1, InboxTypes, PressTypes
          DEF Wake, Signal, SessionType, MachineType
        <5>2. QED
          BY <5>1 DEF Released
      <4>2. CASE ~Listening
        BY <2>5, <4>2 DEF Wake, Listening, Deaf, Released, GuardType, SessionType,
                       CoordinatorType, Coordinators
      <4>3. QED
        BY <4>1, <4>2
    <3>4. QED
      BY <3>1, <3>2, <3>3 DEF GuardType
  <2>6. CASE Press
    BY <2>6 DEF Press, Signal, Listening, process, Up, Spend, Budget,
           GuardType, Deaf, LastSignal, Released, SessionType,
           CoordinatorType, MachineType, Coordinators, Inboxes
  <2>7. QED
    BY <1>4, <2>1, <2>2, <2>3, <2>4, <2>5, <2>6 DEF Logind
<1>5. CASE Coordinator
  <2>1. CASE HandleLockSignal
    BY <2>1 DEF HandleLockSignal, Request, JobBegins, Selecting, StartUnit,
           Stopped, Launch, LimitHit, OnFailure, P!Start, process, Up,
           GuardType, Deaf, LastSignal, Released, Listening, SessionType,
           CoordinatorType, MachineType, Coordinators, Inboxes
  <2>2. CASE HandlePreparing
    <3>1. Deaf'
      BY <2>2 DEF HandlePreparing, Request, Listening, Deaf, CoordinatorType,
             Coordinators, SessionType
    <3>2. LastSignal'
      BY <2>2, InboxTypes DEF HandlePreparing, SleepSignal, LastSignal,
             GuardType, MachineType, SessionType
    <3>3. Released'
      <4>1. inbox.sleep # <<>> /\ Head(inbox.sleep) = TRUE
        BY <2>2 DEF HandlePreparing, SleepSignal
      <4>2. machine' = machine /\ inbox' = RestOfInbox
        BY <2>2 DEF HandlePreparing
      <4>3. machine # "awake" \/ (Len(RestOfInbox.sleep) # 0
                                   /\ Last(RestOfInbox.sleep) = FALSE)
        BY <4>1, InboxTypes DEF LastSignal, GuardType, SessionType, MachineType
      <4>4. QED
        BY <4>2, <4>3 DEF Released
    <3>4. QED
      BY <3>1, <3>2, <3>3 DEF GuardType
  <2>3. CASE HandleWoke
    <3>1. Deaf'
      <4>1. k.pc = "select" /\ inbox.sleep # <<>> /\ machine' = machine
        BY <2>3 DEF HandleWoke, SleepSignal, Selecting
      <4>2. \/ /\ inbox' = RestOfInbox
               /\ k' = [k EXCEPT !.pending = "none", !.guard = TRUE,
                                !.inhibitor = TRUE]
            \/ inbox' = Quiet /\ k' = Dead
        BY <2>3 DEF HandleWoke, Die
      <4>3. k'.pc = "select" \/ (k'.pc = "dead" /\ inbox' = Quiet)
        BY <4>1, <4>2 DEF Dead, Fresh, SessionType, CoordinatorType,
                          Coordinators
      <4>4. Len(Quiet.sleep) = 0
        BY DEF Quiet
      <4>5. QED
        BY <4>3, <4>4 DEF Deaf, Listening
    <3>2. LastSignal'
      <4>1. k.pc = "select" /\ inbox.sleep # <<>> /\ machine' = machine
        BY <2>3 DEF HandleWoke, SleepSignal, Selecting
      <4>2. \/ /\ inbox' = RestOfInbox
               /\ k' = [k EXCEPT !.pending = "none", !.guard = TRUE,
                                !.inhibitor = TRUE]
            \/ inbox' = Quiet /\ k' = Dead
        BY <2>3 DEF HandleWoke, Die
      <4>3. QED
        BY <4>1, <4>2, InboxTypes DEF LastSignal, GuardType, Quiet,
                                      SessionType, MachineType
    <3>3. Released'
      <4>1. k.pc = "select" /\ inbox.sleep # <<>> /\ machine' = machine
        BY <2>3 DEF HandleWoke, SleepSignal, Selecting
      <4>2. \/ /\ inbox' = RestOfInbox
               /\ k' = [k EXCEPT !.pending = "none", !.guard = TRUE,
                                !.inhibitor = TRUE]
            \/ inbox' = Quiet /\ k' = Dead
        BY <2>3 DEF HandleWoke, Die
      <4>3. QED
        BY <4>1, <4>2 DEF Released, Dead, Fresh, SessionType, CoordinatorType,
                          Coordinators
    <3>4. QED
      BY <3>1, <3>2, <3>3 DEF GuardType
  <2>4. CASE RequestReturns
    BY <2>4, AppendLast DEF RequestReturns, Suspend, PrepareForSleep, Signal,
           Listening, process, Up, GuardType, Deaf, LastSignal, Released,
           SessionType, CoordinatorType, MachineType, Coordinators, Inboxes
  <2>5. CASE HandlePress
    BY <2>5 DEF HandlePress, Selecting, process, Up, GuardType, Deaf,
           LastSignal, Released, Listening, SessionType, CoordinatorType,
           MachineType, Coordinators, Inboxes
  <2>6. CASE HandleDeadline
    BY <2>6 DEF HandleDeadline, Selecting, process, Up, GuardType, Deaf,
           LastSignal, Released, Listening, SessionType, CoordinatorType,
           MachineType, Coordinators, Inboxes
  <2>7. CASE JudgePress
    BY <2>7, AppendLast, ZenonT(60) DEF JudgePress, Sleep, Judged, Suspend,
           PrepareForSleep, Signal, Listening, Request, JobBegins, StartUnit,
           Stopped, Launch, LimitHit, OnFailure, P!Start, process, Up,
           GuardType, Deaf, LastSignal, Released, SessionType,
           CoordinatorType, MachineType, Coordinators, Inboxes
  <2>8. CASE JudgeDeadline
    BY <2>8, AppendLast, ZenonT(60) DEF JudgeDeadline, Sleep, Judged, Suspend,
           PrepareForSleep, Signal, Listening, Request, JobBegins, StartUnit,
           Stopped, Launch, LimitHit, OnFailure, P!Start, process, Up,
           GuardType, Deaf, LastSignal, Released, SessionType,
           CoordinatorType, MachineType, Coordinators, Inboxes
  <2>9. CASE WindowPasses
    BY <2>9 DEF WindowPasses, process, Up, GuardType, Deaf, LastSignal,
           Released, Listening, SessionType, CoordinatorType, MachineType,
           Coordinators, Inboxes
  <2>10. CASE GuardPasses
    BY <2>10 DEF GuardPasses, process, Up, GuardType, Deaf, LastSignal,
           Released, Listening, SessionType, CoordinatorType, MachineType,
           Coordinators, Inboxes
  <2>11. CASE CoordinatorDies
    BY <2>11 DEF CoordinatorDies, Die, Dead, Fresh, Quiet, process, Up,
           Spend, Budget, GuardType, Deaf, LastSignal, Released, Listening,
           SessionType, CoordinatorType, MachineType, Coordinators, Inboxes
  <2>12. CASE CoordinatorStarts
    BY <2>12 DEF CoordinatorStarts, Fresh, process, GuardType, Deaf,
           LastSignal, Released, Listening, SessionType, CoordinatorType,
           MachineType, Coordinators, Inboxes
  <2>13. CASE CoordinatorSubscribes
    BY <2>13 DEF CoordinatorSubscribes, process, Up, GuardType, Deaf,
           LastSignal, Released, Listening, SessionType, CoordinatorType,
           MachineType, Coordinators, Inboxes
  <2>14. QED
    BY <1>5, <2>1, <2>2, <2>3, <2>4, <2>5, <2>6, <2>7, <2>8, <2>9, <2>10,
           <2>11, <2>12, <2>13 DEF Coordinator
<1>6. CASE UNCHANGED vars
    BY <1>6 DEF vars, process, GuardType, Deaf, LastSignal, Released,
           Listening, SessionType, CoordinatorType, MachineType,
           Coordinators, Inboxes
<1>7. QED
    BY <1>1, <1>2, <1>3, <1>4, <1>5, <1>6 DEF Next


-----------------------------------------------------------------------------
\* Everything that holds of every reachable state.
SessionInv == SessionType /\ LockType /\ GuardType

\* The initial state satisfies the invariant.
LEMMA SessionInvInit == Init => SessionInv
<1> SUFFICES ASSUME Init PROVE SessionInv
    OBVIOUS
<1>1. SessionType
  <2>1. UnitType
    BY SessionAssumption DEF Init, UnitType, P!Lockers, P!Attempts
  <2>2. FallbackType
    BY DEF Init, FallbackType
  <2>3. CoordinatorType
    BY DEF Init, Fresh, CoordinatorType, Coordinators
  <2>4. MachineType
    BY DEF Init, Quiet, MachineType, Inboxes
  <2>5. SpentType
    BY DEF Init, Budget, SpentType
  <2>6. QED
    BY <2>1, <2>2, <2>3, <2>4, <2>5 DEF SessionType
<1>2. LockType
    BY DEF Init, LockType, ProviderHolds, FallbackHolds, P!Holding
<1>3. GuardType
    BY DEF Init, GuardType, Deaf, LastSignal, Released, Fresh, Quiet,
           Listening
<1>4. QED
    BY <1>1, <1>2, <1>3 DEF SessionInv

\* The inductive invariant holds of every reachable state.
THEOREM SessionInvariant == SessionSpec => []SessionInv
<1>1. SessionInv /\ [Next]_vars => SessionInv'
    BY SessionTypeStep, LockTypeStep, GuardTypeStep DEF SessionInv
<1>2. QED
    BY <1>1, SessionInvInit, PTL DEF SessionSpec

\* Every variable keeps its type, and a unit that runs has a process, for
\* every start limit and any number of crashes and events.
THEOREM SessionTypeCorrect == SessionSpec => []SessionTypeOK
<1>1. SessionInv => SessionTypeOK
    BY DEF SessionInv, SessionType, UnitType, FallbackType, CoordinatorType,
           MachineType, SessionTypeOK, Coordinators, Inboxes
<1>2. QED
    BY <1>1, SessionInvariant, PTL

\* The coordinator of `coordinate' never waits for the next sleep without its
\* inhibitor, whatever signals it handles in whatever order.
THEOREM AlwaysGuarded == SessionSpec => []AwakeIsGuarded
<1>1. SessionInv => AwakeIsGuarded
    BY DEF SessionInv, GuardType, Released, AwakeIsGuarded
<1>2. QED
    BY <1>1, SessionInvariant, PTL

\* A lock request that reports success found the session locked, or met the
\* user's own unlock.
THEOREM RequestsLock == SessionSpec => RequestLocks
<1>1. SessionInv /\ [Next]_vars =>
        [k.job # "ok" /\ k'.job = "ok" =>
            session' = "locked" \/ attempt = "passed"]_vars
    BY RequestStep DEF SessionInv
<1>2. QED
    BY <1>1, SessionInvariant, PTL DEF SessionSpec, RequestLocks
=============================================================================
