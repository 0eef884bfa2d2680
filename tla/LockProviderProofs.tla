-------------------------- MODULE LockProviderProofs --------------------------
(***************************************************************************)
(* Theorems about LockProvider, for every queue and every bound: the types *)
(* of its variables, that unlock authority comes from PAM, that nothing    *)
(* typed for one answer reaches the next, that no error is the program's   *)
(* own, and that the process implements SecureLock.                        *)
(***************************************************************************)
EXTENDS LockProvider, SequenceTheorems, TLAPS

(* The inductive invariant *)

\* What the coordinator alone keeps while no error has stopped it.
Attempting(s) ==
    /\ (s.phase = "Authenticating") <=> (s.attempt # 0)
    /\ s.active = s.attempt
    /\ s.attempt # 0 => s.attempt = s.next - 1 /\ s.draining = 0
    /\ s.draining # 0 => s.draining = s.next - 1 /\ s.phase = "Locked"
    /\ (s.phase \in {"Acquiring", "Denied"}) <=> ~s.told
    /\ ~s.told => s.next = 1
    /\ s.next # 0

Typing(s) ==
    /\ s.editor # NoEditor => s.attempt # 0 /\ s.queue = <<>>
    /\ s.queue # <<>> => s.attempt # 0 \/ s.draining # 0
    /\ \A i \in DOMAIN s.queue : s.queue[i].turn = s.turn
    /\ s.editor.typed \subseteq {s.turn}

Granted(s) ==
    /\ \A a \in s.cancelled : a # 0 /\ a < s.next /\ a # s.attempt
    /\ s.phase \in {"UnlockAuthorized", "Finished"} =>
          s.verdict = "Succeeded" /\ s.next - 1 \notin s.cancelled

\* Every attempt was started by a key but the first, every answer and every
\* verdict ends a key or an attempt: the counters stay within the bounds.
Counted(s, n) ==
    /\ s.next <= n + 2
    /\ s.draining # 0 /\ s.queue # <<>> => s.next <= n + 1
    /\ s.turn + Len(s.queue) <= n + s.next - 1
    /\ s.attempt # 0 => s.turn + Len(s.queue) < n + s.next - 1

Sound(s, n) == Attempting(s) /\ Typing(s) /\ Granted(s) /\ Counted(s, n)

\* The pump holds the coordinator's attempt, and its worker has shown a prompt
\* exactly while the coordinator has a field.
Pumping ==
    /\ auth # 0 <=> worker.st # "none"
    /\ worker.st = "asking" => worker.kind \in Kinds
    /\ c.phase \notin Terminal =>
          /\ auth = IF c.attempt # 0 THEN c.attempt ELSE c.draining
          /\ worker.st = "shown" <=> c.editor # NoEditor

Wired ==
    /\ wire = "AwaitingDecision" <=> c.phase = "Acquiring"
    /\ wire = "Locked" <=> c.phase \in {"Locked", "Authenticating"}
    /\ wire = "UnlockSent" <=> c.phase \in {"UnlockAuthorized", "Finished"}
    /\ wire # "AwaitingDecision" => sent \in {<<>>, <<"finished">>}
    /\ wire \in {"Finished", "UnlockSent"} => sent = <<>>

Looping ==
    /\ c.told <=> proc.ready \/ proc.pending
    /\ ~(proc.ready /\ proc.pending)
    /\ proc.notified <=> proc.ready
    /\ proc.flushed <=> c.phase = "UnlockAuthorized"
    /\ proc.flushed => proc.pc # "auth" /\ (proc.pc = "events" => proc.ready)
    /\ c.phase \in Terminal => proc.pc = "apply"
    /\ c.phase = "Finished" => proc.ready
    /\ proc.exit = IF c.phase \notin Terminal THEN "none"
                   ELSE IF c.phase = "Finished" THEN "AuthenticatedUnlock"
                   ELSE c.phase

Running ==
    /\ c.err = NoError /\ Sound(c, keys)
    /\ Pumping /\ Wired /\ Looping

ProviderInv ==
    /\ ProviderTypeOK /\ c.out = Quiet
    /\ ~Alive => auth = 0 /\ worker = NoWorker
    /\ AuthorityFromPam /\ NoErrorOfItsOwn
    /\ Alive => Running
-----------------------------------------------------------------------------
(* The coordinator's operators *)

Coord(s) == s \in Coordinators /\ Len(s.queue) <= MaxQueue

\* A coordinator between two events, at n keys.
Settled(s, n) ==
    Coord(s) /\ s.err = NoError /\ s.out = Quiet /\ Sound(s, n) /\ n \in 0 .. MaxKeys

\* What an event makes of the attempt and the field.
SameProcess(s, t) == t.told = s.told /\ t.err = NoError
Kept(s, t) ==
    /\ SameProcess(s, t) /\ t.out = Quiet
    /\ t.phase = s.phase /\ t.attempt = s.attempt /\ t.draining = s.draining
    /\ t.editor = NoEditor <=> s.editor = NoEditor
Started(s, t) ==
    /\ SameProcess(s, t) /\ t.out = [s.out EXCEPT !.start = t.attempt]
    /\ s.phase = "Locked" /\ s.attempt = 0 /\ s.editor = NoEditor
    /\ t.phase = "Authenticating" /\ t.attempt # 0 /\ t.draining = 0
    /\ t.editor = NoEditor
Answered(s, t) ==
    /\ SameProcess(s, t) /\ t.out = [Quiet EXCEPT !.reply = "answer"]
    /\ t.phase = s.phase /\ t.attempt = s.attempt /\ t.draining = s.draining
    /\ t.editor = NoEditor
Withdrawn(s, t) ==
    /\ SameProcess(s, t) /\ t.out = [Quiet EXCEPT !.reply = "cancel"]
    /\ s.phase = "Authenticating" /\ s.attempt # 0
    /\ t.phase = "Locked" /\ t.attempt = 0 /\ t.draining = s.attempt
    /\ t.editor = NoEditor
Stopped(s, t) ==
    /\ t.err \in StackErrors /\ t.out = Quiet
    /\ t.phase \notin {"UnlockAuthorized", "Finished"}

\* The bounds follow from the counts.
LEMMA CountersBounded ==
    ASSUME NEW s, NEW n \in 0 .. MaxKeys, Len(s.queue) \in Nat,
           s.next \in Nat, s.turn \in Nat, Counted(s, n)
    PROVE  s.next \in AttemptIds /\ s.turn \in Turns
BY ProviderAssumption DEF Counted, AttemptIds, Turns

LEMMA EmptyQueue == <<>> \in Seq(Keys) /\ Len(<<>>) = 0 /\ DOMAIN <<>> = {}
OBVIOUS

\* An attempt starts on a locked session without one.
LEMMA StartKeeps ==
    ASSUME NEW s, NEW n \in 0 .. MaxKeys, Coord(s), s.err = NoError,
           s.phase = "Locked", s.attempt = 0, s.draining = 0, s.told,
           s.next # 0, s.next <= n + 1, s.editor = NoEditor, Granted(s),
           \A i \in DOMAIN s.queue : s.queue[i].turn = s.turn,
           s.turn + Len(s.queue) <= n + s.next - 1
    PROVE  /\ Coord(StartAuthentication(s))
           /\ Sound(StartAuthentication(s), n)
           /\ Started(s, StartAuthentication(s))
<1> DEFINE t == [s EXCEPT !.active = s.next, !.next = @ + 1,
                          !.attempt = s.next, !.phase = "Authenticating",
                          !.out.start = s.next]
<1>1. StartAuthentication(s) = t
    BY DEF StartAuthentication
<1>2. s \in Coordinators /\ s.next \in Nat /\ s.next + 1 \in AttemptIds /\ s.next \in AttemptIds
    BY ProviderAssumption DEF Coord, Coordinators, AttemptIds
<1>3. /\ t \in Coordinators
      /\ t.queue = s.queue /\ t.turn = s.turn /\ t.editor = s.editor
      /\ t.next = s.next + 1 /\ t.attempt = s.next /\ t.active = s.next
      /\ t.draining = 0 /\ t.phase = "Authenticating" /\ t.told = s.told
      /\ t.cancelled = s.cancelled /\ t.err = NoError
      /\ t.out = [s.out EXCEPT !.start = s.next]
    BY <1>2 DEF Coordinators, Phases
<1> HIDE DEF t
<1>4. Attempting(t)
    BY <1>2, <1>3 DEF Attempting
<1>5. Typing(t)
    BY <1>2, <1>3 DEF Typing, NoEditor
<1>6. Granted(t)
  <2>1. s.cancelled \subseteq Nat
    BY <1>2 DEF Coordinators, AttemptIds
  <2>2. QED
    BY <1>2, <1>3, <2>1 DEF Granted
<1>7. Counted(t, n)
  <2>1. Len(s.queue) \in Nat /\ s.turn \in Nat
    BY <1>2 DEF Coordinators, Turns
  <2>2. QED
    <3>1. /\ Len(t.queue) = Len(s.queue) /\ t.turn = s.turn
          /\ t.next = s.next + 1 /\ t.draining = 0
        BY <1>3
    <3>2. t.turn + Len(t.queue) < n + t.next - 1
        BY <1>2, <2>1, <3>1
    <3>3. QED
        BY <1>2, <2>1, <3>1, <3>2 DEF Counted
<1>8. QED
    BY <1>1, <1>2, <1>3, <1>4, <1>5, <1>6, <1>7
    DEF Coord, Sound, Started, SameProcess

\* The result of an event, if it is one of the four that leave the process up.
Lives(s, t, n) ==
    /\ Coord(t) /\ Sound(t, n)
    /\ Kept(s, t) \/ Started(s, t) \/ Answered(s, t) \/ Withdrawn(s, t)
Fails(s, t) == Coord(t) /\ Granted(t) /\ Stopped(s, t)

\* What was answered, cancelled or typed: one key is used.
LEMMA EditKeeps ==
    ASSUME NEW s, NEW n \in 0 .. MaxKeys, NEW key \in Keys, Coord(s),
           s.err = NoError, s.out = Quiet, Attempting(s), Granted(s),
           s.attempt # 0, s.editor # NoEditor, s.editor.typed \subseteq {s.turn},
           key.turn = s.turn, s.next <= n + 2,
           s.turn + 2 <= n + s.next - 1,
           key.key # "text" \/ s.editor.kind = "binary" \/ s.queue = <<>>,
           key.key = "cancel" \/ key.key = "submit" \/ key.key = "text",
           NEW t, t = ApplyEditorInput(s, key)
    PROVE  Lives(s, t, n) \/ Fails(s, t)
<1>1. /\ s \in Coordinators /\ s.turn \in Nat /\ s.next \in Nat
      /\ s.next \in AttemptIds /\ s.turn + 1 \in Turns /\ s.attempt \in AttemptIds
      /\ s.cancelled \subseteq Nat /\ s.attempt = s.next - 1 /\ s.draining = 0
      /\ s.phase = "Authenticating" /\ s.active = s.attempt
      /\ s.told
    BY ProviderAssumption DEF Coord, Coordinators, AttemptIds, Turns, Attempting
<1>2. s.editor \in Editors
    BY <1>1 DEF Coordinators
<1>3. CASE key.key = "cancel"
  <2> DEFINE u == [s EXCEPT !.editor = NoEditor, !.queue = <<>>, !.turn = @ + 1,
                        !.attempt = 0, !.draining = s.attempt,
                        !.cancelled = @ \cup {s.attempt},
                        !.out.reply = "cancel", !.active = 0,
                        !.phase = "Locked"]
  <2>1. t = u
      BY <1>1, <1>3 DEF ApplyEditorInput, Cancelled, Settle
  <2>0. u \in Coordinators
      BY <1>1, EmptyQueue, ZenonT(60) DEF Coordinators, Phases, Quiet, AttemptIds
  <2>2. /\ u.queue = <<>> /\ u.turn = s.turn + 1
        /\ u.attempt = 0 /\ u.draining = s.attempt /\ u.active = 0
        /\ u.cancelled = s.cancelled \cup {s.attempt} /\ u.next = s.next
        /\ u.phase = "Locked" /\ u.told = s.told /\ u.editor = NoEditor
        /\ u.err = NoError /\ u.out = [Quiet EXCEPT !.reply = "cancel"]
      BY <1>1 DEF Coordinators, Quiet
  <2> HIDE DEF u
  <2>3. Attempting(u) /\ Typing(u)
      BY <1>1, <2>2 DEF Attempting, Typing, NoEditor
  <2>4. Granted(u) /\ Counted(u, n)
    <3>1. Counted(u, n)
      BY <1>1, <2>2, EmptyQueue DEF Counted
    <3>2. Granted(u)
      BY <1>1, <2>2 DEF Granted
    <3>3. QED
      BY <3>1, <3>2
  <2>5. QED
      BY <1>1, <2>0, <2>1, <2>2, <2>3, <2>4, EmptyQueue, ProviderAssumption
      DEF Lives, Coord, Sound, Withdrawn, SameProcess
<1>4. CASE key.key # "cancel" /\ s.editor.kind = "binary"
  <2>1. t = [s EXCEPT !.err = "UnsupportedPrompt"]
      BY <1>4 DEF ApplyEditorInput, Err
  <2>2. /\ t \in Coordinators /\ t.queue = s.queue /\ t.phase = s.phase
        /\ t.err = "UnsupportedPrompt" /\ t.out = s.out
        /\ t.cancelled = s.cancelled /\ t.next = s.next
        /\ t.attempt = s.attempt /\ t.verdict = s.verdict
      BY <1>1, <2>1 DEF Coordinators, StackErrors
  <2>4. Granted(t) /\ Stopped(s, t)
      BY <1>1, <2>2 DEF Stopped, StackErrors, Granted
  <2>3. QED
      BY <2>2, <2>4 DEF Fails, Coord
<1>5. CASE key.key = "submit" /\ s.editor.kind # "binary"
  <2> DEFINE u == [s EXCEPT !.editor = NoEditor, !.queue = <<>>, !.turn = @ + 1,
                        !.out.reply = "answer"]
  <2>1. t = u
      BY <1>5 DEF ApplyEditorInput, Completed
  <2>0. u \in Coordinators
      BY <1>1, EmptyQueue DEF Coordinators, Quiet
  <2>2. /\ u.queue = <<>> /\ u.turn = s.turn + 1
        /\ u.attempt = s.attempt /\ u.draining = 0 /\ u.active = s.active
        /\ u.cancelled = s.cancelled /\ u.next = s.next
        /\ u.phase = s.phase /\ u.told = s.told /\ u.editor = NoEditor
        /\ u.err = NoError /\ u.out = [Quiet EXCEPT !.reply = "answer"]
      BY <1>1 DEF Coordinators, Quiet
  <2> HIDE DEF u
  <2>3. Attempting(u) /\ Typing(u)
      BY <1>1, <2>2 DEF Attempting, Typing, NoEditor
  <2>4. Granted(u) /\ Counted(u, n)
    <3>1. Counted(u, n)
      BY <1>1, <2>2, EmptyQueue DEF Counted
    <3>2. Granted(u)
      BY <1>1, <2>2 DEF Granted
    <3>3. QED
      BY <3>1, <3>2
  <2>5. QED
      BY <1>1, <2>0, <2>1, <2>2, <2>3, <2>4, EmptyQueue, ProviderAssumption
      DEF Lives, Coord, Sound, Answered, SameProcess
<1>6. CASE key.key = "text" /\ s.editor.kind # "binary"
  <2> DEFINE u == IF s.editor.kind = "text"
                  THEN [s EXCEPT !.editor.typed = @ \cup {key.turn}] ELSE s
  <2>1. t = u
      BY <1>6 DEF ApplyEditorInput
  <2>2. /\ u.editor.typed \subseteq {s.turn} /\ u.editor \in Editors
        /\ u.editor.typed = IF s.editor.kind = "text" THEN {s.turn}
                            ELSE s.editor.typed
      BY <1>1, <1>2, ZenonT(60) DEF Coordinators, Editors, Turns, Kinds
  <2>3. /\ u \in Coordinators /\ u.queue = s.queue /\ u.turn = s.turn
        /\ u.attempt = s.attempt /\ u.draining = 0 /\ u.active = s.active
        /\ u.cancelled = s.cancelled /\ u.next = s.next
        /\ u.phase = s.phase /\ u.told = s.told
        /\ u.err = NoError /\ u.out = Quiet
      BY <1>1, <2>2 DEF Coordinators
  <2> HIDE DEF u
  <2>4. u.editor # NoEditor
      BY <2>2 DEF Editors, Kinds, NoEditor
  <2>5. s.queue = <<>>
      BY <1>6
  <2>6. Attempting(u) /\ Typing(u)
      BY <1>1, <2>2, <2>3, <2>5 DEF Attempting, Typing
  <2>7. Granted(u) /\ Counted(u, n)
      BY <1>1, <2>3, <2>5 DEF Granted, Counted
  <2>8. QED
      BY <1>1, <2>1, <2>3, <2>4, <2>5, <2>6, <2>7, ProviderAssumption
      DEF Lives, Coord, Sound, Kept, SameProcess
<1>7. QED
    BY <1>3, <1>4, <1>5, <1>6

\* A key, typed into the field, ahead of it, or to wake the field up.
Moves(s, t) ==
    \/ Kept(s, t)
    \/ Started(s, t) /\ s.draining = 0
    \/ (Answered(s, t) \/ Withdrawn(s, t)) /\ s.editor # NoEditor

LEMMA InputKeeps ==
    ASSUME NEW s, NEW n \in Nat, Settled(s, n), n + 1 <= MaxKeys,
           NEW key \in Keys, key.turn = s.turn,
           NEW t, t = HandleInput(s, key)
    PROVE  (Coord(t) /\ Sound(t, n + 1) /\ Moves(s, t)) \/ Fails(s, t)
<1>1. /\ s \in Coordinators /\ Len(s.queue) <= MaxQueue /\ s.err = NoError
      /\ s.out = Quiet /\ Attempting(s) /\ Typing(s) /\ Granted(s) /\ Counted(s, n)
      /\ n + 1 \in 0 .. MaxKeys
    BY ProviderAssumption DEF Settled, Coord, Sound
<1>2. /\ s.turn \in Nat /\ s.next \in Nat /\ s.queue \in Seq(Keys)
      /\ Len(s.queue) \in Nat /\ key.key \in KeyNames /\ s.phase \in Phases
    BY <1>1 DEF Coordinators, AttemptIds, Turns, Keys
<1>3. CASE s.editor # NoEditor
  <2>1. /\ s.attempt # 0 /\ s.queue = <<>> /\ s.editor.typed \subseteq {s.turn}
        /\ s.next <= n + 1 + 2 /\ s.turn + 2 <= n + 1 + s.next - 1
      BY <1>1, <1>2, <1>3, EmptyQueue DEF Typing, Counted
  <2>2. t = ApplyEditorInput(s, key)
      BY <1>3 DEF HandleInput
  <2>3. Lives(s, t, n + 1) \/ Fails(s, t)
      BY <1>1, <1>2, <1>3, <2>1, <2>2, EditKeeps DEF KeyNames, Coord
  <2>4. QED
      BY <1>3, <2>3 DEF Lives, Moves, Started
<1>4. ASSUME s.editor = NoEditor, s.phase \in {"Locked", "Authenticating"},
             NEW u, u = QueueInput(s, key)
      PROVE  /\ Coord(u) /\ u.err = NoError /\ u.out = Quiet
             /\ u.phase = s.phase /\ u.attempt = s.attempt /\ u.active = s.active
             /\ u.draining = s.draining /\ u.told = s.told /\ u.turn = s.turn
             /\ u.next = s.next /\ u.editor = s.editor
             /\ u.cancelled = s.cancelled /\ u.verdict = s.verdict
             /\ \A i \in DOMAIN u.queue : u.queue[i].turn = u.turn
             /\ Len(u.queue) <= Len(s.queue) + 1
             /\ Attempting(u) /\ Granted(u)
             /\ Len(u.queue) \in Nat
  <2>1. CASE Len(s.queue) >= MaxQueue
    <3>1. u = s
        BY <1>4, <2>1 DEF QueueInput
    <3>2. QED
        BY <1>1, <1>2, <3>1 DEF Coord, Typing
  <2>2. CASE ~(Len(s.queue) >= MaxQueue)
    <3>1. u = [s EXCEPT !.queue = Append(s.queue, key)]
        BY <1>4, <2>2 DEF QueueInput
    <3>2. /\ Append(s.queue, key) \in Seq(Keys)
          /\ Len(Append(s.queue, key)) = Len(s.queue) + 1
          /\ \A i \in DOMAIN Append(s.queue, key) :
                Append(s.queue, key)[i].turn = s.turn
      <4>1. /\ Append(s.queue, key) \in Seq(Keys)
            /\ Len(Append(s.queue, key)) = Len(s.queue) + 1
            /\ DOMAIN Append(s.queue, key) = 1 .. Len(s.queue) + 1
            /\ DOMAIN s.queue = 1 .. Len(s.queue)
          BY <1>2
      <4>2. \A i \in 1 .. Len(s.queue) + 1 :
                Append(s.queue, key)[i] =
                    IF i = Len(s.queue) + 1 THEN key ELSE s.queue[i]
          BY <1>2
      <4>3. QED
          BY <1>1, <4>1, <4>2 DEF Typing
    <3>3. u \in Coordinators /\ u.queue = Append(s.queue, key)
        BY <1>1, <3>1, <3>2 DEF Coordinators
    <3>4. /\ u.err = s.err /\ u.out = s.out
          /\ u.phase = s.phase /\ u.attempt = s.attempt /\ u.active = s.active
          /\ u.draining = s.draining /\ u.told = s.told /\ u.turn = s.turn
          /\ u.next = s.next /\ u.editor = s.editor
          /\ u.cancelled = s.cancelled /\ u.verdict = s.verdict
        BY <1>1, <3>1 DEF Coordinators
    <3>5. Attempting(u) /\ Granted(u)
        BY <1>1, <3>4 DEF Attempting, Granted
    <3>6. MaxQueue \in Nat
        BY ProviderAssumption
    <3>7. QED
        BY <1>1, <1>2, <2>2, <3>2, <3>3, <3>4, <3>5, <3>6 DEF Coord
  <2>3. QED
      BY <2>1, <2>2
<1>5. CASE s.editor = NoEditor /\ s.phase = "Locked" /\ s.draining = 0
  <2> DEFINE u == QueueInput(s, key)
  <2>1. /\ Coord(u) /\ u.err = NoError /\ u.out = Quiet
        /\ u.phase = s.phase /\ u.attempt = s.attempt /\ u.active = s.active
        /\ u.draining = s.draining /\ u.told = s.told /\ u.turn = s.turn
        /\ u.next = s.next /\ u.editor = s.editor
        /\ \A i \in DOMAIN u.queue : u.queue[i].turn = u.turn
        /\ Len(u.queue) <= Len(s.queue) + 1
        /\ Granted(u) /\ Len(u.queue) \in Nat
      BY <1>4, <1>5
  <2>2. t = StartAuthentication(u)
      BY <1>5 DEF HandleInput
  <2> HIDE DEF u
  <2>3. s.attempt = 0 /\ s.queue = <<>> /\ s.told /\ s.next # 0
      BY <1>1, <1>5 DEF Attempting, Typing
  <2>4. /\ u.next <= (n + 1) + 1
        /\ u.turn + Len(u.queue) <= (n + 1) + u.next - 1
      BY <1>1, <1>2, <2>1, <2>3, EmptyQueue DEF Counted
  <2>7. /\ u.phase = "Locked" /\ u.attempt = 0 /\ u.draining = 0 /\ u.told
        /\ u.next # 0 /\ u.editor = NoEditor
      BY <1>5, <2>1, <2>3
  <2>5. Coord(t) /\ Sound(t, n + 1) /\ Started(u, t)
      BY <1>1, <2>1, <2>2, <2>4, <2>7, StartKeeps
  <2>6. Started(s, t)
      BY <1>1, <2>1, <2>5, <1>5 DEF Started, SameProcess
  <2>8. QED
      BY <1>5, <2>5, <2>6 DEF Moves
<1>6. CASE /\ s.editor = NoEditor /\ s.phase \in {"Locked", "Authenticating"}
           /\ ~(s.phase = "Locked" /\ s.draining = 0)
  <2>1. t = QueueInput(s, key)
      BY <1>6 DEF HandleInput
  <2>2. /\ Coord(t) /\ t.err = NoError /\ t.out = Quiet
        /\ t.phase = s.phase /\ t.attempt = s.attempt
        /\ t.draining = s.draining /\ t.told = s.told /\ t.turn = s.turn
        /\ t.next = s.next /\ t.editor = s.editor
        /\ \A i \in DOMAIN t.queue : t.queue[i].turn = t.turn
        /\ Len(t.queue) <= Len(s.queue) + 1
        /\ Attempting(t) /\ Granted(t) /\ Len(t.queue) \in Nat
      BY <1>4, <1>6, <2>1
  <2>3. Typing(t)
      BY <1>1, <1>6, <2>2 DEF Typing, Attempting, NoEditor
  <2>4. Counted(t, n + 1)
    <3>1. /\ Len(t.queue) <= Len(s.queue) + 1 /\ Len(t.queue) \in Nat
          /\ Len(s.queue) \in Nat /\ s.turn \in Nat /\ s.next \in Nat
          /\ t.attempt = s.attempt /\ t.turn = s.turn /\ t.next = s.next
        BY <1>2, <2>2
    <3>2. /\ s.next <= n + 2 /\ s.turn + Len(s.queue) <= n + s.next - 1
          /\ s.attempt # 0 => s.turn + Len(s.queue) < n + s.next - 1
        BY <1>1 DEF Counted
    <3>4. t.next <= (n + 1) + 2
        BY <3>1, <3>2
    <3>5. t.next <= (n + 1) + 1
        BY <3>1, <3>2
    <3>6. t.turn + Len(t.queue) <= (n + 1) + t.next - 1
        BY <3>1, <3>2, SMTT(30)
    <3>7. t.attempt # 0 => t.turn + Len(t.queue) < (n + 1) + t.next - 1
        BY <3>1, <3>2, SMTT(30)
    <3>3. QED
        BY <3>4, <3>5, <3>6, <3>7 DEF Counted
  <2>5. QED
      BY <1>6, <2>2, <2>3, <2>4 DEF Moves, Sound, Kept, SameProcess
<1>7. CASE s.editor = NoEditor /\ s.phase \notin {"Locked", "Authenticating"}
  <2>1. t = s
      BY <1>7 DEF HandleInput
  <2>2. Counted(t, n + 1)
      BY <1>1, <1>2, <2>1 DEF Counted
  <2>3. QED
      BY <1>1, <2>1, <2>2 DEF Moves, Coord, Sound, Kept, SameProcess
<1>8. QED
    BY <1>3, <1>5, <1>6, <1>7

\* A field that has just been opened, over what was typed ahead.
Opened(s, n) ==
    /\ Coord(s) /\ s.err = NoError /\ s.out = Quiet /\ n \in 0 .. MaxKeys
    /\ Attempting(s) /\ Granted(s) /\ Counted(s, n)
    /\ s.attempt # 0 /\ s.editor \in Editors /\ s.editor.typed = {}
    /\ \A i \in DOMAIN s.queue : s.queue[i].turn = s.turn

\* The keys typed ahead of the prompt, each for this answer.
LEMMA QueueParts ==
    ASSUME NEW q \in Seq(Keys), NEW i \in 1 .. Len(q)
    PROVE  /\ Tail(SubSeq(q, i, Len(q))) \in Seq(Keys)
           /\ Len(Tail(SubSeq(q, i, Len(q)))) = Len(q) - i
           /\ SubSeq(q, Len(q) + 1, Len(q)) = <<>>
           /\ q[i] \in Keys
<1>1. Len(q) \in Nat /\ \A j \in 1 .. Len(q) : q[j] \in Keys
    BY ElementOfSeq
<1>2. /\ SubSeq(q, i, Len(q)) \in Seq(Keys)
      /\ Len(SubSeq(q, i, Len(q))) = Len(q) - i + 1
    BY <1>1, SubSeqProperties
<1>3. SubSeq(q, i, Len(q)) # <<>>
  <2>1. Len(q) - i + 1 # 0
      BY <1>1
  <2>2. Len(SubSeq(q, i, Len(q))) # 0
      BY <1>2, <2>1
  <2> DEFINE r == SubSeq(q, i, Len(q))
  <2>3. Len(r) # 0
      BY <2>2
  <2> HIDE DEF r
  <2>4. r # <<>>
      BY <2>3, EmptyQueue
  <2>5. QED
      BY <2>4 DEF r
<1>4. /\ Tail(SubSeq(q, i, Len(q))) \in Seq(Keys)
      /\ Len(Tail(SubSeq(q, i, Len(q)))) = (Len(q) - i + 1) - 1
    BY <1>2, <1>3, HeadTailProperties
<1>5. SubSeq(q, Len(q) + 1, Len(q)) = <<>>
    BY <1>1, SubSeqEmpty
<1>6. QED
    BY <1>1, <1>4, <1>5

\* A field filled with what was typed for this answer, over the rest q.
Filled(s, typed, q) == [s EXCEPT !.editor.typed = typed, !.queue = q]

Refilled(s, u, q) ==
    /\ Coord(u) /\ u.editor \in Editors /\ u.editor.kind = s.editor.kind
    /\ u.editor.typed \subseteq {s.turn} /\ u.queue = q
    /\ u.err = NoError /\ u.out = Quiet
    /\ u.phase = s.phase /\ u.attempt = s.attempt /\ u.active = s.active
    /\ u.draining = s.draining /\ u.told = s.told /\ u.turn = s.turn
    /\ u.next = s.next /\ Attempting(u) /\ Granted(u)

LEMMA FillKeeps ==
    ASSUME NEW s, NEW n, Opened(s, n), NEW q \in Seq(Keys),
           Len(q) <= Len(s.queue), NEW typed, typed \in SUBSET {s.turn}
    PROVE  Refilled(s, Filled(s, typed, q), q)
<1> DEFINE u == Filled(s, typed, q)
<1>1. /\ s \in Coordinators /\ s.turn \in Turns /\ Len(s.queue) \in Nat
      /\ Len(s.queue) <= MaxQueue /\ MaxQueue \in Nat /\ Len(q) \in Nat
      /\ s.err = NoError /\ s.out = Quiet
      /\ Attempting(s) /\ Granted(s) /\ s.editor \in Editors
    BY ProviderAssumption, LenProperties DEF Opened, Coord, Coordinators
<1> DEFINE e == [s.editor EXCEPT !.typed = typed]
<1>2. e \in Editors /\ e.kind = s.editor.kind /\ e.typed = typed
    BY <1>1 DEF Editors
<1>3. u = [s EXCEPT !.editor = e, !.queue = q]
    BY <1>1 DEF Coordinators, Filled
<1> HIDE DEF e, u
<1>4. u \in Coordinators
    BY <1>1, <1>2, <1>3 DEF Coordinators
<1>5. /\ u.editor = e /\ u.queue = q /\ u.err = s.err /\ u.out = s.out
      /\ u.phase = s.phase /\ u.attempt = s.attempt /\ u.active = s.active
      /\ u.draining = s.draining /\ u.told = s.told /\ u.turn = s.turn
      /\ u.next = s.next /\ u.cancelled = s.cancelled /\ u.verdict = s.verdict
    BY <1>1, <1>3 DEF Coordinators
<1>6. Attempting(u) /\ Granted(u)
    BY <1>1, <1>5 DEF Attempting, Granted
<1>7. Len(u.queue) <= MaxQueue
    BY <1>1, <1>5
<1>8. Refilled(s, u, q)
    BY <1>1, <1>2, <1>4, <1>5, <1>6, <1>7 DEF Coord, Refilled
<1>9. QED
    BY <1>8 DEF u

\* Replaying keeps the field open, or answers, cancels or stops.
LEMMA ReplayKeeps ==
    ASSUME NEW s, NEW n, Opened(s, n), NEW t, t = Replay(s)
    PROVE  Lives(s, t, n) \/ Fails(s, t)
<1> DEFINE Ends(i) == s.queue[i].key # "text" \/ s.editor.kind = "binary"
           first == {i \in DOMAIN s.queue :
                        Ends(i) /\ \A j \in 1 .. i - 1 : ~Ends(j)}
           Fill(k) == [s EXCEPT
               !.editor.typed = IF s.editor.kind = "text"
                                THEN {s.queue[i].turn : i \in 1 .. k} ELSE {},
               !.queue = SubSeq(@, k + 1, Len(@))]
           k == CHOOSE i \in first : TRUE
<1>1. /\ s \in Coordinators /\ s.queue \in Seq(Keys) /\ s.turn \in Turns
      /\ s.turn \in Nat /\ s.next \in Nat /\ Len(s.queue) \in Nat
      /\ Len(s.queue) <= MaxQueue /\ DOMAIN s.queue = 1 .. Len(s.queue)
      /\ MaxQueue \in Nat /\ n \in 0 .. MaxKeys /\ n \in Nat
    BY ProviderAssumption, LenProperties
    DEF Opened, Coord, Coordinators, AttemptIds, Turns
<1>2. /\ s.err = NoError /\ s.out = Quiet
      /\ Attempting(s) /\ Granted(s) /\ Counted(s, n)
      /\ s.attempt # 0 /\ s.editor \in Editors /\ s.editor.typed = {}
      /\ \A i \in 1 .. Len(s.queue) : s.queue[i].turn = s.turn
    BY <1>1 DEF Opened
<1>4. CASE first = {}
  <2> DEFINE typed == IF s.editor.kind = "text"
                      THEN {s.queue[i].turn : i \in 1 .. Len(s.queue)} ELSE {}
             q == SubSeq(s.queue, Len(s.queue) + 1, Len(s.queue))
  <2>1. t = Filled(s, typed, q)
      BY <1>4 DEF Replay, Filled
  <2>2. q = <<>>
      BY <1>1, SubSeqEmpty
  <2>9. typed \in SUBSET {s.turn}
      BY <1>2
  <2> HIDE DEF typed, q
  <2>3. q \in Seq(Keys) /\ Len(q) <= Len(s.queue)
      BY <1>1, <2>2, EmptyQueue
  <2>4. /\ Coord(t) /\ t.editor \in Editors /\ t.queue = <<>>
        /\ t.editor.typed \subseteq {s.turn}
        /\ t.err = NoError /\ t.out = Quiet
        /\ t.phase = s.phase /\ t.attempt = s.attempt /\ t.active = s.active
        /\ t.draining = s.draining /\ t.told = s.told /\ t.turn = s.turn
        /\ t.next = s.next /\ Attempting(t) /\ Granted(t)
    <3>1. Refilled(s, t, q)
        BY <2>1, <2>3, <2>9, FillKeeps
    <3>2. QED
        BY <2>2, <3>1 DEF Refilled
  <2>5. s.editor # NoEditor /\ t.editor # NoEditor
      BY <1>2, <2>4 DEF Editors, Kinds, NoEditor
  <2>6. Typing(t)
      BY <1>2, <2>4, EmptyQueue DEF Typing
  <2>7. Counted(t, n)
      BY <1>1, <1>2, <2>4, EmptyQueue DEF Counted
  <2>8. QED
      BY <2>4, <2>5, <2>6, <2>7 DEF Lives, Sound, Kept, SameProcess
<1>5. CASE first # {}
  <2>1. k \in first
      BY <1>5
  <2>2. k \in 1 .. Len(s.queue) /\ Ends(k)
      BY <1>1, <2>1
  <2> DEFINE q == Tail(SubSeq(s.queue, k, Len(s.queue)))
             typed == IF s.editor.kind = "text"
                      THEN {s.queue[i].turn : i \in 1 .. k - 1} ELSE {}
             u == Filled(s, typed, q)
             v == Fill(k - 1)
  <2>3. [Fill(k - 1) EXCEPT !.queue = Tail(@)] = u
    <3>1. k - 1 + 1 = k
        BY <1>1, <2>2
    <3>2. v = [s EXCEPT !.editor.typed = typed,
                        !.queue = SubSeq(s.queue, k, Len(s.queue))]
        BY <3>1
    <3> HIDE DEF v, typed, k
    <3>3. [v EXCEPT !.queue = Tail(@)] = u
        BY <1>1, <3>2 DEF Coordinators, Filled
    <3>4. QED
        BY <3>3 DEF v
  <2>4. t = ApplyEditorInput(u, s.queue[k])
      BY <1>5, <2>3 DEF Replay
  <2> HIDE DEF k
  <2>5. q \in Seq(Keys) /\ Len(q) <= Len(s.queue) /\ s.queue[k] \in Keys
      BY <1>1, <2>2, QueueParts
  <2>6. typed \in SUBSET {s.turn}
    <3>1. \A i \in 1 .. k - 1 : i \in 1 .. Len(s.queue)
        BY <1>1, <2>2
    <3>2. QED
        BY <1>2, <3>1
  <2> HIDE DEF q, typed
  <2>7. /\ Coord(u) /\ u.editor \in Editors /\ u.editor.kind = s.editor.kind
        /\ u.editor.typed \subseteq {s.turn}
        /\ u.err = NoError /\ u.out = Quiet
        /\ u.phase = s.phase /\ u.attempt = s.attempt
        /\ u.draining = s.draining /\ u.told = s.told /\ u.turn = s.turn
        /\ u.next = s.next /\ Attempting(u) /\ Granted(u)
    <3>1. Refilled(s, u, q)
        BY <2>5, <2>6, FillKeeps
    <3>2. QED
        BY <3>1 DEF Refilled
  <2> HIDE DEF u
  <2>8. s.editor # NoEditor /\ u.editor # NoEditor
      BY <1>2, <2>7 DEF Editors, Kinds, NoEditor
  <2>9. s.queue[k].turn = s.turn /\ s.queue[k].key \in KeyNames
      BY <1>2, <2>2, <2>5 DEF Keys
  <2>10. u.next <= n + 2 /\ u.turn + 2 <= n + u.next - 1
      BY <1>1, <1>2, <2>2, <2>7 DEF Counted
  <2>11. Lives(u, t, n) \/ Fails(u, t)
    <3>1. s.queue[k].key # "text" \/ u.editor.kind = "binary"
        BY <2>2, <2>7
    <3>2. QED
        BY <1>1, <1>2, <2>4, <2>5, <2>7, <2>8, <2>9, <2>10, <3>1, EditKeeps
        DEF KeyNames
  <2>12. QED
      BY <2>7, <2>8, <2>11
      DEF Lives, Fails, Kept, Started, Answered, Withdrawn, Stopped, SameProcess
<1>6. QED
    BY <1>4, <1>5

\* A prompt opens a field, or is answered or cancelled by what was typed ahead.
Prompted(s, t) ==
    /\ SameProcess(s, t) /\ t.out = Quiet
    /\ t.phase = s.phase /\ t.attempt = s.attempt /\ t.draining = s.draining
    /\ t.editor # NoEditor

LEMMA PromptKeeps ==
    ASSUME NEW s, NEW n, Settled(s, n), s.editor = NoEditor,
           NEW kind \in Kinds, NEW t, t = ShowPrompt(s, kind)
    PROVE  \/ Fails(s, t) /\ (s.attempt # 0 \/ s.draining # 0)
           \/ /\ Coord(t) /\ Sound(t, n)
              /\ Prompted(s, t) \/ Answered(s, t) \/ Withdrawn(s, t)
           \/ s.attempt = 0 /\ s.draining = 0
<1>1. /\ s \in Coordinators /\ Len(s.queue) <= MaxQueue /\ s.err = NoError
      /\ s.out = Quiet /\ Attempting(s) /\ Typing(s) /\ Granted(s) /\ Counted(s, n)
    BY DEF Settled, Coord, Sound
<1>2. CASE s.attempt = 0
  <2>1. t = [s EXCEPT !.err = "PromptWithoutAttempt"]
      BY <1>1, <1>2 DEF ShowPrompt, Err
  <2>2. /\ t \in Coordinators /\ t.queue = s.queue /\ t.phase = s.phase
        /\ t.err = "PromptWithoutAttempt" /\ t.out = s.out
        /\ t.cancelled = s.cancelled /\ t.next = s.next
        /\ t.attempt = s.attempt /\ t.verdict = s.verdict
      BY <1>1, <2>1 DEF Coordinators, StackErrors
  <2>3. s.draining # 0 => Stopped(s, t)
      BY <1>1, <2>2 DEF Stopped, StackErrors, Attempting
  <2>4. Coord(t) /\ Granted(t)
      BY <1>1, <2>2 DEF Granted, Coord
  <2>5. QED
      BY <1>2, <2>3, <2>4 DEF Fails
<1>3. CASE s.attempt # 0
  <2> DEFINE e == [kind |-> kind, typed |-> {}]
             u == [s EXCEPT !.editor = e]
  <2>1. t = Replay(u)
      BY <1>1, <1>3 DEF ShowPrompt, Attempting
  <2>2. e \in Editors /\ e.typed = {} /\ e # NoEditor
      BY DEF Editors, Kinds, NoEditor
  <2> HIDE DEF e
  <2>3. /\ u \in Coordinators /\ u.queue = s.queue /\ u.editor = e
        /\ u.err = s.err /\ u.out = s.out
        /\ u.phase = s.phase /\ u.attempt = s.attempt /\ u.active = s.active
        /\ u.draining = s.draining /\ u.told = s.told /\ u.turn = s.turn
        /\ u.next = s.next /\ u.cancelled = s.cancelled /\ u.verdict = s.verdict
      BY <1>1, <2>2 DEF Coordinators
  <2> HIDE DEF u
  <2>4. Opened(u, n)
    <3>1. Attempting(u) /\ Granted(u) /\ Counted(u, n)
        BY <1>1, <2>3 DEF Attempting, Granted, Counted
    <3>2. \A i \in DOMAIN u.queue : u.queue[i].turn = u.turn
        BY <1>1, <2>3 DEF Typing
    <3>3. QED
        BY <1>1, <1>3, <2>2, <2>3, <3>1, <3>2 DEF Opened, Coord, Settled
  <2>5. Lives(u, t, n) \/ Fails(u, t)
      BY <2>1, <2>4, ReplayKeeps
  <2>6. u.out = Quiet /\ u.editor # NoEditor
      BY <1>1, <2>2, <2>3
  <2>7. QED
      BY <1>3, <2>3, <2>5, <2>6
      DEF Lives, Fails, Kept, Started, Answered, Withdrawn, Stopped,
          Prompted, SameProcess
<1>4. QED
    BY <1>2, <1>3

\* The end of the worker drains a cancelled attempt, refuses one or passes it.
Over(s, t, phase) ==
    /\ SameProcess(s, t) /\ t.phase = phase
    /\ t.attempt = 0 /\ t.draining = 0 /\ t.editor = NoEditor
Ended(s, t) ==
    \/ /\ s.draining # 0
       /\ \/ Over(s, t, "Locked") /\ t.out = Quiet
          \/ Started(s, t)
    \/ s.attempt # 0 /\ Over(s, t, "Locked") /\ t.out = Quiet
    \/ /\ s.attempt # 0 /\ Over(s, t, "UnlockAuthorized")
       /\ t.out = [Quiet EXCEPT !.unlock = TRUE]

LEMMA DrainKeeps ==
    ASSUME NEW s, NEW n, Settled(s, n), s.draining # 0, NEW outcome \in Outcomes,
           NEW t, t = AuthenticationFinished(s, s.draining, outcome)
    PROVE  Coord(t) /\ Sound(t, n) /\ Ended(s, t)
<1>1. /\ s \in Coordinators /\ Len(s.queue) <= MaxQueue /\ s.err = NoError
      /\ s.out = Quiet /\ Attempting(s) /\ Typing(s) /\ Granted(s) /\ Counted(s, n)
      /\ n \in 0 .. MaxKeys /\ s.phase = "Locked" /\ s.attempt = 0
      /\ s.editor = NoEditor /\ s.told /\ s.next # 0
    BY DEF Settled, Coord, Sound, Attempting, Typing
<1> DEFINE u == [s EXCEPT !.draining = 0]
<1>2. /\ u \in Coordinators /\ u.queue = s.queue /\ u.editor = s.editor
      /\ u.err = s.err /\ u.out = s.out /\ u.draining = 0
      /\ u.phase = s.phase /\ u.attempt = s.attempt /\ u.active = s.active
      /\ u.told = s.told /\ u.turn = s.turn
      /\ u.next = s.next /\ u.cancelled = s.cancelled /\ u.verdict = s.verdict
    BY <1>1, ZenonT(60) DEF Coordinators, AttemptIds
<1>3. t = IF s.queue # <<>> THEN StartAuthentication(u) ELSE u
    BY <1>1 DEF AuthenticationFinished
<1> HIDE DEF u
<1>4. Granted(u) /\ Coord(u)
    BY <1>1, <1>2 DEF Granted, Coord
<1>5. CASE s.queue = <<>>
  <2>1. Attempting(u) /\ Typing(u) /\ Counted(u, n)
      BY <1>1, <1>2, <1>5 DEF Attempting, Typing, Counted
  <2>2. QED
      BY <1>1, <1>2, <1>3, <1>4, <1>5, <2>1
      DEF Sound, Ended, Over, SameProcess
<1>6. CASE s.queue # <<>>
  <2>1. /\ u.next <= n + 1 /\ u.turn + Len(u.queue) <= n + u.next - 1
        /\ \A i \in DOMAIN u.queue : u.queue[i].turn = u.turn
      BY <1>1, <1>2, <1>6 DEF Counted, Typing
  <2>2. Coord(t) /\ Sound(t, n) /\ Started(u, t)
      BY <1>1, <1>2, <1>3, <1>4, <1>6, <2>1, StartKeeps
  <2>3. Started(s, t)
      BY <1>1, <1>2, <2>2 DEF Started, SameProcess
  <2>4. QED
      BY <2>2, <2>3 DEF Ended
<1>7. QED
    BY <1>5, <1>6

LEMMA VerdictKeeps ==
    ASSUME NEW s, NEW n, Settled(s, n), s.attempt # 0, NEW outcome \in Outcomes,
           NEW t, t = AuthenticationFinished(s, s.attempt, outcome)
    PROVE  Fails(s, t) \/ (Coord(t) /\ Sound(t, n) /\ Ended(s, t))
<1>1. /\ s \in Coordinators /\ Len(s.queue) <= MaxQueue /\ s.err = NoError
      /\ s.out = Quiet /\ Attempting(s) /\ Typing(s) /\ Granted(s) /\ Counted(s, n)
      /\ n \in 0 .. MaxKeys /\ s.phase = "Authenticating" /\ s.draining = 0
      /\ s.active = s.attempt /\ s.told /\ s.attempt = s.next - 1
      /\ s.turn \in Nat /\ s.next \in Nat /\ s.next \in AttemptIds
      /\ Len(s.queue) \in Nat /\ n \in Nat /\ MaxQueue \in Nat
    BY ProviderAssumption, LenProperties
    DEF Settled, Coord, Sound, Attempting, Coordinators, AttemptIds, Turns
<1>2. CASE outcome = "Panicked"
  <2>1. t = [s EXCEPT !.err = "Panicked"]
      BY <1>1, <1>2 DEF AuthenticationFinished, Err
  <2>2. /\ t \in Coordinators /\ t.queue = s.queue /\ t.phase = s.phase
        /\ t.err = "Panicked" /\ t.out = s.out
        /\ t.cancelled = s.cancelled /\ t.next = s.next
        /\ t.attempt = s.attempt /\ t.verdict = s.verdict
      BY <1>1, <2>1 DEF Coordinators, StackErrors
  <2>3. QED
      BY <1>1, <2>2 DEF Fails, Coord, Stopped, StackErrors, Granted
<1>3. CASE outcome # "Panicked"
  <2> DEFINE v == [s EXCEPT !.attempt = 0, !.editor = NoEditor, !.queue = <<>>,
                            !.turn = @ + 1, !.verdict = outcome]
             w(good) == IF good THEN [v EXCEPT !.out.unlock = TRUE] ELSE v
             phase(good) == IF good THEN "UnlockAuthorized" ELSE "Locked"
             u == Settle(w(outcome = "Succeeded"), s.attempt,
                         phase(outcome = "Succeeded"))
  <2>1. t = u
      BY <1>1, <1>3 DEF AuthenticationFinished
  <2>2. s.turn + 1 \in Turns
    <3>1. s.turn + Len(s.queue) < n + s.next - 1 /\ s.next <= n + 2
        BY <1>1, <1>3 DEF Counted
    <3>2. s.turn + 1 <= n + n + 2
        BY <1>1, <3>1
    <3>3. QED
        BY <1>1, <3>2, ProviderAssumption DEF Turns
  <2>10. /\ v \in Coordinators /\ v.queue = <<>> /\ v.editor = NoEditor
         /\ v.err = NoError /\ v.out = Quiet
         /\ v.draining = 0 /\ v.attempt = 0 /\ v.active = s.attempt
         /\ v.phase = "Authenticating" /\ v.told = s.told
         /\ v.turn = s.turn + 1 /\ v.next = s.next
         /\ v.cancelled = s.cancelled /\ v.verdict = outcome
      BY <1>1, <2>2, EmptyQueue DEF Coordinators, AttemptIds, Outcomes
  <2> HIDE DEF v
  <2>3. /\ u \in Coordinators /\ u.queue = <<>> /\ u.editor = NoEditor
        /\ u.err = NoError
        /\ u.draining = 0 /\ u.attempt = 0 /\ u.active = 0
        /\ u.told = s.told /\ u.turn = s.turn + 1
        /\ u.next = s.next /\ u.cancelled = s.cancelled /\ u.verdict = outcome
        /\ \/ outcome = "Succeeded" /\ u.phase = "UnlockAuthorized"
              /\ u.out = [Quiet EXCEPT !.unlock = TRUE]
           \/ u.phase = "Locked" /\ u.out = Quiet
    <3>1. CASE outcome = "Succeeded"
      <4>1. u = [v EXCEPT !.out = [Quiet EXCEPT !.unlock = TRUE], !.active = 0,
                          !.phase = "UnlockAuthorized"]
          BY <2>10, <3>1 DEF Settle, Coordinators
      <4> DEFINE o == [Quiet EXCEPT !.unlock = TRUE]
      <4>2. o \in [ready : BOOLEAN, start : AttemptIds, unlock : BOOLEAN,
                   exit : BOOLEAN, reply : {"none", "answer", "cancel"}]
          BY <2>10 DEF Coordinators
      <4>3. u = [v EXCEPT !.out = o, !.active = 0, !.phase = "UnlockAuthorized"]
          BY <4>1
      <4> HIDE DEF o, u
      <4>4. u \in Coordinators
          BY <2>10, <4>2, <4>3 DEF Coordinators, AttemptIds, Phases
      <4>5. u.phase = "UnlockAuthorized" /\ u.out = o /\ u.active = 0
          BY <2>10, <4>3 DEF Coordinators
      <4>6. QED
          BY <2>10, <3>1, <4>3, <4>4, <4>5 DEF Coordinators, o
    <3>2. CASE outcome # "Succeeded"
      <4>1. u = [v EXCEPT !.active = 0, !.phase = "Locked"]
          BY <2>10, <3>2 DEF Settle
      <4>2. QED
          BY <2>10, <3>2, <4>1 DEF Coordinators, AttemptIds, Phases
    <3>3. QED
        BY <3>1, <3>2
  <2> HIDE DEF u
  <2>4. Attempting(u) /\ Typing(u)
      BY <1>1, <2>3 DEF Attempting, Typing, NoEditor
  <2>5. Granted(u)
      BY <1>1, <2>3 DEF Granted
  <2>6. Counted(u, n)
      BY <1>1, <2>3, EmptyQueue DEF Counted
  <2>7. Coord(u) /\ Sound(u, n)
      BY <1>1, <2>3, <2>4, <2>5, <2>6, EmptyQueue DEF Coord, Sound
  <2>8. Ended(s, u)
      BY <1>1, <2>3 DEF Ended, Over, SameProcess, Quiet
  <2>9. QED
      BY <2>1, <2>7, <2>8
<1>4. QED
    BY <1>2, <1>3

\* The compositor finishes the lock: no attempt is left.
Exiting == [Quiet EXCEPT !.exit = TRUE]

LEMMA FinishKeeps ==
    ASSUME NEW s, NEW n, Settled(s, n), s.phase \notin Terminal,
           s.phase # "UnlockAuthorized", NEW t, t = LockFinished(s)
    PROVE  /\ Coord(t) /\ Sound(t, n) /\ SameProcess(s, t) /\ t.out = Exiting
           /\ t.phase = IF s.told THEN "FailedLocked" ELSE "Denied"
           /\ t.attempt = 0 /\ t.draining = 0 /\ t.editor = NoEditor
<1>1. /\ s \in Coordinators /\ Len(s.queue) <= MaxQueue /\ s.err = NoError
      /\ s.out = Quiet /\ Attempting(s) /\ Typing(s) /\ Granted(s) /\ Counted(s, n)
      /\ n \in 0 .. MaxKeys /\ s.turn \in Nat /\ s.next \in Nat /\ n \in Nat
      /\ Len(s.queue) \in Nat /\ MaxQueue \in Nat /\ s.told \in BOOLEAN
    BY ProviderAssumption, LenProperties
    DEF Settled, Coord, Sound, Coordinators, AttemptIds, Turns
<1> DEFINE v == [s EXCEPT !.editor = NoEditor, !.queue = <<>>,
                          !.attempt = 0, !.draining = 0]
           u == CompositorFinished(v)
           phase == IF s.told THEN "FailedLocked" ELSE "Denied"
<1>2. t = u
    BY DEF LockFinished
<1>3. /\ v \in Coordinators /\ v.queue = <<>> /\ v.editor = NoEditor
      /\ v.err = NoError /\ v.out = Quiet /\ v.draining = 0 /\ v.attempt = 0
      /\ v.phase = s.phase /\ v.told = s.told /\ v.turn = s.turn
      /\ v.next = s.next /\ v.cancelled = s.cancelled /\ v.verdict = s.verdict
  <2>1. 0 \in AttemptIds
      BY ProviderAssumption DEF AttemptIds
  <2>2. QED
      BY <1>1, <2>1, EmptyQueue DEF Coordinators
<1> HIDE DEF v
<1>4. Exiting \in [ready : BOOLEAN, start : AttemptIds, unlock : BOOLEAN,
                   exit : BOOLEAN, reply : {"none", "answer", "cancel"}]
    BY <1>3 DEF Coordinators, Exiting
<1>5. u = [v EXCEPT !.active = 0, !.out = Exiting, !.phase = phase]
    BY <1>3 DEF CompositorFinished, Coordinators, Exiting
<1>6. phase \in Phases /\ 0 \in AttemptIds
    BY <1>3 DEF Phases, Coordinators
<1>7. phase \in {"FailedLocked", "Denied"} /\ (phase = "Denied" <=> ~s.told)
    BY <1>1
<1> HIDE DEF u, phase
<1>8. /\ u \in Coordinators /\ u.queue = <<>> /\ u.editor = NoEditor
      /\ u.err = NoError /\ u.out = Exiting /\ u.draining = 0 /\ u.attempt = 0
      /\ u.phase = phase /\ u.told = s.told /\ u.turn = s.turn /\ u.active = 0
      /\ u.next = s.next /\ u.cancelled = s.cancelled /\ u.verdict = s.verdict
    BY <1>3, <1>4, <1>5, <1>6 DEF Coordinators
<1>9. Attempting(u) /\ Typing(u)
    BY <1>1, <1>7, <1>8 DEF Attempting, Typing, NoEditor
<1>10. Granted(u)
  <2>1. s.cancelled \subseteq Nat
      BY <1>1 DEF Coordinators, AttemptIds
  <2>2. \A a \in s.cancelled : a # 0 /\ a < s.next
      BY <1>1 DEF Granted
  <2>3. QED
      BY <1>7, <1>8, <2>2 DEF Granted
<1>11. Counted(u, n)
  <2>1. s.next <= n + 2 /\ s.turn + Len(s.queue) <= n + s.next - 1
      BY <1>1 DEF Counted
  <2>2. u.next <= n + 2
      BY <1>8, <2>1
  <2>3. u.turn + Len(u.queue) <= n + u.next - 1
    <3>1. Len(u.queue) = 0 /\ u.turn = s.turn /\ u.next = s.next
        BY <1>8, EmptyQueue
    <3>4. /\ s.turn \in Nat /\ s.next \in Nat /\ n \in Nat
          /\ Len(s.queue) \in Nat /\ s.turn + Len(s.queue) <= n + s.next - 1
        BY <1>1, <2>1
    <3>2. s.turn <= n + s.next - 1
        BY <3>4
    <3>3. QED
        BY <1>1, <3>1, <3>2
  <2>4. QED
      BY <1>8, <2>2, <2>3 DEF Counted
<1>12. QED
    BY <1>1, <1>2, <1>8, <1>9, <1>10, <1>11, EmptyQueue
    DEF Coord, Sound, SameProcess, phase

\* The unlock went out: the process may leave.
LEMMA CommitKeeps ==
    ASSUME NEW s, NEW n, Settled(s, n), s.phase = "UnlockAuthorized",
           NEW t, t = UnlockCommitted(s)
    PROVE  /\ Coord(t) /\ Sound(t, n) /\ SameProcess(s, t) /\ t.out = Exiting
           /\ t.phase = "Finished" /\ t.attempt = s.attempt
           /\ t.draining = s.draining /\ t.editor = s.editor
<1>1. /\ s \in Coordinators /\ Len(s.queue) <= MaxQueue /\ s.err = NoError
      /\ s.out = Quiet /\ Attempting(s) /\ Typing(s) /\ Granted(s) /\ Counted(s, n)
    BY DEF Settled, Coord, Sound
<1>2. Exiting \in [ready : BOOLEAN, start : AttemptIds, unlock : BOOLEAN,
                   exit : BOOLEAN, reply : {"none", "answer", "cancel"}]
    BY <1>1 DEF Coordinators, Exiting
<1>3. t = [s EXCEPT !.out = Exiting, !.phase = "Finished"]
    BY <1>1 DEF UnlockCommitted, Coordinators, Exiting
<1>4. /\ t \in Coordinators /\ t.queue = s.queue /\ t.editor = s.editor
      /\ t.err = NoError /\ t.out = Exiting /\ t.draining = s.draining
      /\ t.attempt = s.attempt /\ t.active = s.active
      /\ t.phase = "Finished" /\ t.told = s.told /\ t.turn = s.turn
      /\ t.next = s.next /\ t.cancelled = s.cancelled /\ t.verdict = s.verdict
  <2>1. t \in Coordinators
      BY <1>1, <1>2, <1>3 DEF Coordinators, Phases
  <2>2. t.phase = "Finished" /\ t.out = Exiting
      BY <1>1, <1>3 DEF Coordinators
  <2>3. QED
      BY <1>1, <1>3, <2>1, <2>2 DEF Coordinators
<1>5. Attempting(t) /\ Typing(t) /\ Granted(t) /\ Counted(t, n)
    BY <1>1, <1>4 DEF Attempting, Typing, Granted, Counted
<1>6. QED
    BY <1>1, <1>4, <1>5 DEF Coord, Sound, SameProcess

\* The lock is granted: the first attempt starts without a key.
Acquired(t) == [Quiet EXCEPT !.ready = TRUE, !.start = t.attempt]

LEMMA AcquireKeeps ==
    ASSUME NEW s, NEW n, Settled(s, n), s.phase = "Acquiring",
           NEW t, t = StartAuthentication(CompositorLocked(s))
    PROVE  /\ Coord(t) /\ Sound(t, n) /\ t.err = NoError /\ t.told
           /\ t.out = Acquired(t)
           /\ t.phase = "Authenticating" /\ t.attempt # 0 /\ t.draining = 0
           /\ t.editor = NoEditor
<1>1. /\ s \in Coordinators /\ Len(s.queue) <= MaxQueue /\ s.err = NoError
      /\ s.out = Quiet /\ Attempting(s) /\ Typing(s) /\ Granted(s) /\ Counted(s, n)
      /\ n \in 0 .. MaxKeys /\ s.next = 1 /\ ~s.told /\ s.attempt = 0
      /\ s.draining = 0 /\ s.queue = <<>> /\ s.editor = NoEditor
      /\ n \in Nat /\ s.turn \in Nat
    BY ProviderAssumption
    DEF Settled, Coord, Sound, Attempting, Typing, Coordinators, Turns
<1> DEFINE o == [Quiet EXCEPT !.ready = TRUE]
           u == CompositorLocked(s)
<1>2. o \in [ready : BOOLEAN, start : AttemptIds, unlock : BOOLEAN,
             exit : BOOLEAN, reply : {"none", "answer", "cancel"}]
    BY <1>1 DEF Coordinators
<1>3. u = [s EXCEPT !.phase = "Locked", !.told = TRUE, !.out = o]
    BY <1>1 DEF CompositorLocked, Coordinators
<1> HIDE DEF o, u
<1>4. /\ u \in Coordinators /\ u.queue = s.queue /\ u.editor = s.editor
      /\ u.err = NoError /\ u.out = o /\ u.draining = 0
      /\ u.attempt = 0 /\ u.phase = "Locked" /\ u.told /\ u.turn = s.turn
      /\ u.next = 1 /\ u.cancelled = s.cancelled /\ u.verdict = s.verdict
    BY <1>1, <1>2, <1>3 DEF Coordinators, Phases
<1>5. Granted(u)
    BY <1>1, <1>4 DEF Granted
<1>6. u.turn + Len(u.queue) <= n + u.next - 1
    BY <1>1, <1>4, EmptyQueue DEF Counted
<1>7. \A i \in DOMAIN u.queue : u.queue[i].turn = u.turn
    BY <1>1, <1>4, EmptyQueue
<1>8. Coord(t) /\ Sound(t, n) /\ Started(u, t)
    BY <1>1, <1>4, <1>5, <1>6, <1>7, StartKeeps DEF Coord, u
<1>9. t.out = Acquired(t)
    BY <1>4, <1>8 DEF Started, Acquired, o
<1>10. QED
    BY <1>4, <1>8, <1>9 DEF Started, SameProcess

-----------------------------------------------------------------------------
(* The steps of the process *)

Workers == [st : {"none", "run", "asking", "shown"} \cup Outcomes,
            kind : {"none"} \cup Kinds, asked : 0 .. MaxPrompts]
Procs == [pc : {"events", "auth", "apply"}, pending : BOOLEAN,
          exit : {"none", "AuthenticatedUnlock", "Denied", "FailedLocked"},
          ready : BOOLEAN, notified : BOOLEAN, flushed : BOOLEAN,
          end : {"running", "failed", "left"}]
Surroundings ==
    /\ session \in {"open", "locked"} /\ hint \in BOOLEAN
    /\ sent \in {<<>>, <<"locked">>, <<"finished">>, <<"locked", "finished">>}
    /\ wire \in {"AwaitingDecision", "Locked", "Finished", "UnlockSent"}
    /\ keys \in 0..MaxKeys

\* What the pump and the loop are made of.
Parts == Surroundings /\ Coord(c) /\ auth \in AttemptIds
            /\ worker \in Workers /\ proc \in Procs

LEMMA TypeIsParts == ProviderTypeOK <=> Parts
BY DEF ProviderTypeOK, Parts, Surroundings, Coord, Workers, Procs

LEMMA RunningParts ==
    ASSUME ProviderInv, Alive
    PROVE  /\ Parts /\ Settled(c, keys) /\ Sound(c, keys) /\ c.out = Quiet
           /\ Pumping /\ Wired /\ Looping
           /\ NoWorker \in Workers /\ 0 \in AttemptIds
BY ProviderAssumption, TypeIsParts
DEF ProviderInv, Running, Parts, Settled, Surroundings, Workers, NoWorker, AttemptIds

\* The process goes on, or it has ended.
LEMMA GoesOn ==
    ASSUME Parts', Alive', (c.out = Quiet)', Running'
    PROVE  ProviderInv'
<1>1. ProviderTypeOK'
    BY TypeIsParts, PTL
<1>2. AuthorityFromPam' /\ NoErrorOfItsOwn'
    BY DEF Running, Sound, Granted, AuthorityFromPam, NoErrorOfItsOwn,
           NoError, OwnErrors
<1>3. QED
    BY <1>1, <1>2 DEF ProviderInv

LEMMA HasEnded ==
    ASSUME Parts', (~Alive)', (c.out = Quiet)', auth' = 0, worker' = NoWorker,
           AuthorityFromPam', NoErrorOfItsOwn'
    PROVE  ProviderInv'
<1>1. ProviderTypeOK'
    BY TypeIsParts, PTL
<1>2. QED
    BY <1>1 DEF ProviderInv

\* The program stops with the state s.
LEMMA DieKeeps ==
    ASSUME ProviderInv, Alive, NEW s, Coord(s), Granted(s), NEW e,
           s.err \in {NoError} \cup StackErrors, e \in {NoError} \cup StackErrors,
           DieOf(s, e), Surroundings'
    PROVE  ProviderInv'
<1>1. Parts /\ NoWorker \in Workers /\ 0 \in AttemptIds /\ c.out = Quiet
    BY RunningParts
<1>2. Quiet \in [ready : BOOLEAN, start : AttemptIds, unlock : BOOLEAN,
                 exit : BOOLEAN, reply : {"none", "answer", "cancel"}]
    BY <1>1 DEF Parts, Coord, Coordinators
<1> DEFINE u == [s EXCEPT !.out = Quiet]
<1>3. /\ u \in Coordinators /\ u.queue = s.queue /\ u.out = Quiet
      /\ u.err = s.err /\ u.phase = s.phase /\ u.verdict = s.verdict
      /\ u.next = s.next /\ u.cancelled = s.cancelled
    BY <1>2 DEF Coord, Coordinators
<1> HIDE DEF u
<1>4. c' = u \/ c' = [u EXCEPT !.err = e]
    BY DEF DieOf, Err, u
<1>5. /\ c' \in Coordinators /\ c'.queue = s.queue /\ c'.out = Quiet
      /\ c'.err \in {NoError} \cup StackErrors
      /\ c'.phase = s.phase /\ c'.verdict = s.verdict
      /\ c'.next = s.next /\ c'.cancelled = s.cancelled
    BY <1>3, <1>4 DEF Coordinators
<1>6. /\ auth' = 0 /\ worker' = NoWorker /\ proc' \in Procs
      /\ proc'.end = "failed"
    BY <1>1 DEF DieOf, Die, Parts, Procs
<1>7. Parts'
    BY <1>1, <1>5, <1>6 DEF Parts, Coord
<1>8. AuthorityFromPam' /\ NoErrorOfItsOwn'
    BY <1>5 DEF Granted, AuthorityFromPam, NoErrorOfItsOwn, NoError,
                StackErrors, OwnErrors
<1>9. QED
    BY <1>5, <1>6, <1>7, <1>8, HasEnded DEF Alive

\* A coordinator once its actions are taken.
LEMMA QuietKeeps ==
    ASSUME NEW s, NEW n, Coord(s), Sound(s, n), NEW t,
           t = [s EXCEPT !.out = Quiet], Quiet = c.out, Coord(c)
    PROVE  /\ Coord(t) /\ Sound(t, n) /\ t.out = Quiet /\ t.err = s.err
           /\ t.phase = s.phase /\ t.told = s.told /\ t.attempt = s.attempt
           /\ t.draining = s.draining /\ t.editor = s.editor
<1>1. Quiet \in [ready : BOOLEAN, start : AttemptIds, unlock : BOOLEAN,
                 exit : BOOLEAN, reply : {"none", "answer", "cancel"}]
    BY DEF Coord, Coordinators
<1>2. /\ t \in Coordinators /\ t.queue = s.queue /\ t.out = Quiet
      /\ t.err = s.err /\ t.phase = s.phase /\ t.verdict = s.verdict
      /\ t.next = s.next /\ t.cancelled = s.cancelled /\ t.told = s.told
      /\ t.attempt = s.attempt /\ t.active = s.active
      /\ t.draining = s.draining /\ t.editor = s.editor /\ t.turn = s.turn
    BY <1>1 DEF Coord, Coordinators
<1>3. Attempting(t) /\ Typing(t) /\ Granted(t) /\ Counted(t, n)
    BY <1>2 DEF Sound, Attempting, Typing, Granted, Counted
<1>4. QED
    BY <1>2, <1>3 DEF Coord, Sound

\* What the pump does with a coordinator s that has not failed: Execute
\* without its errors.
Executed(s, held, w, pc) ==
    /\ c' = [s EXCEPT !.out = Quiet]
    /\ auth' = IF s.out.start # 0 THEN s.out.start ELSE held
    /\ worker' = IF s.out.start # 0 THEN [NoWorker EXCEPT !.st = "run"]
                 ELSE IF s.out.reply # "none" THEN [w EXCEPT !.st = "run"]
                 ELSE w
    /\ proc' = [proc EXCEPT !.pc = IF s.out.exit THEN "apply" ELSE pc,
                            !.pending = @ \/ s.out.ready,
                            !.exit = ExitOf(s)]

LEMMA ExecuteRuns ==
    ASSUME NEW s, NEW held, NEW w, NEW pc, Execute(s, held, w, pc),
           s.err = NoError, s.out.reply # "none" => w.st = "shown",
           s.out.start # 0 => held = 0
    PROVE  Executed(s, held, w, pc)
BY DEF Execute, Executed

\* A stack error ends the process.
LEMMA ExecuteFails ==
    ASSUME NEW s, NEW held, NEW w, NEW pc, Execute(s, held, w, pc), NEW r,
           Fails(r, s), ProviderInv, Alive, Surroundings'
    PROVE  ProviderInv' /\ proc'.end = "failed"
<1>1. s.err \in StackErrors /\ s.err # NoError /\ Coord(s) /\ Granted(s)
    BY DEF Fails, Stopped, StackErrors, NoError
<1>2. DieOf(s, s.err)
    BY <1>1 DEF Execute
<1>3. proc'.end = "failed"
    BY <1>2, RunningParts DEF DieOf, Die, Parts, Procs
<1>4. QED
    BY <1>1, <1>2, <1>3, DieKeeps

\* How the loop goes on after the coordinator's step, by what it asked for.
LEMMA ExecutedKeeps ==
    ASSUME ProviderInv, Alive, NEW s, NEW n \in 0 .. MaxKeys, keys' = n,
           Coord(s), Sound(s, n), s.err = NoError,
           NEW held \in AttemptIds, NEW w \in Workers, NEW pc \in {"events", "auth", "apply"},
           Executed(s, held, w, pc), Surroundings',
           s.out.exit => s.phase \in Terminal
    PROVE  /\ Parts' /\ c'.out = Quiet /\ c'.err = NoError /\ Sound(c', keys')
           /\ c'.phase = s.phase /\ c'.told = s.told /\ c'.attempt = s.attempt
           /\ c'.draining = s.draining /\ c'.editor = s.editor
           /\ proc'.pc = (IF s.out.exit THEN "apply" ELSE pc)
           /\ proc'.pending = (proc.pending \/ s.out.ready)
           /\ proc'.exit = ExitOf(s)
           /\ proc'.ready = proc.ready /\ proc'.notified = proc.notified
           /\ proc'.flushed = proc.flushed /\ proc'.end = "running"
<1>1. Parts /\ c.out = Quiet /\ NoWorker \in Workers /\ proc.end = "running"
    BY RunningParts DEF Alive
<1>2. /\ Coord(c') /\ Sound(c', n) /\ c'.out = Quiet /\ c'.err = NoError
      /\ c'.phase = s.phase /\ c'.told = s.told /\ c'.attempt = s.attempt
      /\ c'.draining = s.draining /\ c'.editor = s.editor
    BY <1>1, QuietKeeps DEF Executed, Parts
<1>3. s.out \in [ready : BOOLEAN, start : AttemptIds, unlock : BOOLEAN,
                 exit : BOOLEAN, reply : {"none", "answer", "cancel"}]
    BY DEF Coord, Coordinators
<1>4. auth' \in AttemptIds /\ worker' \in Workers
  <2>1. [NoWorker EXCEPT !.st = "run"] \in Workers /\ [w EXCEPT !.st = "run"] \in Workers
      BY <1>1 DEF Workers
  <2>2. QED
      BY <1>3, <2>1 DEF Executed
<1>5. ExitOf(s) \in {"none", "AuthenticatedUnlock", "Denied", "FailedLocked"}
    BY DEF ExitOf, Terminal
<1> DEFINE p == IF s.out.exit THEN "apply" ELSE pc
           r == proc.pending \/ s.out.ready
           x == ExitOf(s)
<1>6. p \in {"events", "auth", "apply"} /\ r \in BOOLEAN
    BY <1>1, <1>3 DEF Parts, Procs
<1>7. proc' = [proc EXCEPT !.pc = p, !.pending = r, !.exit = x]
    BY DEF Executed
<1> HIDE DEF p, r, x
<1>8. /\ proc' \in Procs /\ proc'.pc = p /\ proc'.pending = r /\ proc'.exit = x
      /\ proc'.ready = proc.ready /\ proc'.notified = proc.notified
      /\ proc'.flushed = proc.flushed /\ proc'.end = "running"
    BY <1>1, <1>5, <1>6, <1>7 DEF Parts, Procs, x
<1>9. Parts'
    BY <1>2, <1>4, <1>8 DEF Parts
<1>10. QED
    BY <1>2, <1>8, <1>9 DEF p, r, x

\* A step of SecureLock, or none, under the refinement mapping.
LockStep == [Lock!Next]_(Lock!vars)

LEMMA SameView ==
    ASSUME session' = session, LockerOf' = LockerOf, AttemptOf' = AttemptOf
    PROVE  LockStep
BY DEF LockStep, Lock!vars

LEMMA FailView ==
    ASSUME Alive, session' = session, proc'.end = "failed"
    PROVE  LockStep
<1>1. LockerOf \notin {"gone", "done"} /\ LockerOf' = "gone" /\ AttemptOf' = "none"
    BY DEF Alive, LockerOf, AttemptOf
<1>2. QED
    BY <1>1 DEF LockStep, Lock!Next, Lock!Fail

\* The mapping while the process runs depends on little.
LEMMA Views ==
    /\ Alive /\ c.told /\ ~proc.notified => LockerOf = "holding"
    /\ Alive /\ proc.notified => LockerOf = "ready"
    /\ Alive /\ c.attempt # 0 /\ c.phase = "Authenticating" => AttemptOf = "running"
    /\ Alive /\ c.attempt = 0 /\ c.draining # 0 /\ c.phase = "Locked"
         => AttemptOf = "cancelled"
    /\ Alive /\ c.attempt = 0 /\ c.draining = 0
         /\ c.phase \notin {"UnlockAuthorized", "Finished"} => AttemptOf = "none"
    /\ Alive /\ c.phase \in {"UnlockAuthorized", "Finished"} => AttemptOf = "passed"
BY DEF Alive, LockerOf, AttemptOf

LEMMA InputStep ==
    ASSUME ProviderInv, NEW key \in KeyNames, Input(key)
    PROVE  ProviderInv' /\ LockStep
<1> DEFINE k == [key |-> key, turn |-> c.turn]
           s == HandleInput(c, k)
<1>1. /\ Parts /\ Settled(c, keys) /\ c.out = Quiet /\ Alive
      /\ Pumping /\ Wired /\ Looping /\ c.told \in BOOLEAN
      /\ NoWorker \in Workers /\ 0 \in AttemptIds
      /\ proc.pc = "events" /\ keys \in Nat /\ keys + 1 <= MaxKeys
      /\ keys' = keys + 1 /\ keys' \in 0 .. MaxKeys
      /\ Execute(s, auth, worker, "events")
      /\ session' = session /\ sent' = sent /\ wire' = wire /\ hint' = hint
      /\ auth \in AttemptIds /\ worker \in Workers
    BY RunningParts, ProviderAssumption
    DEF Input, Parts, Surroundings, Coord, Coordinators
<1>2. Attempting(c) /\ Typing(c) /\ c.phase \notin Terminal /\ c.err = NoError
    BY <1>1 DEF Settled, Sound, Looping
<1>3. k \in Keys /\ k.turn = c.turn
    BY <1>1 DEF Keys, Parts, Coord, Coordinators
<1>4. Surroundings'
    BY <1>1 DEF Parts, Surroundings
<1>5. (Coord(s) /\ Sound(s, keys + 1) /\ Moves(c, s)) \/ Fails(c, s)
    BY <1>1, <1>3, InputKeeps
<1> HIDE DEF s, k
<1>6. CASE Fails(c, s)
    BY <1>1, <1>4, <1>6, ExecuteFails, FailView
<1>7. CASE Coord(s) /\ Sound(s, keys + 1) /\ Moves(c, s)
  <2>1. s.err = NoError /\ ~s.out.exit /\ ~s.out.ready /\ s.told = c.told
      BY <1>1, <1>7 DEF Moves, Kept, Started, Answered, Withdrawn, SameProcess, Quiet
  <2>2. /\ s.out.reply # "none" => worker.st = "shown"
        /\ s.out.start # 0 => auth = 0
      BY <1>1, <1>2, <1>7
      DEF Moves, Kept, Started, Answered, Withdrawn, Quiet, Pumping
  <2>3. Executed(s, auth, worker, "events")
      BY <1>1, <2>1, <2>2, ExecuteRuns
  <2>4. /\ Parts' /\ c'.out = Quiet /\ c'.err = NoError /\ Sound(c', keys')
        /\ c'.phase = s.phase /\ c'.told = s.told /\ c'.attempt = s.attempt
        /\ c'.draining = s.draining /\ c'.editor = s.editor
        /\ proc'.pc = "events" /\ proc'.pending = proc.pending
        /\ proc'.exit = "none"
        /\ proc'.ready = proc.ready /\ proc'.notified = proc.notified
        /\ proc'.flushed = proc.flushed /\ proc'.end = "running"
    <3>1. /\ Parts' /\ c'.out = Quiet /\ c'.err = NoError /\ Sound(c', keys')
          /\ c'.phase = s.phase /\ c'.told = s.told /\ c'.attempt = s.attempt
          /\ c'.draining = s.draining /\ c'.editor = s.editor
          /\ proc'.pc = (IF s.out.exit THEN "apply" ELSE "events")
          /\ proc'.pending = (proc.pending \/ s.out.ready)
          /\ proc'.exit = ExitOf(s)
          /\ proc'.ready = proc.ready /\ proc'.notified = proc.notified
          /\ proc'.flushed = proc.flushed /\ proc'.end = "running"
        BY <1>1, <1>4, <1>7, <2>1, <2>3, ExecutedKeeps
    <3>2. proc.pending \in BOOLEAN
        BY <1>1 DEF Parts, Procs
    <3>3. QED
        BY <2>1, <3>1, <3>2 DEF ExitOf
  <2>5. /\ s.out.start = 0 /\ auth' = auth
           /\ worker' = IF s.out.reply = "none" THEN worker
                        ELSE [worker EXCEPT !.st = "run"]
        \/ /\ s.out.start # 0 /\ auth' = s.out.start
           /\ worker' = [NoWorker EXCEPT !.st = "run"]
      BY <2>3 DEF Executed
  <2>6. Pumping' /\ Wired' /\ Looping' /\ LockStep
    <3>1. CASE Kept(c, s)
      <4>1. Pumping'
          BY <1>1, <1>2, <2>2, <2>4, <2>5, <3>1
          DEF Pumping, Kept, Quiet, Workers, NoWorker, Outcomes, Attempting
      <4>2. Wired'
          BY <1>1, <1>2, <2>4, <3>1 DEF Wired, Kept
      <4>3. Looping'
          BY <1>1, <1>2, <2>1, <2>4, <3>1 DEF Looping, Kept, Terminal
      <4>4. LockStep
        <5>1. LockerOf' = LockerOf /\ AttemptOf' = AttemptOf
            BY <1>1, <2>1, <2>4, <3>1 DEF LockerOf, AttemptOf, Alive, Kept
        <5>2. QED
            BY <1>1, <5>1, SameView
      <4>5. QED
          BY <4>1, <4>2, <4>3, <4>4
    <3>2. CASE Started(c, s) /\ c.draining = 0
      <4>1. Pumping'
          BY <1>1, <1>2, <2>2, <2>4, <2>5, <3>2
          DEF Pumping, Started, Quiet, Workers, NoWorker, Outcomes, Attempting
      <4>2. Wired'
          BY <1>1, <1>2, <2>4, <3>2 DEF Wired, Started
      <4>3. Looping'
          BY <1>1, <1>2, <2>1, <2>4, <3>2 DEF Looping, Started, Terminal
      <4>4. LockStep
        <5>1. LockerOf' = LockerOf
            BY <1>1, <2>1, <2>4 DEF LockerOf, Alive
        <5>2. Lock!Begin
            BY <1>1, <1>2, <2>1, <2>4, <3>2, <5>1
            DEF Lock!Begin, Lock!Holding, LockerOf, AttemptOf, Alive, Started,
                Attempting
        <5>3. QED
            BY <5>2 DEF LockStep, Lock!Next
      <4>5. QED
          BY <4>1, <4>2, <4>3, <4>4
    <3>3. CASE Answered(c, s) /\ c.editor # NoEditor
      <4>1. Pumping'
          BY <1>1, <1>2, <2>2, <2>4, <2>5, <3>3
          DEF Pumping, Answered, Quiet, Workers, NoWorker, Outcomes, Attempting
      <4>2. Wired'
          BY <1>1, <1>2, <2>4, <3>3 DEF Wired, Answered
      <4>3. Looping'
          BY <1>1, <1>2, <2>1, <2>4, <3>3 DEF Looping, Answered, Terminal
      <4>4. LockStep
        <5>1. LockerOf' = LockerOf /\ AttemptOf' = AttemptOf
            BY <1>1, <2>1, <2>4, <3>3 DEF LockerOf, AttemptOf, Alive, Answered
        <5>2. QED
            BY <1>1, <5>1, SameView
      <4>5. QED
          BY <4>1, <4>2, <4>3, <4>4
    <3>4. CASE Withdrawn(c, s) /\ c.editor # NoEditor
      <4>1. Pumping'
          BY <1>1, <1>2, <2>2, <2>4, <2>5, <3>4
          DEF Pumping, Withdrawn, Quiet, Workers, NoWorker, Outcomes, Attempting
      <4>2. Wired'
          BY <1>1, <1>2, <2>4, <3>4 DEF Wired, Withdrawn
      <4>3. Looping'
          BY <1>1, <1>2, <2>1, <2>4, <3>4 DEF Looping, Withdrawn, Terminal
      <4>4. LockStep
        <5>1. LockerOf' = LockerOf
            BY <1>1, <2>1, <2>4 DEF LockerOf, Alive
        <5>2. Lock!Cancel
            BY <1>1, <1>2, <2>1, <2>4, <3>4, <5>1
            DEF Lock!Cancel, Lock!Holding, LockerOf, AttemptOf, Alive, Withdrawn,
                Attempting
        <5>3. QED
            BY <5>2 DEF LockStep, Lock!Next
      <4>5. QED
          BY <4>1, <4>2, <4>3, <4>4
    <3>5. QED
        BY <1>7, <3>1, <3>2, <3>3, <3>4 DEF Moves
  <2>7. QED
      BY <2>4, <2>6, GoesOn DEF Alive, Running
<1>8. QED
    BY <1>5, <1>6, <1>7

\* The values of sent, and what is left when its head is read.
LEMMA SentParts ==
    ASSUME Surroundings
    PROVE  /\ sent # <<>> /\ Head(sent) = "locked" =>
                 Tail(sent) \in {<<>>, <<"finished">>} /\ "locked" \in Range(sent)
                 /\ sent \notin {<<>>, <<"finished">>}
           /\ sent # <<>> /\ Head(sent) = "finished" =>
                 Tail(sent) = <<>> /\ sent = <<"finished">>
           /\ sent = <<>> => "locked" \notin Range(sent)
           /\ sent \in {<<>>, <<"finished">>} => "locked" \notin Range(sent)
           /\ "finished" \notin Range(sent) => sent \in {<<>>, <<"locked">>}
<1>1. /\ Range(<<>>) = {} /\ Range(<<"locked">>) = {"locked"}
      /\ Range(<<"finished">>) = {"finished"}
      /\ Range(<<"locked", "finished">>) = {"locked", "finished"}
    BY DEF Range
<1>2. CASE sent = <<>>
    BY <1>1, <1>2
<1>3. CASE sent = <<"locked">>
  <2>1. Head(sent) = "locked" /\ Tail(sent) = <<>> /\ Range(sent) = {"locked"}
      BY <1>1, <1>3
  <2>2. sent \notin {<<>>, <<"finished">>}
      BY <1>3
  <2>3. QED
      BY <1>3, <2>1, <2>2
<1>4. CASE sent = <<"finished">>
  <2>1. Head(sent) = "finished" /\ Tail(sent) = <<>> /\ Range(sent) = {"finished"}
      BY <1>1, <1>4
  <2>2. QED
      BY <1>4, <2>1
<1>5. CASE sent = <<"locked", "finished">>
  <2>1. /\ Head(sent) = "locked" /\ Tail(sent) = <<"finished">>
        /\ Range(sent) = {"locked", "finished"}
      BY <1>1, <1>5
  <2>2. sent \notin {<<>>, <<"finished">>}
      BY <1>5
  <2>3. QED
      BY <1>5, <2>1, <2>2
<1>6. QED
    BY <1>2, <1>3, <1>4, <1>5 DEF Surroundings

LEMMA LockAcquiredStep ==
    ASSUME ProviderInv, LockAcquired
    PROVE  ProviderInv' /\ LockStep
<1> DEFINE s == StartAuthentication(CompositorLocked(c))
<1>1. /\ Parts /\ Surroundings /\ Settled(c, keys) /\ c.out = Quiet /\ Alive
      /\ Pumping /\ Wired /\ Looping /\ Attempting(c) /\ Typing(c)
      /\ NoWorker \in Workers /\ 0 \in AttemptIds
      /\ proc.pc = "events" /\ keys \in 0 .. MaxKeys
      /\ session' = session /\ keys' = keys /\ hint' = hint /\ wire' = "Locked"
      /\ sent' = Tail(sent) /\ sent # <<>> /\ Head(sent) = "locked"
      /\ auth \in AttemptIds /\ worker \in Workers /\ proc \in Procs
    BY RunningParts DEF LockAcquired, Parts, Surroundings, Sound
<1>2. /\ sent' \in {<<>>, <<"finished">>} /\ "locked" \in Range(sent)
      /\ wire = "AwaitingDecision" /\ c.phase = "Acquiring"
    BY <1>1, SentParts DEF Wired, Surroundings
<1>3. Surroundings'
    BY <1>1, <1>2 DEF Surroundings
<1>4. /\ ~c.told /\ c.attempt = 0 /\ c.draining = 0 /\ auth = 0
      /\ ~proc.ready /\ ~proc.pending /\ ~proc.notified /\ ~proc.flushed
      /\ proc.end = "running"
    BY <1>1, <1>2 DEF Attempting, Pumping, Looping, Terminal, Alive, Procs
<1>5. Execute(s, auth, worker, "events")
    BY <1>2 DEF LockAcquired
<1>6. /\ Coord(s) /\ Sound(s, keys) /\ s.err = NoError /\ s.told
      /\ s.out = Acquired(s)
      /\ s.phase = "Authenticating" /\ s.attempt # 0 /\ s.draining = 0
      /\ s.editor = NoEditor
    BY <1>1, <1>2, AcquireKeeps
<1> HIDE DEF s
<1>7. /\ s.out.reply = "none" /\ s.out.start = s.attempt /\ s.out.ready
      /\ ~s.out.exit
    BY <1>6 DEF Quiet, Acquired
<1>8. Executed(s, auth, worker, "events")
    BY <1>4, <1>5, <1>6, <1>7, ExecuteRuns
<1>9. /\ Parts' /\ c'.out = Quiet /\ c'.err = NoError /\ Sound(c', keys')
      /\ c'.phase = s.phase /\ c'.told = s.told /\ c'.attempt = s.attempt
      /\ c'.draining = s.draining /\ c'.editor = s.editor
      /\ proc'.pc = (IF s.out.exit THEN "apply" ELSE "events")
      /\ proc'.pending = (proc.pending \/ s.out.ready)
      /\ proc'.exit = ExitOf(s)
      /\ proc'.ready = proc.ready /\ proc'.notified = proc.notified
      /\ proc'.flushed = proc.flushed /\ proc'.end = "running"
    BY <1>1, <1>3, <1>6, <1>7, <1>8, ExecutedKeeps
<1>10. auth' = s.attempt /\ worker' = [NoWorker EXCEPT !.st = "run"]
    BY <1>6, <1>7, <1>8 DEF Executed
<1>11. Pumping'
    BY <1>6, <1>9, <1>10 DEF Pumping, NoWorker
<1>12. Wired'
    BY <1>1, <1>2, <1>6, <1>9 DEF Wired
<1>13. Looping'
    BY <1>4, <1>6, <1>7, <1>9 DEF Looping, Terminal, ExitOf
<1>14. ProviderInv'
    BY <1>9, <1>11, <1>12, <1>13, GoesOn DEF Alive, Running
<1>15. LockerOf = "holding" /\ AttemptOf = "none"
    BY <1>2, <1>4 DEF LockerOf, AttemptOf
<1>16. LockerOf' = "holding" /\ AttemptOf' = "running"
    BY <1>4, <1>6, <1>9 DEF LockerOf, AttemptOf
<1>17. QED
    BY <1>1, <1>14, <1>15, <1>16
    DEF LockStep, Lock!Next, Lock!Begin, Lock!Holding

LEMMA LockFinishesStep ==
    ASSUME ProviderInv, LockFinishes
    PROVE  ProviderInv' /\ LockStep
<1> DEFINE s == LockFinished(c)
<1>1. /\ Parts /\ Surroundings /\ Settled(c, keys) /\ c.out = Quiet /\ Alive
      /\ Pumping /\ Wired /\ Looping /\ Attempting(c) /\ Typing(c)
      /\ NoWorker \in Workers /\ 0 \in AttemptIds
      /\ proc.pc = "events" /\ keys \in 0 .. MaxKeys
      /\ session' = session /\ keys' = keys /\ hint' = hint /\ wire' = "Finished"
      /\ sent' = Tail(sent) /\ sent # <<>> /\ Head(sent) = "finished"
      /\ auth \in AttemptIds /\ worker \in Workers /\ proc \in Procs
      /\ c.told \in BOOLEAN
    BY RunningParts
    DEF LockFinishes, Parts, Surroundings, Sound, Coord, Coordinators
<1>2. /\ sent' = <<>> /\ sent = <<"finished">> /\ "locked" \notin Range(sent)
      /\ wire \in {"AwaitingDecision", "Locked"}
      /\ c.phase \notin Terminal /\ c.phase # "UnlockAuthorized"
      /\ "locked" \notin Range(sent')
    <2>1. /\ sent' = <<>> /\ sent = <<"finished">> /\ "locked" \notin Range(sent)
          /\ wire \in {"AwaitingDecision", "Locked"}
        BY <1>1, SentParts DEF Wired, Surroundings
    <2>2. c.phase \notin Terminal /\ c.phase # "UnlockAuthorized"
        BY <1>1, <2>1 DEF Wired, Looping, Terminal
    <2>3. Range(<<>>) = {}
        BY DEF Range
    <2>4. QED
        BY <2>1, <2>2, <2>3
<1>3. Surroundings'
    BY <1>1, <1>2 DEF Surroundings
<1>4. Execute(s, auth, worker, "events")
    BY <1>2 DEF LockFinishes
<1>5. /\ Coord(s) /\ Sound(s, keys) /\ s.told = c.told /\ s.err = NoError
      /\ s.out = Exiting
      /\ s.phase = (IF c.told THEN "FailedLocked" ELSE "Denied")
      /\ s.attempt = 0 /\ s.draining = 0 /\ s.editor = NoEditor
    BY <1>1, <1>2, FinishKeeps DEF SameProcess
<1> HIDE DEF s
<1>6. /\ s.out.reply = "none" /\ s.out.start = 0 /\ ~s.out.ready /\ s.out.exit
      /\ s.phase \in {"FailedLocked", "Denied"}
    BY <1>1, <1>5 DEF Exiting, Quiet
<1>7. Executed(s, auth, worker, "events")
    BY <1>4, <1>5, <1>6, ExecuteRuns
<1>8. /\ Parts' /\ c'.out = Quiet /\ c'.err = NoError /\ Sound(c', keys')
      /\ c'.phase = s.phase /\ c'.told = s.told /\ c'.attempt = s.attempt
      /\ c'.draining = s.draining /\ c'.editor = s.editor
      /\ proc'.pc = (IF s.out.exit THEN "apply" ELSE "events")
      /\ proc'.pending = (proc.pending \/ s.out.ready)
      /\ proc'.exit = ExitOf(s)
      /\ proc'.ready = proc.ready /\ proc'.notified = proc.notified
      /\ proc'.flushed = proc.flushed /\ proc'.end = "running"
    BY <1>1, <1>3, <1>5, <1>6, <1>7, ExecutedKeeps DEF Terminal
<1>9. auth' = auth /\ worker' = worker
    BY <1>6, <1>7 DEF Executed
<1>10. proc'.exit = s.phase /\ proc'.pending = proc.pending /\ proc'.pc = "apply"
    BY <1>1, <1>6, <1>8 DEF ExitOf, Procs
<1>11. Pumping'
    BY <1>1, <1>6, <1>8, <1>9 DEF Pumping, Terminal
<1>12. Wired'
    BY <1>1, <1>2, <1>6, <1>8 DEF Wired
<1>13. Looping'
    BY <1>1, <1>2, <1>5, <1>6, <1>8, <1>10 DEF Looping, Terminal
<1>14. ProviderInv'
    BY <1>8, <1>11, <1>12, <1>13, GoesOn DEF Alive, Running
<1>15. LockerOf' = LockerOf
    BY <1>1, <1>2, <1>5, <1>8 DEF LockerOf, Alive
<1>16. AttemptOf' = "none"
    BY <1>5, <1>6, <1>8 DEF AttemptOf
<1>17. AttemptOf \in {"running", "cancelled", "none"}
    BY <1>1, <1>2 DEF AttemptOf, Alive, Terminal
<1>18. LockStep
    BY <1>1, <1>15, <1>16, <1>17
    DEF LockStep, Lock!Next, Lock!Refuse, Lock!Drain, Lock!vars
<1>19. QED
    BY <1>14, <1>18

LEMMA UnlockFlushedStep ==
    ASSUME ProviderInv, UnlockFlushed
    PROVE  ProviderInv' /\ LockStep
<1> DEFINE s == UnlockCommitted(c)
<1>1. /\ Parts /\ Surroundings /\ Settled(c, keys) /\ c.out = Quiet /\ Alive
      /\ Pumping /\ Wired /\ Looping /\ Attempting(c) /\ Coord(c)
      /\ proc.pc = "events" /\ keys \in 0 .. MaxKeys /\ proc.flushed
      /\ session' = session /\ keys' = keys /\ hint' = hint /\ wire' = wire
      /\ sent' = sent
      /\ auth \in AttemptIds /\ worker \in Workers /\ proc \in Procs
    BY RunningParts DEF UnlockFlushed, Parts, Surroundings, Sound
<1>2. /\ c.phase = "UnlockAuthorized" /\ proc.ready /\ ~proc.pending
      /\ c.attempt = 0 /\ c.draining = 0 /\ c.told
    BY <1>1 DEF Looping, Attempting, Procs
<1>3. Surroundings'
    BY <1>1 DEF Surroundings
<1>4. /\ Coord(s) /\ Sound(s, keys) /\ s.told = c.told /\ s.err = NoError
      /\ s.out = Exiting /\ s.phase = "Finished" /\ s.attempt = c.attempt
      /\ s.draining = c.draining /\ s.editor = c.editor
    BY <1>1, <1>2, CommitKeeps DEF SameProcess
<1>5. ExitOf(s) = "AuthenticatedUnlock"
    BY <1>4 DEF ExitOf, Exiting, Quiet
<1>6. /\ c' = [s EXCEPT !.out = Quiet]
      /\ proc' = [proc EXCEPT !.flushed = FALSE, !.pc = "apply",
                              !.exit = "AuthenticatedUnlock"]
      /\ auth' = auth /\ worker' = worker
    BY <1>4, <1>5 DEF UnlockFlushed
<1> HIDE DEF s
<1>7. /\ Coord(c') /\ Sound(c', keys) /\ c'.out = Quiet /\ c'.err = NoError
      /\ c'.phase = "Finished" /\ c'.told = c.told /\ c'.attempt = c.attempt
      /\ c'.draining = c.draining /\ c'.editor = c.editor
    BY <1>1, <1>4, <1>6, QuietKeeps
<1>8. /\ proc' \in Procs /\ ~proc'.flushed /\ proc'.pc = "apply"
      /\ proc'.exit = "AuthenticatedUnlock" /\ proc'.end = "running"
      /\ proc'.ready = proc.ready /\ proc'.pending = proc.pending
      /\ proc'.notified = proc.notified
    BY <1>1, <1>6 DEF Procs, Alive
<1>9. Parts'
    BY <1>1, <1>3, <1>6, <1>7, <1>8 DEF Parts
<1>10. Pumping'
    BY <1>1, <1>6, <1>7 DEF Pumping, Terminal
<1>11. Wired'
    BY <1>1, <1>2, <1>7 DEF Wired
<1>12. Looping'
    BY <1>1, <1>2, <1>7, <1>8 DEF Looping, Terminal
<1>13. ProviderInv'
    BY <1>1, <1>7, <1>8, <1>9, <1>10, <1>11, <1>12, GoesOn DEF Alive, Running
<1>14. LockerOf' = LockerOf /\ AttemptOf' = AttemptOf
    BY <1>1, <1>2, <1>7, <1>8 DEF LockerOf, AttemptOf, Alive
<1>15. QED
    BY <1>1, <1>13, <1>14, SameView

\* The steps that only move the loop, or nothing the locker sees.
LEMMA EventsDoneStep ==
    ASSUME ProviderInv, EventsDone
    PROVE  ProviderInv' /\ LockStep
<1>1. /\ Parts /\ c.out = Quiet /\ Alive /\ Pumping /\ Wired /\ Looping /\ Running
      /\ proc.pc = "events" /\ ~proc.flushed /\ proc \in Procs
      /\ UNCHANGED <<session, sent, wire, c, auth, worker, hint, keys>>
    BY RunningParts DEF EventsDone, Parts, ProviderInv
<1>2. /\ proc' \in Procs /\ proc'.pc = "auth" /\ proc'.end = "running"
      /\ proc'.ready = proc.ready /\ proc'.pending = proc.pending
      /\ proc'.notified = proc.notified /\ proc'.flushed = proc.flushed
      /\ proc'.exit = proc.exit
    BY <1>1 DEF EventsDone, Procs, Alive
<1>3. Parts'
    BY <1>1, <1>2 DEF Parts, Surroundings
<1>4. Running'
  <2>1. Looping'
      BY <1>1, <1>2 DEF Looping
  <2>2. Pumping' /\ Wired'
      BY <1>1 DEF Pumping, Wired
  <2>3. QED
      BY <1>1, <2>1, <2>2 DEF Running
<1>5. ProviderInv'
    BY <1>1, <1>2, <1>3, <1>4, GoesOn DEF Alive
<1>6. LockerOf' = LockerOf /\ AttemptOf' = AttemptOf
    BY <1>1, <1>2 DEF LockerOf, AttemptOf, Alive
<1>7. QED
    BY <1>1, <1>5, <1>6, SameView

LEMMA AuthenticationWaitsStep ==
    ASSUME ProviderInv, AuthenticationWaits
    PROVE  ProviderInv' /\ LockStep
<1>1. /\ Parts /\ c.out = Quiet /\ Alive /\ Pumping /\ Wired /\ Looping /\ Running
      /\ proc.pc = "auth" /\ proc \in Procs
      /\ UNCHANGED <<session, sent, wire, c, auth, worker, hint, keys>>
    BY RunningParts DEF AuthenticationWaits, Parts, ProviderInv
<1>2. /\ proc' \in Procs /\ proc'.pc = "apply" /\ proc'.end = "running"
      /\ proc'.ready = proc.ready /\ proc'.pending = proc.pending
      /\ proc'.notified = proc.notified /\ proc'.flushed = proc.flushed
      /\ proc'.exit = proc.exit
    BY <1>1 DEF AuthenticationWaits, Procs, Alive
<1>3. Parts'
    BY <1>1, <1>2 DEF Parts, Surroundings
<1>4. Running'
  <2>1. Looping'
      BY <1>1, <1>2 DEF Looping
  <2>2. Pumping' /\ Wired'
      BY <1>1 DEF Pumping, Wired
  <2>3. QED
      BY <1>1, <2>1, <2>2 DEF Running
<1>5. ProviderInv'
    BY <1>1, <1>2, <1>3, <1>4, GoesOn DEF Alive
<1>6. LockerOf' = LockerOf /\ AttemptOf' = AttemptOf
    BY <1>1, <1>2 DEF LockerOf, AttemptOf, Alive
<1>7. QED
    BY <1>1, <1>5, <1>6, SameView

LEMMA CrashStep ==
    ASSUME ProviderInv, Crash
    PROVE  ProviderInv' /\ LockStep
<1>1. /\ Parts /\ c.out = Quiet /\ Alive /\ proc \in Procs
      /\ NoWorker \in Workers /\ 0 \in AttemptIds
      /\ AuthorityFromPam /\ NoErrorOfItsOwn
      /\ UNCHANGED <<session, sent, wire, c, hint, keys>>
    BY RunningParts DEF Crash, Parts, ProviderInv
<1>2. /\ proc' \in Procs /\ proc'.end = "failed" /\ auth' = 0 /\ worker' = NoWorker
    BY <1>1 DEF Crash, Die, Procs
<1>3. Parts'
    BY <1>1, <1>2 DEF Parts, Surroundings
<1>4. AuthorityFromPam' /\ NoErrorOfItsOwn'
    BY <1>1 DEF AuthorityFromPam, NoErrorOfItsOwn
<1>5. ProviderInv'
    BY <1>1, <1>2, <1>3, <1>4, HasEnded DEF Alive
<1>6. QED
    BY <1>1, <1>2, <1>5, FailView

LEMMA CompositorLocksStep ==
    ASSUME ProviderInv, CompositorLocks
    PROVE  ProviderInv' /\ LockStep
<1>1. /\ Parts /\ Surroundings /\ c.out = Quiet /\ Alive
      /\ Pumping /\ Wired /\ Looping /\ Running /\ proc \in Procs
      /\ Attempting(c)
      /\ wire = "AwaitingDecision" /\ sent = <<>>
      /\ session' = "locked" /\ sent' = <<"locked">>
      /\ UNCHANGED <<wire, c, auth, worker, proc, hint, keys>>
    BY RunningParts DEF CompositorLocks, Parts, ProviderInv, Sound
<1>2. /\ "locked" \notin Range(sent) /\ "locked" \in Range(sent')
    BY <1>1, SentParts DEF Range
<1>3. c.phase = "Acquiring" /\ ~c.told /\ ~proc.notified
    BY <1>1 DEF Wired, Looping, Attempting, Procs
<1>4. Parts'
    BY <1>1 DEF Parts, Surroundings
<1>5. Running'
    BY <1>1 DEF Running, Pumping, Wired, Looping
<1>6. ProviderInv'
    BY <1>1, <1>4, <1>5, GoesOn DEF Alive
<1>7. LockerOf = "asking" /\ LockerOf' = "holding" /\ AttemptOf' = AttemptOf
    BY <1>1, <1>2, <1>3 DEF LockerOf, AttemptOf, Alive
<1>8. QED
    BY <1>1, <1>6, <1>7 DEF LockStep, Lock!Next, Lock!Lock

LEMMA AppendToOne ==
    ASSUME NEW x, NEW y
    PROVE  Append(<<x>>, y) = <<x, y>>
<1> DEFINE S == {x, y}
           q == <<x>>
           r == <<x, y>>
<1>1. q \in Seq(S) /\ Len(q) = 1 /\ q[1] = x
    OBVIOUS
<1>2. r \in Seq(S) /\ Len(r) = 2 /\ r[1] = x /\ r[2] = y
    OBVIOUS
<1>3. y \in S
    OBVIOUS
<1> HIDE DEF q, r, S
<1>4. /\ Append(q, y) \in Seq(S)
      /\ Len(Append(q, y)) = Len(q) + 1
      /\ \A i \in 1 .. Len(q) : Append(q, y)[i] = q[i]
      /\ Append(q, y)[Len(q) + 1] = y
  <2>1. q \in Seq(S) /\ y \in S
      BY <1>1, <1>3
  <2>2. Append(q, y) \in Seq(S)
      BY <2>1
  <2>3. Len(Append(q, y)) = Len(q) + 1
      BY <2>1
  <2>4. \A i \in 1 .. Len(q) + 1 :
            Append(q, y)[i] = IF i = Len(q) + 1 THEN y ELSE q[i]
      BY <2>1
  <2>5. Len(q) \in Nat
      BY <2>1
  <2>6. QED
      BY <2>2, <2>3, <2>4, <2>5
<1>5. 1 \in 1 .. Len(q) /\ Len(q) + 1 = 2
    BY <1>1
<1>6. /\ Append(q, y) \in Seq(S) /\ Len(Append(q, y)) = 2
      /\ Append(q, y)[1] = x /\ Append(q, y)[2] = y
    BY <1>1, <1>4, <1>5
<1>7. Append(q, y) = r
    BY <1>2, <1>6, SeqEqual
<1>8. QED
    BY <1>7 DEF q, r

LEMMA CompositorFinishesStep ==
    ASSUME ProviderInv, CompositorFinishes
    PROVE  ProviderInv' /\ LockStep
<1>1. /\ Parts /\ Surroundings /\ c.out = Quiet /\ Alive
      /\ Pumping /\ Wired /\ Looping /\ Running /\ proc \in Procs
      /\ wire \in {"AwaitingDecision", "Locked"} /\ "finished" \notin Range(sent)
      /\ sent' = Append(sent, "finished")
      /\ UNCHANGED <<session, wire, c, auth, worker, proc, hint, keys>>
    BY RunningParts DEF CompositorFinishes, Parts, ProviderInv
<1>2. \/ sent = <<>> /\ sent' = <<"finished">>
      \/ sent = <<"locked">> /\ sent' = <<"locked", "finished">>
  <2>1. Append(<<>>, "finished") = <<"finished">>
      OBVIOUS
  <2>4. Append(<<"locked">>, "finished") = <<"locked", "finished">>
      BY AppendToOne
  <2>2. sent \in {<<>>, <<"locked">>}
      BY <1>1, SentParts
  <2>3. QED
      BY <1>1, <2>1, <2>2, <2>4
<1>3. "locked" \in Range(sent) <=> "locked" \in Range(sent')
  <2>1. /\ Range(<<>>) = {} /\ Range(<<"locked">>) = {"locked"}
        /\ Range(<<"finished">>) = {"finished"}
        /\ Range(<<"locked", "finished">>) = {"locked", "finished"}
      BY DEF Range
  <2>2. QED
      BY <1>2, <2>1
<1>4. Parts'
    BY <1>1, <1>2 DEF Parts, Surroundings
<1>5. Running'
  <2>1. Wired'
      BY <1>1, <1>2 DEF Wired
  <2>2. QED
      BY <1>1, <2>1 DEF Running, Pumping, Looping
<1>6. ProviderInv'
    BY <1>1, <1>4, <1>5, GoesOn DEF Alive
<1>7. LockerOf' = LockerOf /\ AttemptOf' = AttemptOf
    BY <1>1, <1>3 DEF LockerOf, AttemptOf, Alive
<1>8. QED
    BY <1>1, <1>6, <1>7, SameView

\* What PAM does moves the worker only.
LEMMA PamStep ==
    ASSUME ProviderInv, PamAsks \/ PamEnds
    PROVE  ProviderInv' /\ LockStep
<1>1. worker.st = "run" /\ Alive
    BY DEF PamAsks, PamEnds, ProviderInv, NoWorker
<1>2. /\ Parts /\ c.out = Quiet /\ Pumping /\ Wired /\ Looping /\ Running
      /\ worker \in Workers
      /\ UNCHANGED <<session, sent, wire, c, auth, proc, hint, keys>>
    BY <1>1, RunningParts DEF PamAsks, PamEnds, Parts, ProviderInv
<1>3. /\ worker' \in Workers /\ worker'.st \in {"asking"} \cup Outcomes
      /\ worker'.st = "asking" => worker'.kind \in Kinds
  <2>1. CASE PamAsks
      BY <1>1, <1>2, <2>1, ProviderAssumption DEF PamAsks, Workers
  <2>2. CASE PamEnds
      BY <1>1, <1>2, <2>2 DEF PamEnds, Workers, Outcomes
  <2>3. QED
      BY <2>1, <2>2
<1>4. Parts'
    BY <1>2, <1>3 DEF Parts, Surroundings
<1>5. Running'
  <2>1. Pumping'
      BY <1>1, <1>2, <1>3 DEF Pumping, Outcomes
  <2>2. QED
      BY <1>2, <2>1 DEF Running, Wired, Looping
<1>6. ProviderInv'
    BY <1>1, <1>2, <1>4, <1>5, GoesOn DEF Alive
<1>7. LockerOf' = LockerOf /\ AttemptOf' = AttemptOf
    BY <1>2 DEF LockerOf, AttemptOf
<1>8. QED
    BY <1>2, <1>6, <1>7, SameView

\* Readiness and the end of the process.
LEMMA ApplyStep ==
    ASSUME ProviderInv, Apply
    PROVE  ProviderInv' /\ LockStep
<1>1. /\ Parts /\ Surroundings /\ c.out = Quiet /\ Alive
      /\ Pumping /\ Wired /\ Looping /\ Running /\ proc \in Procs
      /\ NoWorker \in Workers /\ 0 \in AttemptIds
      /\ Attempting(c) /\ AuthorityFromPam /\ NoErrorOfItsOwn
      /\ proc.pc = "apply"
      /\ UNCHANGED <<session, sent, wire, keys>>
    BY RunningParts DEF Apply, Parts, ProviderInv, Sound
<1>2. ~LifecycleError
    BY <1>1 DEF LifecycleError, Looping, Attempting, Terminal, Procs
<1>3. /\ c' = c /\ hint' \in BOOLEAN
      /\ proc' = [proc EXCEPT !.pc = "events", !.pending = FALSE,
                          !.ready = @ \/ proc.pending,
                          !.notified = @ \/ (proc.pending /\ proc.exit = "none"),
                          !.end = IF proc.exit = "none" THEN "running"
                                  ELSE IF proc.exit = "AuthenticatedUnlock"
                                       THEN "left" ELSE "failed"]
      /\ IF proc.exit = "none" THEN UNCHANGED <<auth, worker>>
         ELSE auth' = 0 /\ worker' = NoWorker
    BY <1>1, <1>2 DEF Apply, Hinted, Surroundings
<1> DEFINE r == proc.ready \/ proc.pending
           m == proc.notified \/ (proc.pending /\ proc.exit = "none")
           e == IF proc.exit = "none" THEN "running"
                ELSE IF proc.exit = "AuthenticatedUnlock" THEN "left" ELSE "failed"
<1>4. r \in BOOLEAN /\ m \in BOOLEAN /\ e \in {"running", "failed", "left"}
    BY <1>1 DEF Procs
<1>5. proc' = [proc EXCEPT !.pc = "events", !.pending = FALSE, !.ready = r,
                           !.notified = m, !.end = e]
    BY <1>1, <1>3 DEF Procs
<1> HIDE DEF r, m, e
<1>6. /\ proc' \in Procs /\ proc'.pc = "events" /\ proc'.pending = FALSE
      /\ proc'.ready = r /\ proc'.notified = m /\ proc'.end = e
      /\ proc'.flushed = proc.flushed /\ proc'.exit = proc.exit
    BY <1>1, <1>4, <1>5 DEF Procs
<1>7. auth' \in AttemptIds /\ worker' \in Workers
    BY <1>1, <1>3 DEF Parts
<1>8. Parts'
    BY <1>1, <1>3, <1>6, <1>7 DEF Parts, Surroundings
<1>9. CASE proc.exit = "none"
  <2>1. /\ e = "running" /\ auth' = auth /\ worker' = worker
        /\ c.phase \notin Terminal
      BY <1>1, <1>3, <1>9 DEF e, Looping, Terminal
  <2>2. m = (proc.notified \/ proc.pending)
      BY <1>1, <1>9 DEF m, Procs
  <2>3. Looping'
      BY <1>1, <1>3, <1>6, <1>9, <2>1, <2>2 DEF Looping, r, Procs, Attempting
  <2>4. Running'
      BY <1>1, <1>3, <2>1, <2>3 DEF Running, Pumping, Wired
  <2>5. ProviderInv'
      BY <1>1, <1>3, <1>6, <1>8, <2>1, <2>4, GoesOn DEF Alive
  <2>6. CASE proc.pending
    <3>1. ~proc.notified /\ c.told /\ m
        BY <1>1, <2>2, <2>6 DEF Looping, Procs
    <3>2. LockerOf = "holding" /\ LockerOf' = "ready" /\ AttemptOf' = AttemptOf
        BY <1>1, <1>3, <1>6, <2>1, <3>1 DEF LockerOf, AttemptOf, Alive
    <3>3. QED
        BY <1>1, <2>5, <3>2 DEF LockStep, Lock!Next, Lock!Ready
  <2>7. CASE ~proc.pending
    <3>1. m = proc.notified
        BY <1>1, <2>2, <2>7 DEF Procs
    <3>2. LockerOf' = LockerOf /\ AttemptOf' = AttemptOf
        BY <1>1, <1>3, <1>6, <2>1, <3>1 DEF LockerOf, AttemptOf, Alive
    <3>3. QED
        BY <1>1, <2>5, <3>2, SameView
  <2>8. QED
      BY <2>6, <2>7
<1>10. CASE proc.exit # "none"
  <2>1. /\ auth' = 0 /\ worker' = NoWorker /\ e # "running"
        /\ c.phase \in Terminal
      BY <1>1, <1>3, <1>10 DEF e, Looping
  <2>2. AuthorityFromPam' /\ NoErrorOfItsOwn'
      BY <1>1, <1>3 DEF AuthorityFromPam, NoErrorOfItsOwn
  <2>3. ProviderInv'
      BY <1>1, <1>3, <1>6, <1>8, <2>1, <2>2, HasEnded DEF Alive
  <2>4. CASE proc.exit = "AuthenticatedUnlock"
    <3>1. c.phase = "Finished" /\ proc.notified
        BY <1>1, <2>1, <2>4 DEF Looping, Terminal
    <3>2. /\ LockerOf = "ready" /\ LockerOf' = "done"
          /\ AttemptOf = "passed" /\ AttemptOf' = "passed"
        BY <1>1, <1>3, <1>6, <2>4, <3>1 DEF LockerOf, AttemptOf, Alive, e
    <3>3. QED
        BY <1>1, <2>3, <3>2 DEF LockStep, Lock!Next, Lock!Leave
  <2>5. CASE proc.exit # "AuthenticatedUnlock"
    <3>1. proc'.end = "failed"
        BY <1>6, <1>10, <2>5 DEF e
    <3>2. QED
        BY <1>1, <2>3, <3>1, FailView
  <2>6. QED
      BY <2>4, <2>5
<1>11. QED
    BY <1>9, <1>10

\* A prompt reaches the coordinator.
LEMMA TakePromptStep ==
    ASSUME ProviderInv, TakePrompt
    PROVE  ProviderInv' /\ LockStep
<1> DEFINE s == ShowPrompt(c, worker.kind)
           w == [worker EXCEPT !.st = "shown"]
<1>1. /\ Parts /\ Settled(c, keys) /\ c.out = Quiet /\ Alive
      /\ Pumping /\ Wired /\ Looping /\ Attempting(c) /\ c.told \in BOOLEAN
      /\ NoWorker \in Workers /\ 0 \in AttemptIds
      /\ proc.pc = "auth" /\ keys \in 0 .. MaxKeys
      /\ Execute(s, auth, w, "auth")
      /\ UNCHANGED <<session, sent, wire, hint, keys>>
      /\ auth # 0 /\ worker.st = "asking"
      /\ auth \in AttemptIds /\ worker \in Workers
    BY RunningParts
    DEF TakePrompt, Parts, Surroundings, Coord, Coordinators, Sound
<1>2. /\ c.phase \notin Terminal /\ c.editor = NoEditor
      /\ c.attempt # 0 \/ c.draining # 0
    BY <1>1 DEF Looping, Pumping
<1>3. Surroundings'
    BY <1>1 DEF Parts, Surroundings
<1>4. w \in Workers /\ w.st = "shown"
    BY <1>1 DEF Workers
<1>5. \/ Fails(c, s)
      \/ /\ Coord(s) /\ Sound(s, keys)
         /\ Prompted(c, s) \/ Answered(c, s) \/ Withdrawn(c, s)
  <2>1. worker.kind \in Kinds
      BY <1>1 DEF Pumping
  <2>2. QED
      BY <1>1, <1>2, <2>1, PromptKeeps
<1> HIDE DEF s, w
<1>6. CASE Fails(c, s)
    BY <1>1, <1>3, <1>6, ExecuteFails, FailView
<1>7. CASE /\ Coord(s) /\ Sound(s, keys)
           /\ Prompted(c, s) \/ Answered(c, s) \/ Withdrawn(c, s)
  <2>1. /\ s.err = NoError /\ ~s.out.exit /\ ~s.out.ready /\ s.told = c.told
        /\ s.out.start = 0
      BY <1>1, <1>7 DEF Prompted, Answered, Withdrawn, SameProcess, Quiet
  <2>2. Executed(s, auth, w, "auth")
      BY <1>1, <1>4, <2>1, ExecuteRuns
  <2>3. /\ Parts' /\ c'.out = Quiet /\ c'.err = NoError /\ Sound(c', keys')
        /\ c'.phase = s.phase /\ c'.told = s.told /\ c'.attempt = s.attempt
        /\ c'.draining = s.draining /\ c'.editor = s.editor
        /\ proc'.pc = "auth" /\ proc'.pending = proc.pending
        /\ proc'.exit = "none"
        /\ proc'.ready = proc.ready /\ proc'.notified = proc.notified
        /\ proc'.flushed = proc.flushed /\ proc'.end = "running"
    <3>1. /\ Parts' /\ c'.out = Quiet /\ c'.err = NoError /\ Sound(c', keys')
          /\ c'.phase = s.phase /\ c'.told = s.told /\ c'.attempt = s.attempt
          /\ c'.draining = s.draining /\ c'.editor = s.editor
          /\ proc'.pc = (IF s.out.exit THEN "apply" ELSE "auth")
          /\ proc'.pending = (proc.pending \/ s.out.ready)
          /\ proc'.exit = ExitOf(s)
          /\ proc'.ready = proc.ready /\ proc'.notified = proc.notified
          /\ proc'.flushed = proc.flushed /\ proc'.end = "running"
        BY <1>1, <1>3, <1>4, <1>7, <2>1, <2>2, ExecutedKeeps
    <3>2. proc.pending \in BOOLEAN
        BY <1>1 DEF Parts, Procs
    <3>3. QED
        BY <2>1, <3>1, <3>2 DEF ExitOf
  <2>4. /\ auth' = auth
        /\ worker' = IF s.out.reply = "none" THEN w ELSE [w EXCEPT !.st = "run"]
      BY <2>1, <2>2 DEF Executed
  <2>5. CASE Prompted(c, s)
    <3>1. worker' = w
        BY <2>4, <2>5 DEF Prompted, Quiet
    <3>2. Pumping'
        BY <1>1, <1>2, <1>4, <2>3, <2>4, <2>5, <3>1 DEF Pumping, Prompted
    <3>3. Wired'
        BY <1>1, <2>3, <2>5 DEF Wired, Prompted
    <3>4. Looping'
        BY <1>1, <1>2, <2>1, <2>3, <2>5 DEF Looping, Prompted
    <3>5. LockerOf' = LockerOf /\ AttemptOf' = AttemptOf
        BY <1>1, <2>1, <2>3, <2>5 DEF LockerOf, AttemptOf, Alive, Prompted
    <3>6. QED
        BY <1>1, <2>3, <3>2, <3>3, <3>4, <3>5, GoesOn, SameView
        DEF Alive, Running
  <2>6. CASE Answered(c, s)
    <3>1. worker'.st = "run"
        BY <1>4, <2>4, <2>6 DEF Answered, Quiet, Workers
    <3>2. Pumping'
        BY <1>1, <1>2, <2>3, <2>4, <2>6, <3>1 DEF Pumping, Answered
    <3>3. Wired'
        BY <1>1, <2>3, <2>6 DEF Wired, Answered
    <3>4. Looping'
        BY <1>1, <1>2, <2>1, <2>3, <2>6 DEF Looping, Answered
    <3>5. LockerOf' = LockerOf /\ AttemptOf' = AttemptOf
        BY <1>1, <2>1, <2>3, <2>6 DEF LockerOf, AttemptOf, Alive, Answered
    <3>6. QED
        BY <1>1, <2>3, <3>2, <3>3, <3>4, <3>5, GoesOn, SameView
        DEF Alive, Running
  <2>7. CASE Withdrawn(c, s)
    <3>1. worker'.st = "run"
        BY <1>4, <2>4, <2>7 DEF Withdrawn, Quiet, Workers
    <3>2. Pumping'
        BY <1>1, <1>2, <2>3, <2>4, <2>7, <3>1 DEF Pumping, Withdrawn, Terminal
    <3>3. Wired'
        BY <1>1, <2>3, <2>7 DEF Wired, Withdrawn
    <3>4. Looping'
        BY <1>1, <1>2, <2>1, <2>3, <2>7 DEF Looping, Withdrawn, Terminal
    <3>5. LockerOf' = LockerOf
        BY <1>1, <2>1, <2>3, <2>7 DEF LockerOf, Alive
    <3>6. Lock!Cancel
        BY <1>1, <2>3, <2>7, <3>5 DEF Lock!Cancel, AttemptOf, Alive, Withdrawn
    <3>7. QED
        BY <2>3, <3>2, <3>3, <3>4, <3>6, GoesOn
        DEF Alive, Running, LockStep, Lock!Next
  <2>8. QED
      BY <1>7, <2>5, <2>6, <2>7
<1>8. QED
    BY <1>5, <1>6, <1>7

\* The worker's end reaches the coordinator; a pass sends the unlock request.
LEMMA UnlockSends ==
    ASSUME ProviderInv, Alive, proc.pc = "auth", NEW s, UnlockAndFlush(s),
           Coord(s), Sound(s, keys), s.err = NoError, s.told = c.told,
           s.phase = "UnlockAuthorized", s.attempt = 0, s.draining = 0,
           s.editor = NoEditor, c.attempt # 0,
           hint' = hint, keys' = keys
    PROVE  ProviderInv' /\ LockStep
<1>1. /\ Parts /\ Surroundings /\ c.out = Quiet /\ proc \in Procs /\ Coord(c)
      /\ Pumping /\ Wired /\ Looping /\ Attempting(c)
      /\ NoWorker \in Workers /\ 0 \in AttemptIds
    BY RunningParts DEF Parts, Sound
<1>2. /\ c.phase = "Authenticating" /\ c.told /\ c.draining = 0
      /\ wire = "Locked"
    BY <1>1 DEF Attempting, Wired
<1>3. wire' = "UnlockSent" /\ sent' = <<>>
    BY <1>2 DEF UnlockAndFlush
<1>4. CASE sent # <<>>
  <2>1. DieOf(s, NoError) /\ session' = session
      BY <1>2, <1>4 DEF UnlockAndFlush
  <2>2. Surroundings'
      BY <1>1, <1>3, <2>1 DEF Surroundings
  <2>3. ProviderInv'
      BY <2>1, <2>2, DieKeeps DEF Sound
  <2>4. proc'.end = "failed"
      BY <1>1, <2>1 DEF DieOf, Die, Procs
  <2>5. QED
      BY <2>1, <2>3, <2>4, FailView
<1>5. CASE sent = <<>>
  <2>1. /\ session' = "open" /\ c' = [s EXCEPT !.out = Quiet]
        /\ auth' = 0 /\ worker' = NoWorker
        /\ proc' = [proc EXCEPT !.pc = "apply", !.flushed = TRUE]
      BY <1>2, <1>5 DEF UnlockAndFlush
  <2>2. Surroundings'
      BY <1>1, <1>3, <2>1 DEF Surroundings
  <2>3. /\ Coord(c') /\ Sound(c', keys) /\ c'.out = Quiet /\ c'.err = NoError
        /\ c'.phase = "UnlockAuthorized" /\ c'.told = c.told /\ c'.attempt = 0
        /\ c'.draining = 0 /\ c'.editor = NoEditor
      BY <1>1, <2>1, QuietKeeps
  <2>4. /\ proc' \in Procs /\ proc'.pc = "apply" /\ proc'.flushed = TRUE
        /\ proc'.ready = proc.ready /\ proc'.notified = proc.notified
        /\ proc'.pending = proc.pending /\ proc'.exit = proc.exit
        /\ proc'.end = "running"
      BY <1>1, <2>1 DEF Procs, Alive
  <2>5. Parts'
      BY <1>1, <2>1, <2>2, <2>3, <2>4 DEF Parts
  <2>6. Pumping'
      BY <2>1, <2>3 DEF Pumping, NoWorker
  <2>7. Wired'
      BY <1>3, <2>3 DEF Wired
  <2>8. Looping'
      BY <1>1, <1>2, <2>3, <2>4 DEF Looping, Terminal
  <2>9. ProviderInv'
      BY <2>3, <2>4, <2>5, <2>6, <2>7, <2>8, GoesOn DEF Alive, Running
  <2>10. /\ LockerOf \in {"holding", "ready"} /\ AttemptOf = "running"
         /\ LockerOf' = LockerOf /\ AttemptOf' = "passed"
      BY <1>1, <1>2, <2>3, <2>4 DEF LockerOf, AttemptOf, Alive
  <2>11. QED
      BY <2>1, <2>9, <2>10 DEF LockStep, Lock!Next, Lock!Unlock, Lock!Holding
<1>6. QED
    BY <1>4, <1>5

LEMMA WorkerFinishedStep ==
    ASSUME ProviderInv, WorkerFinished
    PROVE  ProviderInv' /\ LockStep
<1> DEFINE s == AuthenticationFinished(c, auth, worker.st)
<1>1. /\ Parts /\ Surroundings /\ Settled(c, keys) /\ c.out = Quiet /\ Alive
      /\ Pumping /\ Wired /\ Looping /\ Attempting(c) /\ c.told \in BOOLEAN
      /\ NoWorker \in Workers /\ 0 \in AttemptIds
      /\ proc.pc = "auth" /\ keys \in 0 .. MaxKeys
      /\ hint' = hint /\ keys' = keys
      /\ auth # 0 /\ worker.st \in Outcomes
      /\ auth \in AttemptIds /\ worker \in Workers
    BY RunningParts
    DEF WorkerFinished, Parts, Surroundings, Coord, Coordinators, Sound
<1>2. /\ c.phase \notin Terminal
      /\ \/ c.attempt # 0 /\ c.draining = 0 /\ auth = c.attempt
         \/ c.attempt = 0 /\ c.draining # 0 /\ auth = c.draining
    BY <1>1 DEF Looping, Pumping, Attempting
<1>3. \/ Fails(c, s)
      \/ Coord(s) /\ Sound(s, keys) /\ Ended(c, s)
    BY <1>1, <1>2, DrainKeeps, VerdictKeeps
<1>4. IF s.out.unlock /\ s.err = NoError THEN UnlockAndFlush(s)
      ELSE /\ Execute(s, 0, NoWorker, "apply")
           /\ UNCHANGED <<session, sent, wire>>
    BY DEF WorkerFinished
<1> HIDE DEF s
<1>5. CASE Fails(c, s)
  <2>1. s.err # NoError
      BY <1>5 DEF Fails, Stopped, StackErrors, NoError
  <2>2. Execute(s, 0, NoWorker, "apply") /\ UNCHANGED <<session, sent, wire>>
      BY <1>4, <2>1
  <2>3. Surroundings'
      BY <1>1, <2>2 DEF Surroundings
  <2>4. QED
      BY <1>1, <1>5, <2>2, <2>3, ExecuteFails, FailView
<1>6. CASE /\ Coord(s) /\ Sound(s, keys) /\ c.attempt # 0
           /\ Over(c, s, "UnlockAuthorized")
           /\ s.out = [Quiet EXCEPT !.unlock = TRUE]
  <2>1. s.out.unlock /\ s.err = NoError
      BY <1>6 DEF Over, SameProcess, Quiet
  <2>2. UnlockAndFlush(s)
      BY <1>4, <2>1
  <2>3. QED
      BY <1>1, <1>6, <2>1, <2>2, UnlockSends DEF Over, SameProcess
<1>7. CASE /\ Coord(s) /\ Sound(s, keys)
           /\ \/ Over(c, s, "Locked") /\ s.out = Quiet
              \/ Started(c, s) /\ c.draining # 0
  <2>1. /\ s.err = NoError /\ ~s.out.exit /\ ~s.out.ready /\ s.told = c.told
        /\ ~s.out.unlock /\ s.out.reply = "none"
      BY <1>1, <1>7 DEF Over, Started, SameProcess, Quiet
  <2>2. Execute(s, 0, NoWorker, "apply") /\ UNCHANGED <<session, sent, wire>>
      BY <1>4, <2>1
  <2>3. Surroundings'
      BY <1>1, <2>2 DEF Surroundings
  <2>4. Executed(s, 0, NoWorker, "apply")
      BY <2>1, <2>2, ExecuteRuns
  <2>5. /\ Parts' /\ c'.out = Quiet /\ c'.err = NoError /\ Sound(c', keys')
        /\ c'.phase = s.phase /\ c'.told = s.told /\ c'.attempt = s.attempt
        /\ c'.draining = s.draining /\ c'.editor = s.editor
        /\ proc'.pc = "apply" /\ proc'.pending = proc.pending
        /\ proc'.exit = "none"
        /\ proc'.ready = proc.ready /\ proc'.notified = proc.notified
        /\ proc'.flushed = proc.flushed /\ proc'.end = "running"
    <3>1. /\ Parts' /\ c'.out = Quiet /\ c'.err = NoError /\ Sound(c', keys')
          /\ c'.phase = s.phase /\ c'.told = s.told /\ c'.attempt = s.attempt
          /\ c'.draining = s.draining /\ c'.editor = s.editor
          /\ proc'.pc = (IF s.out.exit THEN "apply" ELSE "apply")
          /\ proc'.pending = (proc.pending \/ s.out.ready)
          /\ proc'.exit = ExitOf(s)
          /\ proc'.ready = proc.ready /\ proc'.notified = proc.notified
          /\ proc'.flushed = proc.flushed /\ proc'.end = "running"
        BY <1>1, <1>7, <2>1, <2>3, <2>4, ExecutedKeeps
    <3>2. proc.pending \in BOOLEAN
        BY <1>1 DEF Parts, Procs
    <3>3. QED
        BY <2>1, <3>1, <3>2 DEF ExitOf
  <2>6. c.phase \in {"Locked", "Authenticating"} /\ c.told
      BY <1>1, <1>2 DEF Attempting
  <2>7. LockerOf \in {"holding", "ready"} /\ LockerOf' = LockerOf
      BY <1>1, <2>1, <2>2, <2>5, <2>6 DEF LockerOf, Alive
  <2>8. Wired'
      BY <1>1, <1>7, <2>2, <2>5, <2>6 DEF Wired, Over, Started
  <2>9. Looping'
      BY <1>1, <1>2, <1>7, <2>1, <2>5, <2>6 DEF Looping, Over, Started, Terminal
  <2>10. CASE Over(c, s, "Locked") /\ s.out = Quiet
    <3>1. auth' = 0 /\ worker' = NoWorker
        BY <2>1, <2>4, <2>10 DEF Executed, Quiet
    <3>2. Pumping'
        BY <2>5, <2>10, <3>1 DEF Pumping, NoWorker, Over
    <3>3. AttemptOf \in {"running", "cancelled"} /\ AttemptOf' = "none"
        BY <1>1, <1>2, <2>5, <2>6, <2>10 DEF AttemptOf, Alive, Over
    <3>4. LockStep
        BY <2>2, <2>7, <3>3
        DEF LockStep, Lock!Next, Lock!Refuse, Lock!Drain
    <3>5. QED
        BY <2>5, <2>8, <2>9, <3>2, <3>4, GoesOn DEF Alive, Running
  <2>11. CASE Started(c, s) /\ c.draining # 0
    <3>1. auth' = s.attempt /\ worker'.st = "run"
      <4>1. s.out.start = s.attempt /\ s.attempt # 0
          BY <1>1, <2>11 DEF Started, Quiet
      <4>2. QED
          BY <2>4, <4>1 DEF Executed, NoWorker
    <3>2. Pumping'
        BY <2>5, <2>11, <3>1 DEF Pumping, Started
    <3>3. AttemptOf = "cancelled" /\ AttemptOf' = "running"
        BY <1>1, <1>2, <2>5, <2>6, <2>11 DEF AttemptOf, Alive, Started
    <3>4. LockStep
        BY <2>2, <2>7, <3>3 DEF LockStep, Lock!Next, Lock!Drain
    <3>5. QED
        BY <2>5, <2>8, <2>9, <3>2, <3>4, GoesOn DEF Alive, Running
  <2>12. QED
      BY <1>7, <2>10, <2>11
<1>8. QED
    BY <1>3, <1>5, <1>6, <1>7 DEF Ended

-----------------------------------------------------------------------------
(* The theorems *)

LEMMA ProviderInit ==
    ASSUME Init
    PROVE  ProviderInv
<1>1. /\ NewCoordinator \in Coordinators /\ NoWorker \in Workers
      /\ 0 \in AttemptIds /\ 1 \in AttemptIds /\ Len(NewCoordinator.queue) = 0
  <2>1. /\ 0 \in AttemptIds /\ 1 \in AttemptIds /\ 0 \in Turns
        /\ NoWorker \in Workers /\ MaxQueue \in Nat
      BY ProviderAssumption DEF AttemptIds, Turns, NoWorker, Workers
  <2>2. Quiet \in [ready : BOOLEAN, start : AttemptIds, unlock : BOOLEAN,
                   exit : BOOLEAN, reply : {"none", "answer", "cancel"}]
      BY <2>1 DEF Quiet
  <2>3. QED
      BY <2>1, <2>2, EmptyQueue DEF NewCoordinator, Coordinators, Phases
<1>2. Coord(c)
    BY <1>1, ProviderAssumption DEF Coord, Init
<1>3. Parts
  <2>1. hint \in BOOLEAN
    <3>1. hint = FALSE \/ hint = (session = "locked")
        BY DEF Init
    <3>2. QED
        BY <3>1
  <2>2. /\ session \in {"open", "locked"} /\ sent = <<>>
        /\ wire = "AwaitingDecision" /\ keys \in 0 .. MaxKeys
      BY ProviderAssumption DEF Init
  <2>3. proc \in Procs /\ auth = 0 /\ worker = NoWorker
      BY DEF Init, Procs
  <2>4. QED
      BY <1>1, <1>2, <2>1, <2>2, <2>3 DEF Parts, Surroundings
<1>4. /\ c.out = Quiet /\ c.err = NoError /\ c.phase = "Acquiring"
      /\ c.queue = <<>> /\ c.editor = NoEditor /\ c.attempt = 0 /\ c.draining = 0
      /\ c.active = 0 /\ c.next = 1 /\ c.turn = 0 /\ c.told = FALSE
      /\ c.cancelled = {} /\ keys = 0
    BY DEF Init, NewCoordinator
<1>5. Sound(c, keys)
  <2>1. Attempting(c) /\ Typing(c) /\ Granted(c)
      BY <1>4, EmptyQueue DEF Attempting, Typing, Granted, NoEditor
  <2>2. Counted(c, keys)
      BY <1>4, EmptyQueue DEF Counted
  <2>3. QED
      BY <2>1, <2>2 DEF Sound
<1>6. Pumping /\ Wired /\ Looping /\ Alive
    BY <1>4 DEF Init, Pumping, Wired, Looping, Terminal, NoWorker, Alive
<1>7. AuthorityFromPam /\ NoErrorOfItsOwn
    BY <1>4 DEF AuthorityFromPam, NoErrorOfItsOwn, NoError, OwnErrors
<1>8. QED
    BY <1>3, <1>4, <1>5, <1>6, <1>7, TypeIsParts DEF ProviderInv, Running

LEMMA ProviderStep ==
    ASSUME ProviderInv, [Next]_vars
    PROVE  ProviderInv' /\ LockStep
<1>1. CASE UNCHANGED vars
  <2>1. ProviderInv'
      BY <1>1
      DEF vars, ProviderInv, ProviderTypeOK, Alive, AuthorityFromPam,
          NoErrorOfItsOwn, Running, Pumping, Wired, Looping
  <2>2. session' = session /\ LockerOf' = LockerOf /\ AttemptOf' = AttemptOf
      BY <1>1 DEF vars, LockerOf, AttemptOf
  <2>3. QED
      BY <2>1, <2>2, SameView
<1>2. CASE \E key \in KeyNames : Input(key)
    BY <1>2, InputStep
<1>3. CASE Poll
    BY <1>3, LockAcquiredStep, LockFinishesStep, UnlockFlushedStep,
       EventsDoneStep, TakePromptStep, AuthenticationWaitsStep,
       WorkerFinishedStep, ApplyStep
    DEF Poll
<1>4. QED
    BY <1>1, <1>2, <1>3, CrashStep, CompositorLocksStep,
       CompositorFinishesStep, PamStep
    DEF Next

\* What every behaviour of the process keeps.
LEMMA ProviderInvariant == Spec => []ProviderInv
<1>1. Init => ProviderInv
    BY ProviderInit
<1>2. ProviderInv /\ [Next]_vars => ProviderInv'
    BY ProviderStep
<1>3. QED
    BY <1>1, <1>2, PTL DEF Spec

\* The types of the process, its coordinator and its worker hold in every
\* reachable state; the counters and the queue stay within their bounds
\* (queue_input, the one attempt per key of start_authentication).
THEOREM ProviderTypeCorrect == ProviderSpec => []ProviderTypeOK
<1>1. ProviderInv => ProviderTypeOK
    BY DEF ProviderInv
<1>2. QED
    BY <1>1, ProviderInvariant, PTL DEF ProviderSpec

\* Unlock authority is minted only by PAM's success for the last attempt, one
\* the person never cancelled (authentication_finished, Provider::apply).
THEOREM PamAlone == ProviderSpec => []AuthorityFromPam
<1>1. ProviderInv => AuthorityFromPam
    BY DEF ProviderInv
<1>2. QED
    BY <1>1, ProviderInvariant, PTL DEF ProviderSpec

\* What is typed for one answer never reaches the next prompt
\* (replay_queued_inputs, apply_editor_input, authentication_finished).
THEOREM AnswersStayApart == ProviderSpec => []TypedForThisAnswer
<1>1. ProviderInv => TypedForThisAnswer
    BY DEF ProviderInv, Running, Sound, Typing, TypedForThisAnswer
<1>2. QED
    BY <1>1, ProviderInvariant, PTL DEF ProviderSpec

\* No order of events brings the process down by an error of its own: the
\* checks of runtime.rs, linux_runtime.rs and process.rs that guard against a
\* second worker, a stale result or a lost step of the lifecycle never fire.
THEOREM NeverItsOwnError == ProviderSpec => []NoErrorOfItsOwn
<1>1. ProviderInv => NoErrorOfItsOwn
    BY DEF ProviderInv
<1>2. QED
    BY <1>1, ProviderInvariant, PTL DEF ProviderSpec

\* The process is a secure lock: under the mapping of LockerOf and AttemptOf
\* each of its steps is a step of SecureLock or none, so the session opens
\* only with a passed attempt, and no failure, cancellation or late worker
\* opens it.
THEOREM ImplementsLock == ProviderSpec => ImplementsSecureLock
<1>1. Init => Lock!Init
  <2>1. ASSUME Init PROVE LockerOf = "asking" /\ AttemptOf = "none"
    <3>1. Range(<<>>) = {}
        BY DEF Range
    <3>2. QED
        BY <2>1, <3>1 DEF Init, NewCoordinator, LockerOf, AttemptOf
  <2>2. QED
      BY <2>1 DEF Init, Lock!Init
<1>2. ProviderInv /\ [Next]_vars => [Lock!Next]_(Lock!vars)
    BY ProviderStep DEF LockStep
<1>3. QED
    BY <1>1, <1>2, ProviderInvariant, PTL
    DEF ProviderSpec, Spec, ImplementsSecureLock, Lock!Spec
=============================================================================
