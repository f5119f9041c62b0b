------------------------- MODULE TimerManagerProofs -------------------------
(***************************************************************************)
(* Proofs about TimerManager for every set of timers and threads, every    *)
(* assignment of periods and without any bound on the clock but MaxClock.  *)
(***************************************************************************)
EXTENDS TimerManager, TLAPS

\* A deadline is never further away than the period of its timer, because the
\* clock does not go back.
DeadlineInv == \A x \in Timers : deadline[x] <= clock + Ms[x]

\* addTimer returns timers that exist.
HandleInv == \A x \in Created : handle[x] \in Created

TimerInv ==
  /\ TypeOK
  /\ DeadlineInv
  /\ HandleInv
  /\ KeysDistinct
  /\ SomeoneWatches

\* No timer, no thread in epoll_wait: nothing can be slept through.
LEMMA InitTimer == Init => TimerInv
  <1> SUFFICES ASSUME Init PROVE TimerInv
    OBVIOUS
  <1>1. broken \in BOOLEAN
    BY Zenon DEF Init
  <1>2. TypeOK
    BY <1>1 DEF Init, TypeOK
  <1>3. DeadlineInv /\ HandleInv /\ KeysDistinct
    BY TimerAssumption DEF Init, DeadlineInv, HandleInv, Created, KeysDistinct
  <1>4. SomeoneWatches
    BY DEF Init, SomeoneWatches
  <1> QED
    BY <1>2, <1>3, <1>4 DEF TimerInv

\* addTimer keeps the order strict, and wakes the idle threads when the new
\* timer is the first of all (Timer.cpp:57-71).
LEMMA AddTimerStep ==
  ASSUME TimerInv, ~broken, NEW x \in Timers, AddTimer(x)
  PROVE  TimerInv'
  <1> DEFINE key == clock + Ms[x]
             twins == SameKey(deadline, key)
  <1>0. TypeOK /\ DeadlineInv /\ HandleInv /\ KeysDistinct /\ SomeoneWatches
    BY DEF TimerInv
  <1>1. Ms[x] \in Nat /\ clock \in Nat /\ key \in Nat
    BY <1>0, TimerAssumption DEF TypeOK
  <1>2. /\ handle[x] = None /\ x \notin timers
        /\ deadline' = [deadline EXCEPT ![x] = key]
        /\ timers' = IF twins = {} THEN timers \cup {x} ELSE timers
        /\ UNCHANGED <<clock, broken, pollVars>>
    BY <1>0 DEF AddTimer, TypeOK, Created
  <1>3. PICK h \in (IF twins = {} THEN {x} ELSE twins) : handle' = [handle EXCEPT ![x] = h]
    BY DEF AddTimer
  <1>4. h \in Timers /\ (h = x \/ h \in Created)
    BY <1>0, <1>3 DEF SameKey, TypeOK, Created
  <1>5. Created' = Created \cup {x}
    BY <1>0, <1>3, <1>4, TimerAssumption DEF Created, TypeOK
  <1>6. pipe' \in Nat /\ (pipe > 0 => pipe' > 0)
    BY <1>0 DEF AddTimer, TypeOK
  <1>7. TypeOK'
    <2>1. timers' \in SUBSET Created'
      BY <1>0, <1>2, <1>5 DEF TypeOK
    <2>2. deadline' \in [Timers -> Nat] /\ handle' \in [Timers -> Timers \cup {None}]
      BY <1>0, <1>1, <1>2, <1>3, <1>4 DEF TypeOK
    <2>3. awaited' \in SUBSET Timers
      BY <1>0 DEF AddTimer, TypeOK
    <2> QED
      BY <1>0, <1>2, <1>6, <2>1, <2>2, <2>3 DEF TypeOK, pollVars
  <1>8. DeadlineInv'
    BY <1>0, <1>1, <1>2, TimerAssumption DEF DeadlineInv, TypeOK
  <1>9. HandleInv'
    BY <1>0, <1>3, <1>4, <1>5 DEF HandleInv, TypeOK, Created
  <1>10. KeysDistinct'
    BY <1>0, <1>2 DEF KeysDistinct, SameKey, TypeOK, Created
  <1>11. SomeoneWatches'
    <2>1. CASE \A y \in timers : key <= deadline[y]
      <3>1. pipe' = pipe + 1 /\ pipe \in Nat
        BY <1>0, <2>1 DEF AddTimer, TypeOK
      <3> QED
        BY <3>1 DEF SomeoneWatches
    <2>2. CASE pipe > 0
      BY <2>2, <1>6 DEF SomeoneWatches
    <2>3. CASE Pollers = {}
      BY <2>3 DEF SomeoneWatches
    <2>4. ASSUME Pollers # {}, ~(pipe > 0), NEW y \in timers, ~(key <= deadline[y])
          PROVE  SomeoneWatches'
      <3>1. PICK t \in Pollers : \A z \in timers : ~Oversleeps(t, z)
        BY <1>0, <2>4 DEF SomeoneWatches
      <3>2. /\ pc'[t] = pc[t] /\ until'[t] = until[t] /\ clock' = clock
            /\ until[t] \in Nat
            /\ y \in Timers /\ deadline[y] \in Nat /\ deadline[y] < key
        BY <1>0, <1>1, <1>2, <2>4 DEF TypeOK, Created, pollVars
      <3>3. ASSUME NEW z \in timers', Oversleeps(t, z)' PROVE FALSE
        <4>1. CASE z = x
          <5>1. deadline'[x] = key
            BY <1>0, <1>2 DEF TypeOK
          <5>2. Oversleeps(t, y)
            BY <1>1, <3>2, <3>3, <4>1, <5>1 DEF Oversleeps
          <5> QED
            BY <3>1, <5>2
        <4>2. CASE z # x
          <5>1. z \in timers /\ deadline'[z] = deadline[z]
            BY <1>0, <1>2, <3>3, <4>2 DEF TypeOK, Created
          <5> QED
            BY <3>1, <3>2, <3>3, <5>1 DEF Oversleeps
        <4> QED
          BY <4>1, <4>2
      <3> QED
        BY <3>3 DEF SomeoneWatches
    <2> QED
      BY <2>1, <2>2, <2>3, <2>4
  <1> QED
    BY <1>7, <1>8, <1>9, <1>10, <1>11 DEF TimerInv

\* Timers are only taken away and no deadline changes: whoever watches the
\* first deadline still does.
LEMMA FewerTimers ==
  ASSUME SomeoneWatches, timers' \subseteq timers, clock' = clock, pipe' = pipe,
         UNCHANGED <<deadline, pc, until>>, broken' \/ ~broken
  PROVE  SomeoneWatches'
  BY DEF SomeoneWatches, Oversleeps

\* cancel() takes at most one timer away and moves no other.
LEMMA CancelStep ==
  ASSUME TimerInv, ~broken, NEW x \in Timers, Cancel(x)
  PROVE  TimerInv'
  <1>0. TypeOK /\ DeadlineInv /\ HandleInv /\ KeysDistinct /\ SomeoneWatches
    BY DEF TimerInv
  <1>1. /\ timers' \subseteq timers
        /\ awaited' \subseteq awaited
        /\ UNCHANGED <<clock, deadline, handle, pipe, pollVars>>
    BY DEF Cancel
  <1>2. broken' \in BOOLEAN
    BY DEF Cancel
  <1>3. TypeOK'
    BY <1>0, <1>1, <1>2 DEF TypeOK, Created, pollVars
  <1>4. DeadlineInv' /\ HandleInv' /\ KeysDistinct'
    BY <1>0, <1>1 DEF DeadlineInv, HandleInv, Created, KeysDistinct
  <1>5. SomeoneWatches'
    BY <1>0, <1>1, FewerTimers DEF pollVars
  <1> QED
    BY <1>3, <1>4, <1>5 DEF TimerInv

\* refresh() takes its timer out before it changes the key, and its new deadline
\* is never earlier than the old one (Timer.cpp:28-42).
LEMMA RefreshStep ==
  ASSUME TimerInv, ~broken, NEW x \in Timers, Refresh(x)
  PROVE  TimerInv'
  <1> DEFINE h == handle[x]
             key == clock + Ms[h]
             twins == SameKey(deadline, deadline[h])
             rest == timers \ twins
  <1>0. TypeOK /\ DeadlineInv /\ HandleInv /\ KeysDistinct /\ SomeoneWatches
    BY DEF TimerInv
  <1>1. /\ h \in Created /\ h \in Timers
        /\ twins # {}
        /\ deadline' = [deadline EXCEPT ![h] = key]
        /\ timers' = IF \E y \in rest : deadline'[y] = key THEN rest ELSE rest \cup {h}
        /\ UNCHANGED <<clock, handle, awaited, broken, pipe, pollVars>>
    BY <1>0 DEF Refresh, HandleInv, Created, TypeOK
  <1>2. Ms[h] \in Nat /\ clock \in Nat /\ key \in Nat
    <2>1. \A y \in Timers : Ms[y] \in Nat
      BY TimerAssumption
    <2>2. clock \in Nat
      BY <1>0 DEF TypeOK
    <2> QED
      BY <1>1, <2>1, <2>2
  <1>3. h \notin rest
    BY DEF SameKey
  <1>4. PICK u \in timers : deadline[u] = deadline[h]
    BY <1>1 DEF SameKey
  <1>5. deadline[u] <= key
    BY <1>0, <1>1, <1>4 DEF DeadlineInv
  <1>6. TypeOK'
    BY <1>0, <1>1, <1>2 DEF TypeOK, Created, pollVars
  <1>7. DeadlineInv'
    BY <1>0, <1>1, <1>2, TimerAssumption DEF DeadlineInv, TypeOK
  <1>8. HandleInv'
    BY <1>0, <1>1 DEF HandleInv, Created
  <1>9. KeysDistinct'
    BY <1>0, <1>1, <1>3 DEF KeysDistinct, TypeOK, Created
  <1>10. SomeoneWatches'
    <2>1. CASE pipe > 0 \/ Pollers = {}
      BY <1>1, <2>1 DEF SomeoneWatches
    <2>2. ASSUME Pollers # {}, ~(pipe > 0) PROVE SomeoneWatches'
      <3>1. PICK t \in Pollers : \A z \in timers : ~Oversleeps(t, z)
        BY <1>0, <2>2 DEF SomeoneWatches
      <3>2. pc'[t] = pc[t] /\ until'[t] = until[t] /\ until[t] \in Nat /\ deadline[u] \in Nat
        BY <1>0, <1>1, <1>4 DEF TypeOK, pollVars, Created
      <3>3. ASSUME NEW z \in timers', Oversleeps(t, z)' PROVE FALSE
        <4>1. CASE z = h
          <5>1. deadline'[h] = key
            BY <1>0, <1>1 DEF TypeOK
          <5>2. Oversleeps(t, u)
            BY <1>1, <1>2, <1>5, <3>2, <3>3, <4>1, <5>1 DEF Oversleeps
          <5> QED
            BY <3>1, <5>2
        <4>2. CASE z # h
          <5>1. z \in timers /\ deadline'[z] = deadline[z]
            BY <1>0, <1>1, <3>3, <4>2 DEF TypeOK, Created
          <5> QED
            BY <1>1, <3>1, <3>2, <3>3, <5>1 DEF Oversleeps
        <4> QED
          BY <4>1, <4>2
      <3> QED
        BY <3>3 DEF SomeoneWatches
    <2> QED
      BY <2>1, <2>2
  <1> QED
    BY <1>6, <1>7, <1>8, <1>9, <1>10 DEF TimerInv

\* A thread that is not in epoll_wait watches everything: it will call
\* getNextTime before it waits again.
LEMMA AwakeWatches ==
  ASSUME NEW t \in Pollers, pc'[t] # "waiting"
  PROVE  SomeoneWatches'
  BY DEF SomeoneWatches, Oversleeps

\* An idle thread asks for the next deadline and then waits: a timer that gets
\* in between leaves a byte in the pipe (IoManager.cpp:450-490).
LEMMA PollerStep ==
  ASSUME TimerInv, ~broken, NEW t \in Pollers, Poller(t)
  PROVE  TimerInv'
  <1>0. TypeOK /\ DeadlineInv /\ HandleInv /\ KeysDistinct /\ SomeoneWatches
    BY DEF TimerInv
  <1>1. CASE Poll(t)
    <2>1. PICK timeout \in 0 .. MaxTimeOut :
            /\ IsNextTime(timeout)
            /\ until' = [until EXCEPT ![t] = clock + timeout]
      BY <1>1 DEF Poll
    <2>2. /\ pc' = [pc EXCEPT ![t] = "waiting"]
          /\ UNCHANGED <<clock, timerVars, pipe, sawByte>>
      BY <1>1 DEF Poll
    <2>3. timeout \in Nat /\ clock \in Nat
      BY <1>0, TimerAssumption DEF TypeOK
    <2>4. TypeOK'
      BY <1>0, <2>1, <2>2, <2>3 DEF TypeOK, timerVars, Created
    <2>5. DeadlineInv' /\ HandleInv' /\ KeysDistinct'
      BY <1>0, <2>2 DEF DeadlineInv, HandleInv, Created, KeysDistinct, timerVars
    <2>6. ASSUME NEW z \in timers PROVE ~Oversleeps(t, z)'
      BY <1>0, <2>1, <2>2, <2>3 DEF IsNextTime, Oversleeps, TypeOK, timerVars, Created
    <2>7. SomeoneWatches'
      BY <2>2, <2>6 DEF SomeoneWatches, timerVars
    <2> QED
      BY <2>4, <2>5, <2>7 DEF TimerInv
  <1>2. CASE Wake(t)
    <2>1. /\ pc' = [pc EXCEPT ![t] = "expiring"]
          /\ sawByte' = [sawByte EXCEPT ![t] = (pipe > 0)]
          /\ until' = [until EXCEPT ![t] = 0]
          /\ UNCHANGED <<clock, timerVars, pipe>>
      BY <1>2 DEF Wake
    <2>2. sawByte' \in [Pollers -> BOOLEAN]
      BY <1>0, <2>1 DEF TypeOK
    <2>3. TypeOK'
      BY <1>0, <2>1, <2>2 DEF TypeOK, timerVars, Created
    <2>4. DeadlineInv' /\ HandleInv' /\ KeysDistinct'
      BY <1>0, <2>1 DEF DeadlineInv, HandleInv, Created, KeysDistinct, timerVars
    <2>5. pc'[t] # "waiting"
      BY <1>0, <2>1 DEF TypeOK
    <2> QED
      BY <2>3, <2>4, <2>5, AwakeWatches DEF TimerInv
  <1>3. CASE Expire(t)
    <2> DEFINE rearmed == Due \cap Repeats
    <2>1. /\ deadline' = [x \in Timers |-> IF x \in rearmed THEN clock + Ms[x]
                                                            ELSE deadline[x]]
          /\ awaited' \subseteq awaited
          /\ pipe' \in Nat
          /\ pc' = [pc EXCEPT ![t] = "events"]
          /\ UNCHANGED <<clock, handle, broken, until, sawByte>>
      BY <1>0, <1>3 DEF Expire, TypeOK
    <2> DEFINE new == Reinserted(timers \ Due, rearmed, deadline')
    <2>2. timers' = (timers \ Due) \cup new /\ new \in SUBSET rearmed
      BY <1>3 DEF Expire, Reinserted
    <2>3. rearmed \subseteq timers /\ timers' \subseteq timers /\ timers \subseteq Timers
      BY <1>0, <2>2 DEF Due, TypeOK, Created
    <2>4. deadline' \in [Timers -> Nat]
      BY <1>0, <2>1, TimerAssumption DEF TypeOK
    <2>5. TypeOK'
      BY <1>0, <2>1, <2>3, <2>4 DEF TypeOK, Created
    <2>6. DeadlineInv' /\ HandleInv'
      BY <1>0, <2>1, TimerAssumption DEF DeadlineInv, HandleInv, Created, TypeOK
    <2>7. ASSUME NEW x \in timers', NEW y \in timers', deadline'[x] = deadline'[y]
          PROVE  x = y
      <3>1. CASE x \in new /\ y \in new
        <4>1. deadline[x] <= deadline[y] /\ deadline[y] <= deadline[x]
          BY <2>2, <2>7, <3>1 DEF Reinserted
        <4>2. deadline[x] \in Nat /\ deadline[y] \in Nat /\ x \in timers /\ y \in timers
          BY <1>0, <2>3, <2>7 DEF TypeOK
        <4> QED
          BY <1>0, <4>1, <4>2 DEF KeysDistinct
      <3>2. CASE x \in timers \ Due /\ y \in timers \ Due
        BY <1>0, <2>1, <2>3, <2>7, <3>2 DEF KeysDistinct
      <3>3. CASE (x \in new) # (y \in new)
        BY <2>2, <2>7, <3>3 DEF Reinserted
      <3> QED
        BY <2>2, <3>1, <3>2, <3>3
    <2>8. pc'[t] # "waiting"
      BY <1>0, <2>1 DEF TypeOK
    <2> QED
      BY <2>5, <2>6, <2>7, <2>8, AwakeWatches DEF TimerInv, KeysDistinct
  <1>4. CASE ReadByte(t)
    <2>1. /\ pc' = [pc EXCEPT ![t] = "away"]
          /\ pipe' \in Nat
          /\ sawByte' = [sawByte EXCEPT ![t] = FALSE]
          /\ UNCHANGED <<clock, timerVars, until>>
      BY <1>0, <1>4 DEF ReadByte, TypeOK
    <2>2. TypeOK'
      BY <1>0, <2>1 DEF TypeOK, timerVars, Created
    <2>3. DeadlineInv' /\ HandleInv' /\ KeysDistinct'
      BY <1>0, <2>1 DEF DeadlineInv, HandleInv, Created, KeysDistinct, timerVars
    <2>4. pc'[t] # "waiting"
      BY <1>0, <2>1 DEF TypeOK
    <2> QED
      BY <2>2, <2>3, <2>4, AwakeWatches DEF TimerInv
  <1> QED
    BY <1>1, <1>2, <1>3, <1>4 DEF Poller

\* Every step of every client and of every idle thread keeps the invariant.
LEMMA TimerStep == TimerInv /\ [Next]_vars => TimerInv'
  <1> SUFFICES ASSUME TimerInv, [Next]_vars PROVE TimerInv'
    OBVIOUS
  <1>0. TypeOK /\ DeadlineInv /\ HandleInv /\ KeysDistinct /\ SomeoneWatches
    BY DEF TimerInv
  <1>1. CASE ~broken /\ Tick
    <2>1. clock \in Nat /\ clock' = clock + 1 /\ UNCHANGED <<timerVars, pipe, pollVars>>
      BY <1>0, <1>1 DEF Tick, TypeOK
    <2>2. TypeOK' /\ HandleInv' /\ KeysDistinct'
      BY <1>0, <2>1 DEF TypeOK, HandleInv, KeysDistinct, Created, timerVars, pollVars
    <2>3. DeadlineInv'
      BY <1>0, <2>1, TimerAssumption DEF DeadlineInv, TypeOK, timerVars
    <2>4. ASSUME NEW t \in Pollers, NEW z \in timers, Oversleeps(t, z)' PROVE Oversleeps(t, z)
      BY <1>0, <2>1, <2>4 DEF Oversleeps, TypeOK, timerVars, pollVars
    <2>5. SomeoneWatches'
      BY <1>0, <2>1, <2>4 DEF SomeoneWatches, timerVars
    <2> QED
      BY <2>2, <2>3, <2>5 DEF TimerInv
  <1>2. CASE UNCHANGED vars
    BY <1>0, <1>2 DEF vars, timerVars, pollVars, TimerInv, TypeOK, DeadlineInv, HandleInv,
       KeysDistinct, SomeoneWatches, Oversleeps, Created
  <1> QED
    BY <1>1, <1>2, AddTimerStep, CancelStep, RefreshStep, PollerStep DEF Next, Client

\* The inductive invariant behind the three theorems below.
LEMMA TimerInvariant == Spec => []TimerInv
  BY InitTimer, TimerStep, PTL DEF Spec

\* The variables of the timers have their types.
THEOREM TimerTypes == Spec => []TypeOK
  <1>1. TimerInv => TypeOK
    BY DEF TimerInv
  <1> QED
    BY <1>1, TimerInvariant, PTL

\* timers_ never holds two timers that its comparator takes for equal,
\* although the keys of its elements change.
THEOREM KeysStayDistinct == Spec => []KeysDistinct
  <1>1. TimerInv => KeysDistinct
    BY DEF TimerInv
  <1> QED
    BY <1>1, TimerInvariant, PTL

\* No timer is slept through, for every number of idle threads and timers.
THEOREM NoTimerSleptThrough == Spec => []SomeoneWatches
  <1>1. TimerInv => SomeoneWatches
    BY DEF TimerInv
  <1> QED
    BY <1>1, TimerInvariant, PTL
=============================================================================
