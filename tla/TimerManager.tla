---------------------------- MODULE TimerManager ----------------------------
(***************************************************************************)
(* The timers of base/Timer.{h,cpp} and the threads that wait for them in  *)
(* IoManager::idle (base/IoManager.cpp).                                   *)
(*                                                                         *)
(* timers_ is a std::set ordered by callCbTime_ ALONE: find, insert and    *)
(* erase take two timers with the same deadline for the same element.  All *)
(* of TimerManager's functions hold TimerManager::mutex_ from beginning to *)
(* end, so each is one action.  The idle loop is several, because nothing  *)
(* is locked between getNextTime, epoll_wait and getExpireCallback.        *)
(***************************************************************************)
EXTENDS Integers, FiniteSets

CONSTANTS
  Timers,      \* Timer objects: one for each call of addTimer
  Pollers,     \* the threads that execute idle()
  Ms,          \* Timer::ms_
  Repeats,     \* the timers with repeat_
  MaxTimeOut,  \* the constant of the same name in idle()
  MaxClock,    \* bound: the last value of the clock
  None

ASSUME TimerAssumption ==
  /\ Ms \in [Timers -> Nat]
  /\ Repeats \subseteq Timers
  /\ MaxTimeOut \in Nat
  /\ MaxClock \in Nat
  /\ None \notin Timers

VARIABLES
  clock,     \* GetTimestampMs()
  timers,    \* timers_
  deadline,  \* Timer::callCbTime_
  handle,    \* what addTimer returned for a timer, None before the call
  awaited,   \* the timers whose callback the client still waits for
  broken,    \* cancel() has erased end(): undefined behaviour
  pipe,      \* bytes in the pipe that tickle() writes to
  pc,        \* where a thread is: away (in run()), waiting, expiring, events
  until,     \* when its epoll_wait times out (0 when it is not waiting)
  sawByte    \* its epoll_wait reported the pipe as readable

timerVars == <<timers, deadline, handle, awaited, broken>>
pollVars  == <<pc, until, sawByte>>
vars == <<clock, timerVars, pipe, pollVars>>

Created == {x \in Timers : handle[x] # None}

\* std::set::find and std::set::insert, which compare deadlines only.
SameKey(d, key) == {y \in timers : d[y] = key}

Init ==
  /\ clock = 0
  /\ timers = {}
  /\ deadline = [x \in Timers |-> 0]
  /\ handle = [x \in Timers |-> None]
  /\ awaited = {}
  /\ broken = FALSE
  /\ pipe = 0
  /\ pc = [t \in Pollers |-> "away"]
  /\ until = [t \in Pollers |-> 0]
  /\ sawByte = [t \in Pollers |-> FALSE]

Tick ==
  /\ clock < MaxClock
  /\ clock' = clock + 1
  /\ UNCHANGED <<timerVars, pipe, pollVars>>

-----------------------------------------------------------------------------
(* The client: addTimer (or addConditionTimer), cancel, refresh *)

\* Mutant: minTimerChange() is called only for the first timer of all.
AddTimerIfEmpty(x) ==
  LET key == clock + Ms[x]
      twins == SameKey(deadline, key)
  IN
  /\ handle[x] = None
  /\ deadline' = [deadline EXCEPT ![x] = key]
  /\ timers' = IF twins = {} THEN timers \cup {x} ELSE timers
  /\ \E h \in (IF twins = {} THEN {x} ELSE twins) : handle' = [handle EXCEPT ![x] = h]
  /\ awaited' = awaited \cup {x}
  /\ pipe' = IF timers = {} THEN pipe + 1 ELSE pipe
  /\ UNCHANGED <<clock, broken, pollVars>>

\* insert() keeps the timer that is already there when the deadlines are
\* equal; minTimerChange() writes a byte when the result is the first timer.
AddTimer(x) ==
  LET key == clock + Ms[x]
      twins == SameKey(deadline, key)
  IN
  /\ handle[x] = None
  /\ deadline' = [deadline EXCEPT ![x] = key]
  /\ timers' = IF twins = {} THEN timers \cup {x} ELSE timers
  /\ \E h \in (IF twins = {} THEN {x} ELSE twins) : handle' = [handle EXCEPT ![x] = h]
  /\ awaited' = awaited \cup {x}
  /\ pipe' = IF \A y \in timers : key <= deadline[y] THEN pipe + 1 ELSE pipe
  /\ UNCHANGED <<clock, broken, pollVars>>

\* The client of x calls cancel() on the timer it was given.
Cancel(x) ==
  LET h == handle[x] IN
  /\ x \in Created
  /\ timers' = timers \ SameKey(deadline, deadline[h])
  /\ broken' = (SameKey(deadline, deadline[h]) = {})
  /\ awaited' = awaited \ {x}
  /\ UNCHANGED <<clock, deadline, handle, pipe, pollVars>>

\* Mutant: the deadline is changed while the timer stays in timers_.
RefreshInPlace(x) ==
  /\ x \in Created
  /\ SameKey(deadline, deadline[handle[x]]) # {}
  /\ deadline' = [deadline EXCEPT ![handle[x]] = clock + Ms[handle[x]]]
  /\ UNCHANGED <<clock, timers, handle, awaited, broken, pipe, pollVars>>

\* The client of x calls refresh() on the timer it was given.
Refresh(x) ==
  LET h == handle[x]
      key == clock + Ms[h]
      rest == timers \ SameKey(deadline, deadline[h])
  IN
  /\ x \in Created
  /\ SameKey(deadline, deadline[h]) # {}
  /\ deadline' = [deadline EXCEPT ![h] = key]
  /\ timers' = IF \E y \in rest : deadline'[y] = key THEN rest ELSE rest \cup {h}
  /\ UNCHANGED <<clock, handle, awaited, broken, pipe, pollVars>>

-----------------------------------------------------------------------------
(* The idle loop *)

\* The result of getNextTime, at most MaxTimeOut: the time left to the first
\* deadline, or 0 when that has passed.
IsNextTime(timeout) ==
  /\ \/ timeout = MaxTimeOut
     \/ \E x \in timers : deadline[x] <= clock + timeout
  /\ timeout = 0 \/ \A x \in timers : clock + timeout <= deadline[x]

\* run() has found no job and resumes the idle fiber, which calls getNextTime
\* and then epoll_wait.  The timeout is counted from getNextTime on: how long
\* the operating system keeps a thread off the processor is not modelled.
Poll(t) ==
  /\ pc[t] = "away"
  /\ pc' = [pc EXCEPT ![t] = "waiting"]
  /\ \E timeout \in 0 .. MaxTimeOut :
       /\ IsNextTime(timeout)
       /\ until' = [until EXCEPT ![t] = clock + timeout]
  /\ UNCHANGED <<clock, timerVars, pipe, sawByte>>

\* epoll_wait returns: the pipe is readable (level-triggered), the time is up,
\* or a descriptor that is not modelled here is ready.
Wake(t) ==
  /\ pc[t] = "waiting"
  /\ pc' = [pc EXCEPT ![t] = "expiring"]
  /\ sawByte' = [sawByte EXCEPT ![t] = (pipe > 0)]
  /\ until' = [until EXCEPT ![t] = 0]
  /\ UNCHANGED <<clock, timerVars, pipe>>

MustWake(t) == pipe > 0 \/ until[t] <= clock

Due == {x \in timers : deadline[x] <= clock}

\* Of the repeating timers that have expired, those that insert() accepts: it
\* goes through them by their old deadline, and the set keeps the first.
Reinserted(rest, rearmed, d) ==
  {x \in rearmed :
     /\ \A y \in rest : d[x] # d[y]
     /\ \A y \in rearmed : d[x] = d[y] => deadline[x] <= deadline[y]}

\* getExpireCallback, and addMultiJob with its tickle() when there is a callback
\* (a second locked section, which touches nothing here but the pipe).
Expire(t) ==
  LET rearmed == Due \cap Repeats IN
  /\ pc[t] = "expiring"
  /\ deadline' = [x \in Timers |-> IF x \in rearmed THEN clock + Ms[x]
                                                    ELSE deadline[x]]
  /\ timers' = (timers \ Due) \cup Reinserted(timers \ Due, rearmed, deadline')
  /\ awaited' = awaited \ (Due \ Repeats)
  /\ pipe' = IF Due = {} THEN pipe ELSE pipe + 1
  /\ pc' = [pc EXCEPT ![t] = "events"]
  /\ UNCHANGED <<clock, handle, broken, until, sawByte>>

\* Mutant: the pipe is read although another thread may have emptied it.
ReadBlindly(t) ==
  /\ pc[t] = "events"
  /\ pc' = [pc EXCEPT ![t] = "away"]
  /\ pipe' = IF sawByte[t] THEN pipe - 1 ELSE pipe
  /\ sawByte' = [sawByte EXCEPT ![t] = FALSE]
  /\ UNCHANGED <<clock, timerVars, until>>

\* The loop over the reported events: tickleRead takes one byte if there is
\* still one, and the idle fiber yields to run().
ReadByte(t) ==
  /\ pc[t] = "events"
  /\ pc' = [pc EXCEPT ![t] = "away"]
  /\ pipe' = IF sawByte[t] /\ pipe > 0 THEN pipe - 1 ELSE pipe
  /\ sawByte' = [sawByte EXCEPT ![t] = FALSE]
  /\ UNCHANGED <<clock, timerVars, until>>

Poller(t) ==
  \/ Poll(t)
  \/ Wake(t)
  \/ Expire(t)
  \/ ReadByte(t)

-----------------------------------------------------------------------------

Client ==
  \/ \E x \in Timers : AddTimer(x)
  \/ \E x \in Timers : Cancel(x)
  \/ \E x \in Timers : Refresh(x)

\* After undefined behaviour nothing more is said.
Next ==
  \/ ~broken /\ Tick
  \/ ~broken /\ Client
  \/ ~broken /\ \E t \in Pollers : Poller(t)
  \/ broken /\ UNCHANGED vars

Spec == Init /\ [][Next]_vars

\* A thread whose epoll_wait is over goes on, and comes back to idle() from
\* the jobs that it runs.
Fairness ==
  \A t \in Pollers :
    /\ WF_vars(~broken /\ (Poll(t) \/ Expire(t) \/ ReadByte(t)))
    /\ WF_vars(~broken /\ MustWake(t) /\ Wake(t))

FairSpec == Spec /\ Fairness

-----------------------------------------------------------------------------
(* Properties *)

TypeOK ==
  /\ clock \in Nat
  /\ timers \in SUBSET Created
  /\ deadline \in [Timers -> Nat]
  /\ handle \in [Timers -> Timers \cup {None}]
  /\ awaited \in SUBSET Timers
  /\ broken \in BOOLEAN
  /\ pipe \in Nat
  /\ pc \in [Pollers -> {"away", "waiting", "expiring", "events"}]
  /\ until \in [Pollers -> Nat]
  /\ sawByte \in [Pollers -> BOOLEAN]

\* timers_ stays a set under its own comparator although refresh and
\* getExpireCallback change the key callCbTime_ of its elements: no two
\* elements ever compare equal.
KeysDistinct ==
  \A x, y \in timers : deadline[x] = deadline[y] => x = y

\* Thread t sleeps beyond the deadline of x, and not only until right now.
Oversleeps(t, x) ==
  pc[t] = "waiting" /\ until[t] > deadline[x] /\ until[t] > clock

\* A timer is never slept through: when every thread is in (or on its way
\* into) epoll_wait and all of them would wait beyond the deadline of some
\* timer, there is a byte in the pipe that wakes them.  getNextTime and
\* epoll_wait are not one atomic step, bytes are taken by other threads, and
\* refresh and getExpireCallback insert timers without minTimerChange.
SomeoneWatches ==
  Pollers # {} /\ ~broken =>
    \/ pipe > 0
    \/ \E t \in Pollers : \A x \in timers : ~Oversleeps(t, x)

\* A timer that is due is eventually collected, cancelled or refreshed.
DueIsCollected ==
  \A x \in Timers : x \in Due ~> x \notin Due \/ broken

\* addTimer adds a timer ("添加一个定时器"): until its callback is collected or
\* its client cancels it, the timer is in timers_.
KeepsTimers == awaited \subseteq timers
=============================================================================
