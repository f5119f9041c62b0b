----------------------------- MODULE IoScheduler -----------------------------
(***************************************************************************)
(* The scheduler as IoManager and the hooked sleep() use it                *)
(* (base/IoManager.cpp, base/Hook.cpp): jobs sleep by suspending their     *)
(* fiber, and a timer callback adds the fiber again.  IoManager::idle and  *)
(* IoManager::isStop replace those of Scheduler; all else is inherited.    *)
(*                                                                         *)
(* A sleeper's timer has no twin here (TimerManager is about that), and    *)
(* when it expires is left open: Collect takes any set of armed timers.    *)
(***************************************************************************)
EXTENDS Scheduler

CONSTANTS
  Sleepers,  \* the jobs that call sleep(), once each
  WakerOf    \* the callable bind(&addJob, fiber) that sleep() hands to addTimer

Wakers == {WakerOf[s] : s \in Sleepers}

ASSUME IoAssumption ==
  /\ Sleepers \subseteq Jobs
  /\ WakerOf \in [Sleepers -> Jobs \ Sleepers]
  /\ \A s, u \in Sleepers : WakerOf[s] = WakerOf[u] => s = u
  /\ \A w \in Wakers : ThreadIdOf[w] = -1

VARIABLES
  sleep,   \* how far a sleeper is: no, armed (timer added), asleep (yielded)
  armed,   \* the sleepers whose timer is in timers_
  target,  \* the fiber that the timer of a sleeper will add
  woken,   \* the sleepers whose callback has added the fiber
  corrupt, \* a context that has not been saved yet has been resumed
  idlePc,  \* where a thread is in IoManager::idle
  batch    \* its local variable timerCallbacks

sleepVars == <<sleep, target, woken, corrupt>>
idleVars  == <<idlePc, batch>>
ioVars == <<vars, sleepVars, armed, idleVars>>

IoInit ==
  /\ Init
  /\ sleep = [s \in Sleepers |-> "no"]
  /\ armed = {}
  /\ target = [s \in Sleepers |-> None]
  /\ woken = {}
  /\ corrupt = FALSE
  /\ idlePc = [t \in Threads |-> "check"]
  /\ batch = [t \in Threads |-> {}]

-----------------------------------------------------------------------------
(* Jobs *)

\* The callable that the thread is executing.
Executing(t) == IF pc[t] = "run" THEN fcb[cbFiber[t]] ELSE None

Arming(t) == Executing(t) \in Sleepers /\ sleep[Executing(t)] = "armed"

\* Mutant: the callback is bound to no fiber.
ArmWithoutFiber(t) ==
  LET s == Executing(t) IN
  /\ s \in Sleepers
  /\ sleep[s] = "no"
  /\ sleep' = [sleep EXCEPT ![s] = "armed"]
  /\ armed' = armed \cup {s}
  /\ UNCHANGED <<vars, target, woken, corrupt, idleVars>>

\* sleep(): addTimer is called while the fiber is still running.
ArmTimer(t) ==
  LET s == Executing(t) IN
  /\ s \in Sleepers
  /\ sleep[s] = "no"
  /\ sleep' = [sleep EXCEPT ![s] = "armed"]
  /\ armed' = armed \cup {s}
  /\ target' = [target EXCEPT ![s] = cbFiber[t]]
  /\ UNCHANGED <<vars, woken, corrupt, idleVars>>

\* ... and YieldToSuspended comes after it.
FallAsleep(t) ==
  /\ Arming(t)
  /\ YieldToSuspended(t)
  /\ sleep' = [sleep EXCEPT ![Executing(t)] = "asleep"]
  /\ UNCHANGED <<armed, target, woken, corrupt, idleVars>>

\* The timer callback, run as a job of its own: addJob(fiber).
WakerAdds(t) ==
  \E s \in Sleepers \ woken :
    /\ Executing(t) = WakerOf[s]
    /\ mutex = None
    /\ tasks' = Append(tasks, target[s])
    /\ woken' = woken \cup {s}
    /\ UNCHANGED <<mainVars, mutex, added, active, loopVars, fiberVars, aborted,
                   sleep, armed, target, corrupt, idleVars>>

\* A sleeper sleeps before it ends, and a waker adds its fiber.
MayEnd(t) ==
  /\ Executing(t) \in Sleepers => sleep[Executing(t)] = "asleep"
  /\ \A s \in Sleepers \ woken : Executing(t) # WakerOf[s]

\* The fiber that thread t is about to resume is still executing, or saving
\* its context, on another thread.
Unsaved(t) ==
  /\ pc[t] = "resume"
  /\ job[t] \in Fibers
  /\ \E u \in Runners : cbFiber[u] = job[t] /\ pc[u] \in {"run", "switch"}

\* Its state is SUSPENDED already: the assertion of resume holds, and what the
\* old context makes the thread do is undefined.
ResumeUnsaved(t) ==
  /\ Unsaved(t)
  /\ fstate[job[t]] # "RUNNING"
  /\ corrupt' = TRUE
  /\ UNCHANGED <<vars, sleep, target, woken, armed, idleVars>>

-----------------------------------------------------------------------------
(* IoManager::idle and IoManager::isStop *)

AtIdle(t, where) == pc[t] = "idle" /\ idlePc[t] = where

GoIdle(t, where) == idlePc' = [idlePc EXCEPT ![t] = where]

LeaveIdle(t, state) ==
  /\ pc' = [pc EXCEPT ![t] = "fetch"]
  /\ idleFiber' = [idleFiber EXCEPT ![t] = state]
  /\ GoIdle(t, "check")

\* Mutant: IoManager::isStop() does not ask for the timers.
SeeNoTimers(t) ==
  /\ AtIdle(t, "check")
  /\ GoIdle(t, "stop")
  /\ UNCHANGED <<vars, sleepVars, armed, batch>>

\* isStop: TimerManager::empty() first, under the mutex of the timers
\* (pendingEventCount_ is zero: no descriptors here) ...
SeeTimers(t) ==
  /\ AtIdle(t, "check")
  /\ GoIdle(t, IF armed = {} THEN "stop" ELSE "wait")
  /\ UNCHANGED <<vars, sleepVars, armed, batch>>

\* ... then Scheduler::isStop(), under the mutex of the scheduler.
SeeScheduler(t) ==
  /\ AtIdle(t, "stop")
  /\ mutex = None
  /\ IF IsStop
     THEN LeaveIdle(t, "TERM")
     ELSE GoIdle(t, "wait") /\ UNCHANGED <<pc, idleFiber>>
  /\ UNCHANGED <<mainVars, queueVars, active, job, loaded, cbFiber, fiberVars,
                 aborted, sleepVars, armed, batch>>

\* epoll_wait has returned: getExpireCallback.
Collect(t) ==
  /\ AtIdle(t, "wait")
  /\ \E expired \in SUBSET armed :
       /\ armed' = armed \ expired
       /\ batch' = [batch EXCEPT ![t] = expired]
  /\ GoIdle(t, "queue")
  /\ UNCHANGED <<vars, sleepVars>>

\* Mutant: a scheduler that is stopping drops the callbacks.
DropBatchIfStopping(t) ==
  /\ AtIdle(t, "queue")
  /\ mutex = None
  /\ \E order \in SetToSeqs(IF isStop THEN {} ELSE batch[t]) :
       tasks' = tasks \o [i \in DOMAIN order |-> WakerOf[order[i]]]
  /\ added' = added \cup {WakerOf[s] : s \in batch[t]}
  /\ batch' = [batch EXCEPT ![t] = {}]
  /\ LeaveIdle(t, "SUSPENDED")
  /\ UNCHANGED <<mainVars, mutex, active, job, loaded, cbFiber, fiberVars,
                 aborted, sleepVars, armed>>

\* addMultiJob, and the idle fiber yields to run().
QueueBatch(t) ==
  /\ AtIdle(t, "queue")
  /\ mutex = None
  /\ \E order \in SetToSeqs(batch[t]) :
       tasks' = tasks \o [i \in DOMAIN order |-> WakerOf[order[i]]]
  /\ added' = added \cup {WakerOf[s] : s \in batch[t]}
  /\ batch' = [batch EXCEPT ![t] = {}]
  /\ LeaveIdle(t, "SUSPENDED")
  /\ UNCHANGED <<mainVars, mutex, active, job, loaded, cbFiber, fiberVars,
                 aborted, sleepVars, armed>>

IoIdle(t) == SeeTimers(t) \/ SeeScheduler(t) \/ Collect(t) \/ QueueBatch(t)

-----------------------------------------------------------------------------

IoUnchanged == UNCHANGED <<sleepVars, armed, idleVars>>

\* The constructor of IoManager calls start() itself: nobody adds a job before.
IoMain ==
  /\ IoUnchanged
  /\ \/ mainPc = "started" /\ \E j \in Jobs \ Wakers : MainAdds(j)
     \/ Start
     \/ \E w \in Workers : Spawn(w) \/ PublishId(w)
     \/ StartReturns
     \/ Stop
     \/ StopReturns

\* run() and the jobs, where they are inherited.
IoLoop(t) ==
  /\ IoUnchanged
  /\ \/ TakeJob(t) \/ CountUp(t) \/ FindNothing(t)
     \/ ResumeFiber(t) /\ (Unsaved(t) => fstate[job[t]] = "RUNNING")
     \/ ResetAndResume(t) \/ NewAndResume(t)
     \/ SwitchBack(t) \/ CountDownLoad(t) \/ CountDownStore(t)
     \/ DispatchReady(t) \/ DispatchEnded(t) \/ DispatchSuspended(t)

IoJob(t) ==
  \/ ArmTimer(t)
  \/ FallAsleep(t)
  \/ WakerAdds(t)
  \/ /\ MayEnd(t)
     /\ JobEnds(t)
     /\ IoUnchanged
  \/ /\ Executing(t) \notin Sleepers \cup Wakers
     /\ YieldToReady(t) \/ \E j \in Jobs \ Wakers : JobAdds(t, j)
     /\ IoUnchanged

IoThread(t) == IoLoop(t) \/ ResumeUnsaved(t) \/ IoJob(t) \/ IoIdle(t)

\* The process runs, and nothing undefined has happened.
Alive == ~aborted /\ ~corrupt

IoTerminated ==
  /\ mainPc = "stopped" \/ ~Alive
  /\ UNCHANGED ioVars

IoNext ==
  \/ Alive /\ IoMain
  \/ Alive /\ \E t \in Runners : IoThread(t)
  \/ IoTerminated

IoSpec == IoInit /\ [][IoNext]_ioVars

Expires(s) == \E t \in Runners : Collect(t) /\ s \in armed \ armed'

\* Threads go on; time passes, so that every timer expires at last.
IoFairness ==
  /\ \A t \in Runners : WF_ioVars(Alive /\ IoThread(t))
  /\ \A s \in Sleepers : SF_ioVars(Alive /\ Expires(s))
  /\ WF_ioVars(/\ Alive
               /\ IoUnchanged
               /\ \/ \E w \in Workers : Spawn(w) \/ PublishId(w)
                  \/ StartReturns
                  \/ StopReturns)

IoFairSpec == IoSpec /\ IoFairness

-----------------------------------------------------------------------------
(* Properties *)

IoTypeOK ==
  /\ TypeOK
  /\ sleep \in [Sleepers -> {"no", "armed", "asleep"}]
  /\ armed \in SUBSET Sleepers
  /\ target \in [Sleepers -> Fibers \cup {None}]
  /\ woken \in SUBSET Sleepers
  /\ corrupt \in BOOLEAN
  /\ idlePc \in [Threads -> {"check", "stop", "wait", "queue"}]
  /\ batch \in [Threads -> SUBSET Sleepers]

\* stop() returns only when everybody who sleeps has been woken and has ended:
\* the three parts of IoManager::isStop() are read one after the other, and
\* between getExpireCallback and addMultiJob a callback is in no shared place.
NoSleeperLost ==
  mainPc = "stopped" =>
    \A j \in added : ThreadIdOf[j] = -1 => Status(j) = "ended"

\* A sleeper wakes up and ends.
SleepersReturn ==
  \A s \in Sleepers : s \in armed ~> Status(s) = "ended"
=============================================================================
