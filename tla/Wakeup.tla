------------------------------- MODULE Wakeup -------------------------------
(***************************************************************************)
(* How the threads of an IoManager sleep and are woken: the pipe that      *)
(* tickle() writes a byte to, epoll_wait, which reports the pipe to every  *)
(* thread that waits as long as there is a byte in it (it is registered    *)
(* without EPOLLET), and the locks that are held while the byte is written *)
(* (base/IoManager.cpp, with addJob, addMultiJob, run and stop of          *)
(* base/Scheduler and addTimer of base/Timer).                             *)
(*                                                                         *)
(* The pipe has a capacity: a write to a full pipe blocks, and the writer  *)
(* keeps the lock it holds.  Each turn of idle() reads one byte at most.   *)
(* The module is about who is awake.  It leaves out fibers and the race on *)
(* avtiveThreadCount_ (Scheduler has them), descriptors other than the     *)
(* pipe (IoEvents), and the order of the queue and of the timers: any      *)
(* entry that a thread may take is taken, any set of timers expires.       *)
(***************************************************************************)
EXTENDS Integers, FiniteSets

CONSTANTS
  Workers,     \* the threads that start() creates
  Main,        \* the thread that constructs the IoManager and calls stop()
  CallerJoin,  \* does Main run jobs once it stops the scheduler?
  Jobs,        \* callables; each is handed over once
  Timed,       \* those that are handed to addTimer, the others to addJob
  Empty,       \* those that are empty functions
  BoundTo,     \* the thread that a job is bound to, or None
  Capacity,    \* how many bytes the pipe holds
  MaxYield,    \* bound: how often a job yields READY
  None

Threads == Workers \cup {Main}
Runners == Workers \cup (IF CallerJoin THEN {Main} ELSE {})

ASSUME WakeupAssumption ==
  /\ IsFiniteSet(Workers)
  /\ Main \notin Workers
  /\ CallerJoin \in BOOLEAN
  /\ BoundTo \in [Jobs -> Runners \cup {None}]
  /\ Timed \subseteq {j \in Jobs : BoundTo[j] = None}
  /\ Empty \subseteq Jobs
  /\ Capacity \in Nat \ {0}
  /\ MaxYield \in [Jobs -> Nat]
  /\ None \notin Threads \cup Jobs

VARIABLES
  queue,      \* tasks_: entries [job, to]
  queueLock,  \* the holder of Scheduler::mutex_, or None
  timers,     \* the callbacks of the timers in timers_
  timerLock,  \* the holder of TimerManager::mutex_, or None
  pipe,       \* the number of bytes in the pipe
  pc,         \* where a thread is
  then,       \* where it goes on when tickle() returns
  job,        \* the job that a thread has taken
  batch,      \* the local variable timerCallbacks of idle()
  reported,   \* epoll_wait has reported the pipe to the thread
  left,       \* the threads whose idle() has ended
  added, finished, yields,  \* what has become of a job
  stopping,   \* isStop_
  ticks,      \* the calls of tickle() that stop() has still to make
  stopped     \* stop() has returned

sharedVars == <<queue, queueLock, timers, timerLock, pipe>>
threadVars == <<pc, then, job, batch, reported, left>>
jobVars    == <<added, finished, yields>>
stopVars   == <<stopping, ticks, stopped>>
vars == <<sharedVars, threadVars, jobVars, stopVars>>

Init ==
  /\ queue = {}
  /\ queueLock = None
  /\ timers = {}
  /\ timerLock = None
  /\ pipe = 0
  /\ pc = [t \in Threads |-> IF t = Main THEN "out" ELSE "fetch"]
  /\ then = [t \in Threads |-> "out"]
  /\ job = [t \in Threads |-> None]
  /\ batch = [t \in Threads |-> {}]
  /\ reported = [t \in Threads |-> FALSE]
  /\ left = {}
  /\ added = {}
  /\ finished = {}
  /\ yields = [j \in Jobs |-> 0]
  /\ stopping = FALSE
  /\ ticks = 0
  /\ stopped = FALSE

-----------------------------------------------------------------------------
(* tickle, addJob, addTimer *)

Entry(j, to) == [job |-> j, to |-> to]

\* write() of one byte; next is where thread t goes on.  A full pipe blocks it,
\* with the lock that it holds.
Tickle(t, next) ==
  \/ /\ pipe < Capacity
     /\ pipe' = pipe + 1
     /\ pc' = [pc EXCEPT ![t] = next]
     /\ UNCHANGED then
  \/ /\ pipe = Capacity
     /\ pc' = [pc EXCEPT ![t] = "write"]
     /\ then' = [then EXCEPT ![t] = next]
     /\ UNCHANGED pipe

\* The holder of the lock under which t calls tickle(), after the step.  Where
\* nothing blocks, addJob, addMultiJob and addTimer are one step.
HeldBy(t) == IF pipe = Capacity THEN t ELSE None

\* Mutant: the lock is not given back after a wait.
WriteKeepsLock(t) ==
  /\ pc[t] = "write"
  /\ pipe < Capacity
  /\ pipe' = pipe + 1
  /\ pc' = [pc EXCEPT ![t] = then[t]]
  /\ UNCHANGED <<queue, queueLock, timers, timerLock, then, job, batch, reported,
                 left, jobVars, stopVars>>

\* A blocked write() succeeds; the caller of tickle() unlocks.
Write(t) ==
  /\ pc[t] = "write"
  /\ pipe < Capacity
  /\ pipe' = pipe + 1
  /\ queueLock' = IF queueLock = t THEN None ELSE queueLock
  /\ timerLock' = IF timerLock = t THEN None ELSE timerLock
  /\ pc' = [pc EXCEPT ![t] = then[t]]
  /\ UNCHANGED <<queue, timers, then, job, batch, reported, left, jobVars, stopVars>>

\* A thread that executes code of the user: Main, or a job.
Acts(t) ==
  \/ pc[t] = "run"
  \/ /\ pc[t] = "out"
     /\ ~stopping

\* Mutant: a byte is written only when a thread is waiting at this moment.
AddJobIfWaiting(t, j) ==
  /\ Acts(t)
  /\ j \in Jobs \ (Timed \cup Empty \cup added)
  /\ queueLock = None
  /\ queue' = queue \cup {Entry(j, BoundTo[j])}
  /\ added' = added \cup {j}
  /\ IF \E u \in Threads : pc[u] = "poll"
     THEN queueLock' = HeldBy(t) /\ Tickle(t, pc[t])
     ELSE UNCHANGED <<queueLock, pipe, pc, then>>
  /\ UNCHANGED <<timers, timerLock, job, batch, reported, left, finished, yields, stopVars>>

\* addJob refuses an empty function.
AddJob(t, j) ==
  /\ Acts(t)
  /\ j \in Jobs \ (Timed \cup Empty \cup added)
  /\ queueLock = None
  /\ queueLock' = HeldBy(t)
  /\ queue' = queue \cup {Entry(j, BoundTo[j])}
  /\ added' = added \cup {j}
  /\ Tickle(t, pc[t])
  /\ UNCHANGED <<timers, timerLock, job, batch, reported, left, finished, yields, stopVars>>

\* addTimer: minTimerChange() is called, under the lock of the timers, when
\* the new timer is the first.
AddTimer(t, j) ==
  /\ Acts(t)
  /\ j \in Timed \ added
  /\ timerLock = None
  /\ timers' = timers \cup {j}
  /\ added' = added \cup {j}
  /\ \/ /\ timerLock' = HeldBy(t)
        /\ Tickle(t, pc[t])
     \/ /\ timers # {}
        /\ UNCHANGED <<timerLock, pipe, pc, then>>
  /\ UNCHANGED <<queue, queueLock, job, batch, reported, left, finished, yields, stopVars>>

-----------------------------------------------------------------------------
(* run() *)

Takeable(t) == {e \in queue : e.to \in {None, t}}

\* Nothing (valid) was found: resume the idle fiber, or leave if it has ended.
Rest(t) == pc' = [pc EXCEPT ![t] = IF t \in left THEN "done" ELSE "timers"]

Take(t) ==
  /\ pc[t] = "fetch"
  /\ queueLock = None
  /\ \E e \in Takeable(t) :
       /\ queue' = queue \ {e}
       /\ IF e.job \in Empty
          THEN Rest(t) /\ UNCHANGED job
          ELSE /\ job' = [job EXCEPT ![t] = e.job]
               /\ pc' = [pc EXCEPT ![t] = "run"]
  /\ UNCHANGED <<queueLock, timers, timerLock, pipe, then, batch, reported,
                 left, jobVars, stopVars>>

FindNothing(t) ==
  /\ pc[t] = "fetch"
  /\ queueLock = None
  /\ Takeable(t) = {}
  /\ Rest(t)
  /\ UNCHANGED <<sharedVars, then, job, batch, reported, left, jobVars, stopVars>>

JobEnds(t) ==
  /\ pc[t] = "run"
  /\ finished' = finished \cup {job[t]}
  /\ job' = [job EXCEPT ![t] = None]
  /\ pc' = [pc EXCEPT ![t] = "fetch"]
  /\ UNCHANGED <<sharedVars, then, batch, reported, left, added, yields, stopVars>>

\* YieldToReady: the thread is not counted as active any more.
YieldToReady(t) ==
  /\ pc[t] = "run"
  /\ yields[job[t]] < MaxYield[job[t]]
  /\ yields' = [yields EXCEPT ![job[t]] = @ + 1]
  /\ pc' = [pc EXCEPT ![t] = "readd"]
  /\ UNCHANGED <<sharedVars, then, job, batch, reported, left, added, finished, stopVars>>

\* Mutant: a scheduler that is stopping drops the fiber.
ReaddUnlessStopping(t) ==
  /\ pc[t] = "readd"
  /\ queueLock = None
  /\ queueLock' = HeldBy(t)
  /\ queue' = queue \cup (IF stopping THEN {} ELSE {Entry(job[t], None)})
  /\ job' = [job EXCEPT ![t] = None]
  /\ Tickle(t, "fetch")
  /\ UNCHANGED <<timers, timerLock, batch, reported, left, jobVars, stopVars>>

\* addJob(cbFiber): the fiber is bound to no thread.
Readd(t) ==
  /\ pc[t] = "readd"
  /\ queueLock = None
  /\ queueLock' = HeldBy(t)
  /\ queue' = queue \cup {Entry(job[t], None)}
  /\ job' = [job EXCEPT ![t] = None]
  /\ Tickle(t, "fetch")
  /\ UNCHANGED <<timers, timerLock, batch, reported, left, jobVars, stopVars>>

-----------------------------------------------------------------------------
(* idle() *)

\* IoManager::isStop() asks for the timers first ...
SeeTimers(t) ==
  /\ pc[t] = "timers"
  /\ timerLock = None
  /\ pc' = [pc EXCEPT ![t] = IF timers = {} THEN "tasks" ELSE "next"]
  /\ UNCHANGED <<sharedVars, then, job, batch, reported, left, jobVars, stopVars>>

\* The threads that avtiveThreadCount_ counts.
Runs(t) == pc[t] = "run" \/ (pc[t] = "write" /\ then[t] = "run")
Active == {t \in Threads : Runs(t)}

\* ... then for the queue and the active threads.
SeeTasks(t) ==
  /\ pc[t] = "tasks"
  /\ queueLock = None
  /\ IF stopping /\ queue = {} /\ Active = {}
     THEN /\ left' = left \cup {t}
          /\ pc' = [pc EXCEPT ![t] = "fetch"]
     ELSE /\ pc' = [pc EXCEPT ![t] = "next"]
          /\ UNCHANGED left
  /\ UNCHANGED <<sharedVars, then, job, batch, reported, jobVars, stopVars>>

\* getNextTime() locks the timers; what it returns is left open.
GetNextTime(t) ==
  /\ pc[t] = "next"
  /\ timerLock = None
  /\ pc' = [pc EXCEPT ![t] = "poll"]
  /\ UNCHANGED <<sharedVars, then, job, batch, reported, left, jobVars, stopVars>>

\* epoll_wait returns at once, in every thread that calls it, as long as there
\* is a byte in the pipe, which addEvent registers without EPOLLET ...
PollReports(t) ==
  /\ pc[t] = "poll"
  /\ pipe > 0
  /\ reported' = [reported EXCEPT ![t] = TRUE]
  /\ pc' = [pc EXCEPT ![t] = "expire"]
  /\ UNCHANGED <<sharedVars, then, job, batch, left, jobVars, stopVars>>

\* Mutant: the time to wait has no limit of its own.
PollWaitsForTimers(t) ==
  /\ pc[t] = "poll"
  /\ pipe = 0
  /\ timers # {}
  /\ pc' = [pc EXCEPT ![t] = "expire"]
  /\ UNCHANGED <<sharedVars, then, job, batch, reported, left, jobVars, stopVars>>

\* ... or returns after MaxTimeOut at the latest.
PollTimesOut(t) ==
  /\ pc[t] = "poll"
  /\ pipe = 0
  /\ pc' = [pc EXCEPT ![t] = "expire"]
  /\ UNCHANGED <<sharedVars, then, job, batch, reported, left, jobVars, stopVars>>

\* getExpireCallback() takes the timers that are due.
Expire(t) ==
  /\ pc[t] = "expire"
  /\ timerLock = None
  /\ \E due \in SUBSET timers :
       /\ timers' = timers \ due
       /\ batch' = [batch EXCEPT ![t] = due]
       /\ pc' = [pc EXCEPT ![t] = IF due = {} THEN "dispatch" ELSE "batch"]
  /\ UNCHANGED <<queue, queueLock, timerLock, pipe, then, job, reported,
                 left, jobVars, stopVars>>

\* addMultiJob queues all of them, the empty ones too, and writes one byte.
QueueBatch(t) ==
  /\ pc[t] = "batch"
  /\ queueLock = None
  /\ queueLock' = HeldBy(t)
  /\ queue' = queue \cup {Entry(j, None) : j \in batch[t]}
  /\ batch' = [batch EXCEPT ![t] = {}]
  /\ Tickle(t, "dispatch")
  /\ UNCHANGED <<timers, timerLock, job, reported, left, jobVars, stopVars>>

\* tickleRead() takes one byte, if the pipe was reported and nobody has taken the
\* byte in between; back to run().
Dispatch(t) ==
  /\ pc[t] = "dispatch"
  /\ pipe' = IF reported[t] /\ pipe > 0 THEN pipe - 1 ELSE pipe
  /\ reported' = [reported EXCEPT ![t] = FALSE]
  /\ pc' = [pc EXCEPT ![t] = "fetch"]
  /\ UNCHANGED <<queue, queueLock, timers, timerLock, then, job, batch,
                 left, jobVars, stopVars>>

-----------------------------------------------------------------------------
(* stop() *)

Stop ==
  /\ pc[Main] = "out"
  /\ ~stopping
  /\ stopping' = TRUE
  /\ ticks' = Cardinality(Runners)
  /\ UNCHANGED <<sharedVars, threadVars, jobVars, stopped>>

\* One tickle() for each thread, without a lock; then rootFiber_->call(),
\* when the caller joins.
StopTickles ==
  /\ pc[Main] = "out"
  /\ stopping
  /\ IF ticks > 0
     THEN ticks' = ticks - 1 /\ Tickle(Main, "out")
     ELSE /\ pc' = [pc EXCEPT ![Main] = IF CallerJoin THEN "fetch" ELSE "done"]
          /\ UNCHANGED <<pipe, ticks, then>>
  /\ UNCHANGED <<queue, queueLock, timers, timerLock, job, batch, reported, left,
                 jobVars, stopping, stopped>>

StopReturns ==
  /\ stopping
  /\ \A t \in Threads : pc[t] = "done"
  /\ ~stopped
  /\ stopped' = TRUE
  /\ UNCHANGED <<sharedVars, threadVars, jobVars, stopping, ticks>>

-----------------------------------------------------------------------------

Step(t) ==
  \/ Write(t)
  \/ t = Main /\ (StopTickles \/ StopReturns)
  \/ Take(t) \/ FindNothing(t) \/ JobEnds(t) \/ YieldToReady(t) \/ Readd(t)
  \/ SeeTimers(t) \/ SeeTasks(t) \/ GetNextTime(t)
  \/ PollReports(t) \/ PollTimesOut(t) \/ Expire(t) \/ QueueBatch(t) \/ Dispatch(t)

Next ==
  \/ \E t \in Threads, j \in Jobs : AddJob(t, j) \/ AddTimer(t, j)
  \/ \E t \in Threads : Step(t)
  \/ Stop
  \/ (stopped /\ UNCHANGED vars)

Spec == Init /\ [][Next]_vars

Expires(j) == \E t \in Runners : Expire(t) /\ j \in timers \ timers'

\* Threads go on, jobs end, stop() is executed to its end; time passes, so that
\* a timer expires.  Nobody has to add anything, or to stop.
Fairness ==
  /\ \A t \in Threads : WF_vars(Step(t))
  /\ \A j \in Timed : SF_vars(Expires(j))

FairSpec == Spec /\ Fairness

-----------------------------------------------------------------------------
(* Properties *)

Places == {"out", "write", "fetch", "run", "readd", "timers", "tasks", "next",
           "poll", "expire", "batch", "dispatch", "done"}

\* Types; and who holds a lock is in the middle of tickle().
TypeOK ==
  /\ queue \subseteq [job : Jobs, to : Runners \cup {None}]
  /\ queueLock \in Threads \cup {None}
  /\ timers \subseteq Jobs
  /\ timerLock \in Threads \cup {None}
  /\ pipe \in 0 .. Capacity
  /\ pc \in [Threads -> Places]
  /\ then \in [Threads -> {"out", "fetch", "run", "dispatch"}]
  /\ job \in [Threads -> Jobs \cup {None}]
  /\ \A t \in Threads : Runs(t) \/ pc[t] = "readd" => job[t] # None
  /\ batch \in [Threads -> SUBSET Jobs]
  /\ reported \in [Threads -> BOOLEAN]
  /\ left \subseteq Threads
  /\ added \subseteq Jobs
  /\ finished \subseteq Jobs
  /\ yields \in [Jobs -> Nat]
  /\ \A j \in Jobs : yields[j] <= MaxYield[j]
  /\ stopping \in BOOLEAN
  /\ ticks \in Nat
  /\ stopped \in BOOLEAN
  /\ \A t \in Threads : t \in {queueLock, timerLock} => pc[t] = "write"

\* The thread scans the queue before it may sleep.
WillScan(t) == pc[t] \in {"fetch", "run", "readd", "expire", "batch", "dispatch"}

Unbound == {e \in queue : e.to = None}

\* While a job that any thread may run is in the queue, the threads cannot all
\* sleep: there is a byte in the pipe, or somebody is about to write one, or
\* somebody comes by the queue, however many jobs one byte stands for and whoever
\* reads it.  (An empty callback breaks this: the thread that takes it goes to
\* sleep without another look at the queue.)
WokenForWork ==
  Unbound # {} /\ added \cap Empty = {} =>
    \/ pipe > 0
    \/ \E t \in Threads : pc[t] = "write"
    \/ \E t \in Runners : WillScan(t)

\* t waits for room in the pipe, or for a lock that another thread holds.
Stuck(t) ==
  \/ /\ pc[t] = "write"
     /\ pipe = Capacity
  \/ /\ pc[t] \in {"fetch", "readd", "tasks", "batch"}
     /\ queueLock \notin {None, t}
  \/ /\ pc[t] \in {"timers", "next", "expire"}
     /\ timerLock \notin {None, t}

\* A write() that will never return: nobody is left to read.
Frozen ==
  /\ \E t \in Threads : pc[t] = "write" /\ pipe = Capacity
  /\ \A t \in Runners : pc[t] \in {"out", "done"} \/ Stuck(t)

\* tickle() wakes threads (IoManager.cpp:400, "wake from blocking"): it does
\* not block itself and every thread that runs jobs with it.
TickleReturns == ~Frozen

\* A job that is bound to a thread that has left run() stays in the queue.
Stranded == {e \in queue : e.to # None /\ pc[e.to] = "done"}

\* A job is run to its end, however it was added: no wake-up is lost for good,
\* through bytes that another thread has read, wake-ups of the wrong thread, empty
\* callbacks, READY fibers and callbacks that are in a local vector only.  stop()
\* makes two exceptions: a timer that a job adds while idle() is in the middle of
\* isStop(), and a job whose thread has left before it was added.  A full pipe
\* makes the third.
JobsRun == \A j \in {i \in Jobs \ Empty : BoundTo[i] # Main} :
  (j \in added) ~>
    \/ j \in finished
    \/ j \in timers /\ \A t \in Runners : pc[t] = "done"
    \/ j \in {e.job : e \in Stranded}
    \/ Frozen

\* stop() returns, although one thread may read the bytes of all its tickles
\* before the others wait: they come by within MaxTimeOut.  The exceptions are a
\* stranded job and a full pipe.
StopEnds == stopping ~> (stopped \/ Stranded # {} \/ Frozen)
=============================================================================
