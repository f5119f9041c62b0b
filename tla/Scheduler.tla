------------------------------ MODULE Scheduler ------------------------------
(***************************************************************************)
(* The coroutine scheduler of base/Scheduler.{h,cpp}: a queue of jobs, the *)
(* run() loop that every pool thread executes, the main program that       *)
(* constructs, starts and stops the scheduler, and the Fiber objects the   *)
(* loop resumes (base/Fiber.{h,cpp}).                                      *)
(*                                                                         *)
(* Granularity.  A section guarded by Scheduler::mutex_ is one action when *)
(* nothing outside the lock can interfere with it.  The pop in run() is    *)
(* two (TakeJob, CountUp), because run() decrements avtiveThreadCount_     *)
(* WITHOUT the lock: CountDownLoad and CountDownStore are the load and the *)
(* store of that decrement, and they interleave with the increment.        *)
(***************************************************************************)
EXTENDS Integers, Sequences, FiniteSets, SequencesExt

CONSTANTS
  Workers,     \* the threads that start() creates (threadNum_ of them)
  Root,        \* the thread that constructs the scheduler and calls stop()
  CallerJoin,  \* constructor argument: does Root run jobs too?
  Jobs,        \* callables; each is handed to addJob at most once
  Fibers,      \* Fiber objects
  ThreadIdOf,  \* job::threadId: an index into threadIds_, or -1
  MaxYield,    \* bound: how often one job gives up the processor
  None

Threads == Workers \cup {Root}

\* The threads that execute run().
Runners == Workers \cup (IF CallerJoin THEN {Root} ELSE {})

ASSUME SchedulerAssumption ==
  /\ IsFiniteSet(Workers)
  /\ CallerJoin \in BOOLEAN
  /\ Root \notin Workers
  /\ CallerJoin \/ Workers # {}
  /\ Jobs \cap Fibers = {}
  /\ None \notin Threads \cup Jobs \cup Fibers
  /\ MaxYield \in Nat
  /\ ThreadIdOf \in [Jobs -> Int]
  /\ \A j \in Jobs : ThreadIdOf[j] >= -1

VARIABLES
  mainPc,      \* where the main program is: built, starting, started, ...
  spawned,     \* the workers that start() has created
  threadIds,   \* threadIds_
  isStop,      \* isStop_
  mutex,       \* the holder of Scheduler::mutex_, or None
  tasks,       \* tasks_: a job is its callable, or a Fiber that was re-added
  added,       \* the callables handed to addJob so far
  active,      \* avtiveThreadCount_ (-1 stands for the wrapped 2^64 - 1)
  pc,          \* position of every thread in run()
  job,         \* the local variable j of run()
  loaded,      \* avtiveThreadCount_ as last loaded by the thread
  cbFiber,     \* the local variable cbFiber of run()
  idleFiber,   \* state of the thread's idleFiber
  fstate,      \* Fiber::state_, or "FREE" when no such object exists
  fcb,         \* Fiber::cb_
  yields,      \* how often a callable has yielded
  aborted      \* a ZZG_ASSERT has failed and the process has aborted

mainVars  == <<mainPc, spawned, threadIds, isStop>>
queueVars == <<mutex, tasks, added>>
loopVars  == <<pc, job, loaded, cbFiber, idleFiber>>
fiberVars == <<fstate, fcb, yields>>
vars == <<mainVars, queueVars, active, loopVars, fiberVars, aborted>>

MainPcs == {"built", "starting", "started", "stopping", "stopped"}
RunPcs  == {"off", "fetch", "count", "resume", "run", "switch", "load",
            "store", "dispatch", "idle", "done"}
FiberStates == {"INIT", "READY", "RUNNING", "SUSPENDED", "TERM", "ERROR"}

\* The states in which Fiber::reset and ~Fiber are allowed.
Resettable == {"INIT", "TERM", "ERROR"}

Init ==
  /\ mainPc = "built"
  /\ spawned = {}
  /\ threadIds = IF CallerJoin THEN <<Root>> ELSE <<>>
  /\ isStop = TRUE
  /\ mutex = None
  /\ tasks = <<>>
  /\ added = {}
  /\ active = 0
  /\ pc = [t \in Threads |-> "off"]
  /\ job = [t \in Threads |-> None]
  /\ loaded = [t \in Threads |-> 0]
  /\ cbFiber = [t \in Threads |-> None]
  /\ idleFiber = [t \in Threads |-> "INIT"]
  /\ fstate = [f \in Fibers |-> "FREE"]
  /\ fcb = [f \in Fibers |-> None]
  /\ yields = [j \in Jobs |-> 0]
  /\ aborted = FALSE

-----------------------------------------------------------------------------
(* The main program: addJob, start, stop *)

\* addJob: push_back under mutex_; tickle() only logs in the base class.
AddJob(j) ==
  /\ mutex = None
  /\ j \in Jobs \ added
  /\ tasks' = Append(tasks, j)
  /\ added' = added \cup {j}

MainAdds(j) ==
  /\ mainPc \in {"built", "started"}
  /\ AddJob(j)
  /\ UNCHANGED <<mainVars, mutex, active, loopVars, fiberVars, aborted>>

Start ==
  /\ mainPc = "built"
  /\ mainPc' = "starting"
  /\ isStop' = FALSE
  /\ UNCHANGED <<spawned, threadIds, queueVars, active, loopVars, fiberVars,
                 aborted>>

\* new Thread{run}: the constructor returns once the thread is alive, so the
\* thread is in run() before start() pushes its id onto threadIds_.
Spawn(w) ==
  /\ mainPc = "starting"
  /\ spawned \subseteq Range(threadIds)
  /\ w \in Workers \ spawned
  /\ spawned' = spawned \cup {w}
  /\ pc' = [pc EXCEPT ![w] = "fetch"]
  /\ UNCHANGED <<mainPc, threadIds, isStop, queueVars, active, job, loaded,
                 cbFiber, idleFiber, fiberVars, aborted>>

PublishId(w) ==
  /\ mainPc = "starting"
  /\ w \in spawned \ Range(threadIds)
  /\ threadIds' = Append(threadIds, w)
  /\ UNCHANGED <<mainPc, spawned, isStop, queueVars, active, loopVars,
                 fiberVars, aborted>>

StartReturns ==
  /\ mainPc = "starting"
  /\ spawned = Workers
  /\ spawned \subseteq Range(threadIds)
  /\ mainPc' = "started"
  /\ UNCHANGED <<spawned, threadIds, isStop, queueVars, active, loopVars,
                 fiberVars, aborted>>

\* Mutant: stop() does not set isStop_.
StopWithoutFlag ==
  /\ mainPc = "started"
  /\ mainPc' = "stopping"
  /\ pc' = IF CallerJoin THEN [pc EXCEPT ![Root] = "fetch"] ELSE pc
  /\ UNCHANGED <<spawned, threadIds, isStop, queueVars, active, job, loaded,
                 cbFiber, idleFiber, fiberVars, aborted>>

\* stop(): raise the flag and, when the caller joins, rootFiber_->call(),
\* which enters run() on this thread.
Stop ==
  /\ mainPc = "started"
  /\ mainPc' = "stopping"
  /\ isStop' = TRUE
  /\ pc' = IF CallerJoin THEN [pc EXCEPT ![Root] = "fetch"] ELSE pc
  /\ UNCHANGED <<spawned, threadIds, queueVars, active, job, loaded, cbFiber,
                 idleFiber, fiberVars, aborted>>

\* Mutant: stop() does not join the threads it swapped out.
StopWithoutJoin ==
  /\ mainPc = "stopping"
  /\ CallerJoin => pc[Root] = "done"
  /\ mainPc' = "stopped"
  /\ UNCHANGED <<spawned, threadIds, isStop, queueVars, active, loopVars,
                 fiberVars, aborted>>

\* The rest of stop(): rootFiber_->call() has returned, every thread is joined.
StopReturns ==
  /\ mainPc = "stopping"
  /\ \A t \in Runners : pc[t] = "done"
  /\ mainPc' = "stopped"
  /\ UNCHANGED <<spawned, threadIds, isStop, queueVars, active, loopVars,
                 fiberVars, aborted>>

-----------------------------------------------------------------------------
(* run(): taking a job *)

\* job::threadId; a Fiber is always re-added without one.
ThreadId(e) == IF e \in Jobs THEN ThreadIdOf[e] ELSE -1

\* Queue positions whose threadIds_ slot does not exist (yet): run() reads
\* past the end of the vector there, and the value it finds is arbitrary.
Unpublished == {i \in DOMAIN tasks : ThreadId(tasks[i]) >= Len(threadIds)}

\* Queue positions the scan of thread t accepts when the reads past the end
\* of threadIds_ at the positions in garbage happen to match.
Runnable(t, garbage) ==
  {i \in DOMAIN tasks :
     \/ ThreadId(tasks[i]) = -1
     \/ /\ ThreadId(tasks[i]) < Len(threadIds)
        /\ threadIds[ThreadId(tasks[i]) + 1] = t
     \/ i \in garbage}

\* The scan finds a job: erase it and load the counter; mutex_ stays held.
TakeJob(t) ==
  /\ pc[t] = "fetch"
  /\ mutex = None
  /\ \E garbage \in SUBSET Unpublished : \E i \in Runnable(t, garbage) :
       /\ \A k \in Runnable(t, garbage) : i <= k
       /\ job' = [job EXCEPT ![t] = tasks[i]]
       /\ tasks' = RemoveAt(tasks, i)
  /\ mutex' = t
  /\ loaded' = [loaded EXCEPT ![t] = active]
  /\ pc' = [pc EXCEPT ![t] = "count"]
  /\ UNCHANGED <<mainVars, added, active, cbFiber, idleFiber, fiberVars,
                 aborted>>

\* ++avtiveThreadCount_ stores, and the lock is released.
CountUp(t) ==
  /\ pc[t] = "count"
  /\ active' = loaded[t] + 1
  /\ mutex' = None
  /\ pc' = [pc EXCEPT ![t] = "resume"]
  /\ UNCHANGED <<mainVars, tasks, added, job, loaded, cbFiber, idleFiber,
                 fiberVars, aborted>>

\* The scan finds nothing: resume the idle fiber or, once that has ended,
\* leave run(), which destroys the kept Fiber object.
FindNothing(t) ==
  /\ pc[t] = "fetch"
  /\ mutex = None
  /\ \E garbage \in SUBSET Unpublished : Runnable(t, garbage) = {}
  /\ IF idleFiber[t] = "TERM"
     THEN /\ pc' = [pc EXCEPT ![t] = "done"]
          /\ cbFiber' = [cbFiber EXCEPT ![t] = None]
          /\ fstate' = [f \in Fibers |-> IF f = cbFiber[t] THEN "FREE"
                                                           ELSE fstate[f]]
          /\ UNCHANGED idleFiber
     ELSE /\ pc' = [pc EXCEPT ![t] = "idle"]
          /\ idleFiber' = [idleFiber EXCEPT ![t] = "RUNNING"]
          /\ UNCHANGED <<cbFiber, fstate>>
  /\ UNCHANGED <<mainVars, queueVars, active, job, loaded, fcb, yields,
                 aborted>>

-----------------------------------------------------------------------------
(* run(): resuming a fiber *)

\* What a resume of f by t does once cbFiber is f; previous is the Fiber that
\* cbFiber held before and that is destroyed now, fails whether an assertion
\* on the way to the fiber does not hold.
Resume(t, f, previous, fails) ==
  /\ pc[t] = "resume"
  /\ aborted' = fails
  /\ cbFiber' = [cbFiber EXCEPT ![t] = f]
  /\ fstate' = [g \in Fibers |-> IF g = f THEN "RUNNING"
                                 ELSE IF g = previous THEN "FREE"
                                 ELSE fstate[g]]
  /\ job' = [job EXCEPT ![t] = None]
  /\ pc' = [pc EXCEPT ![t] = "run"]
  /\ UNCHANGED <<mainVars, queueVars, active, loaded, idleFiber, yields>>

\* j.fiber: the queue held a fiber.  ZZG_ASSERT(state_ != RUNNING) of resume,
\* and the assertion of ~Fiber on the object that cbFiber kept.
ResumeFiber(t) ==
  LET f == job[t]
      kept == {cbFiber[t]} \ {None, f}
  IN
  /\ f \in Fibers
  /\ Resume(t, f, cbFiber[t], \/ fstate[f] = "RUNNING"
                              \/ \E g \in kept : fstate[g] \notin Resettable)
  /\ UNCHANGED fcb

\* Mutant: the kept fiber is resumed without cbFiber->reset(j.fun).
ResumeWithoutReset(t) ==
  LET f == cbFiber[t] IN
  /\ job[t] \in Jobs
  /\ f # None
  /\ Resume(t, f, None, fstate[f] \notin Resettable)
  /\ UNCHANGED fcb

\* j.fun, and cbFiber is kept from an earlier job: Fiber::reset reuses it.
ResetAndResume(t) ==
  LET f == cbFiber[t] IN
  /\ job[t] \in Jobs
  /\ f # None
  /\ Resume(t, f, None, fstate[f] \notin Resettable)
  /\ fcb' = [fcb EXCEPT ![f] = job[t]]

\* j.fun, and there is no Fiber object to reuse.
NewAndResume(t) ==
  /\ job[t] \in Jobs
  /\ cbFiber[t] = None
  /\ \E f \in Fibers :
       /\ fstate[f] = "FREE"
       /\ Resume(t, f, None, FALSE)
       /\ fcb' = [fcb EXCEPT ![f] = job[t]]

-----------------------------------------------------------------------------
(* The job, running on the fiber cbFiber[t] *)

\* A job hands a new callable to the scheduler.
JobAdds(t, j) ==
  /\ pc[t] = "run"
  /\ AddJob(j)
  /\ UNCHANGED <<mainVars, mutex, active, loopVars, fiberVars, aborted>>

\* YieldToReady, YieldToSuspended: the state is set, the context not yet saved.
Yield(t, state) ==
  LET f == cbFiber[t] IN
  /\ pc[t] = "run"
  /\ yields[fcb[f]] < MaxYield
  /\ yields' = [yields EXCEPT ![fcb[f]] = @ + 1]
  /\ fstate' = [fstate EXCEPT ![f] = state]
  /\ pc' = [pc EXCEPT ![t] = "switch"]
  /\ UNCHANGED <<mainVars, queueVars, active, job, loaded, cbFiber, idleFiber,
                 fcb, aborted>>

YieldToReady(t) == Yield(t, "READY")
YieldToSuspended(t) == Yield(t, "SUSPENDED")

\* MainFun: the callable returns, or it throws; cb_ is cleared either way.
JobEnds(t) ==
  /\ pc[t] = "run"
  /\ \E state \in {"TERM", "ERROR"} :
       fstate' = [fstate EXCEPT ![cbFiber[t]] = state]
  /\ fcb' = [fcb EXCEPT ![cbFiber[t]] = None]
  /\ pc' = [pc EXCEPT ![t] = "switch"]
  /\ UNCHANGED <<mainVars, queueVars, active, job, loaded, cbFiber, idleFiber,
                 yields, aborted>>

\* swapcontext in Fiber::yield: the thread is back in run().
SwitchBack(t) ==
  /\ pc[t] = "switch"
  /\ pc' = [pc EXCEPT ![t] = "load"]
  /\ UNCHANGED <<mainVars, queueVars, active, job, loaded, cbFiber, idleFiber,
                 fiberVars, aborted>>

-----------------------------------------------------------------------------
(* run(): after the resume *)

\* --avtiveThreadCount_, without mutex_: a load ...
CountDownLoad(t) ==
  /\ pc[t] = "load"
  /\ loaded' = [loaded EXCEPT ![t] = active]
  /\ pc' = [pc EXCEPT ![t] = "store"]
  /\ UNCHANGED <<mainVars, queueVars, active, job, cbFiber, idleFiber,
                 fiberVars, aborted>>

\* ... and a store.
CountDownStore(t) ==
  /\ pc[t] = "store"
  /\ active' = loaded[t] - 1
  /\ pc' = [pc EXCEPT ![t] = "dispatch"]
  /\ UNCHANGED <<mainVars, queueVars, job, loaded, cbFiber, idleFiber,
                 fiberVars, aborted>>

\* What DispatchReady and its mutants have in common.
Readd(t, entries, keep) ==
  /\ pc[t] = "dispatch"
  /\ fstate[cbFiber[t]] = "READY"
  /\ mutex = None
  /\ tasks' = tasks \o entries
  /\ cbFiber' = [cbFiber EXCEPT ![t] = keep]
  /\ pc' = [pc EXCEPT ![t] = "fetch"]
  /\ UNCHANGED <<mainVars, mutex, added, active, job, loaded, idleFiber,
                 fiberVars, aborted>>

\* Mutants: cbFiber is reset before it is added, is not reset, or is dropped
\* by a scheduler that is stopping.
ReaddAfterReset(t) == Readd(t, <<None>>, None)
ReaddWithoutReset(t) == Readd(t, <<cbFiber[t]>>, cbFiber[t])
ReaddUnlessStopping(t) == Readd(t, IF isStop THEN <<>> ELSE <<cbFiber[t]>>, None)

\* READY: the fiber goes back to the queue and this thread lets go of it.
DispatchReady(t) == Readd(t, <<cbFiber[t]>>, None)

\* TERM or ERROR: reset(nullptr); the object is kept for the next callable.
DispatchEnded(t) ==
  /\ pc[t] = "dispatch"
  /\ fstate[cbFiber[t]] \in {"TERM", "ERROR"}
  /\ fstate' = [fstate EXCEPT ![cbFiber[t]] = "INIT"]
  /\ fcb' = [fcb EXCEPT ![cbFiber[t]] = None]
  /\ pc' = [pc EXCEPT ![t] = "fetch"]
  /\ UNCHANGED <<mainVars, queueVars, active, job, loaded, cbFiber, idleFiber,
                 yields, aborted>>

\* Mutant: the suspended fiber is not let go of.
SuspendWithoutReset(t) ==
  /\ pc[t] = "dispatch"
  /\ fstate[cbFiber[t]] \notin {"READY", "TERM", "ERROR"}
  /\ fstate' = [fstate EXCEPT ![cbFiber[t]] = "SUSPENDED"]
  /\ pc' = [pc EXCEPT ![t] = "fetch"]
  /\ UNCHANGED <<mainVars, queueVars, active, job, loaded, cbFiber, idleFiber,
                 fcb, yields, aborted>>

\* Any other state: the fiber is marked suspended and let go of.
DispatchSuspended(t) ==
  /\ pc[t] = "dispatch"
  /\ fstate[cbFiber[t]] \notin {"READY", "TERM", "ERROR"}
  /\ fstate' = [fstate EXCEPT ![cbFiber[t]] = "SUSPENDED"]
  /\ cbFiber' = [cbFiber EXCEPT ![t] = None]
  /\ pc' = [pc EXCEPT ![t] = "fetch"]
  /\ UNCHANGED <<mainVars, queueVars, active, job, loaded, idleFiber, fcb,
                 yields, aborted>>

-----------------------------------------------------------------------------
(* idle() *)

\* Scheduler::isStop(), evaluated under mutex_.
IsStop == isStop /\ tasks = <<>> /\ active = 0

\* One turn of the loop of idle(): end, or suspend and go back to run().
IdleTurn(t) ==
  /\ pc[t] = "idle"
  /\ mutex = None
  /\ idleFiber' = [idleFiber EXCEPT ![t] = IF IsStop THEN "TERM"
                                                     ELSE "SUSPENDED"]
  /\ pc' = [pc EXCEPT ![t] = "fetch"]
  /\ UNCHANGED <<mainVars, queueVars, active, job, loaded, cbFiber, fiberVars,
                 aborted>>

-----------------------------------------------------------------------------

MainNext ==
  \/ \E j \in Jobs : MainAdds(j)
  \/ Start
  \/ \E w \in Workers : Spawn(w)
  \/ \E w \in Workers : PublishId(w)
  \/ StartReturns
  \/ Stop
  \/ StopReturns

\* One turn of run() by thread t, without the idle fiber.
RunStep(t) ==
  \/ TakeJob(t)
  \/ CountUp(t)
  \/ FindNothing(t)
  \/ ResumeFiber(t)
  \/ ResetAndResume(t)
  \/ NewAndResume(t)
  \/ \E j \in Jobs : JobAdds(t, j)
  \/ YieldToReady(t)
  \/ YieldToSuspended(t)
  \/ JobEnds(t)
  \/ SwitchBack(t)
  \/ CountDownLoad(t)
  \/ CountDownStore(t)
  \/ DispatchReady(t)
  \/ DispatchEnded(t)
  \/ DispatchSuspended(t)

\* The process has ended: stop() has returned or an assertion has failed.
Terminated ==
  /\ mainPc = "stopped" \/ aborted
  /\ UNCHANGED vars

Next ==
  \/ ~aborted /\ MainNext
  \/ ~aborted /\ \E t \in Runners : RunStep(t) \/ IdleTurn(t)
  \/ Terminated

Spec == Init /\ [][Next]_vars

\* A thread that is alive runs again and again, and the main program executes
\* start() and stop() to their end.  Nobody has to add a job or to call stop().
Fairness ==
  /\ \A t \in Runners : WF_vars(~aborted /\ (RunStep(t) \/ IdleTurn(t)))
  /\ WF_vars(~aborted /\ \/ \E w \in Workers : Spawn(w) \/ PublishId(w)
                         \/ StartReturns
                         \/ StopReturns)

FairSpec == Spec /\ Fairness

-----------------------------------------------------------------------------
(* Properties *)

TypeOK ==
  /\ mainPc \in MainPcs
  /\ spawned \in SUBSET Workers
  /\ threadIds \in Seq(Threads)
  /\ isStop \in BOOLEAN
  /\ mutex \in Threads \cup {None}
  /\ tasks \in Seq(Jobs \cup Fibers)
  /\ added \in SUBSET Jobs
  /\ active \in Int
  /\ pc \in [Threads -> RunPcs]
  /\ job \in [Threads -> Jobs \cup Fibers \cup {None}]
  /\ loaded \in [Threads -> Int]
  /\ cbFiber \in [Threads -> Fibers \cup {None}]
  /\ idleFiber \in [Threads -> FiberStates]
  /\ fstate \in [Fibers -> FiberStates \cup {"FREE"}]
  /\ fcb \in [Fibers -> Jobs \cup {None}]
  /\ yields \in [Jobs -> Nat]
  /\ aborted \in BOOLEAN

\* Thread t refers to fiber f.
Holds(t, f) == cbFiber[t] = f \/ job[t] = f

\* A Fiber object, and with it its stack, is at one place at most: kept by a
\* thread, taken by a thread, or at one position of the queue.  Two threads
\* never run or reset the same fiber.
Exclusive ==
  \A f \in Fibers :
    /\ \A t, u \in Threads : Holds(t, f) /\ Holds(u, f) => t = u
    /\ \A t \in Threads : cbFiber[t] = f => job[t] # f
    /\ \A t \in Threads : Holds(t, f) => f \notin Range(tasks)
    /\ \A i, k \in DOMAIN tasks : tasks[i] = f /\ tasks[k] = f => i = k

\* No ZZG_ASSERT of Fiber::resume, Fiber::reset or ~Fiber fails: run() never
\* resumes a running fiber, and reuses or drops only an ended one.
AssertionsHold == ~aborted

\* Where job j is, as a client sees it.
HasFiber(j, where) == \E f \in where : fcb[f] = j
InHand == {cbFiber[t] : t \in Threads} \cap Fibers
Waiting == (Range(tasks) \cup {job[t] : t \in Threads}) \ {None}

Status(j) ==
  IF j \notin added THEN "new"
  ELSE IF j \in Waiting \/ HasFiber(j, Waiting \cap Fibers) THEN "waiting"
  ELSE IF HasFiber(j, InHand) THEN "running"
  ELSE IF HasFiber(j, {f \in Fibers : fstate[f] = "SUSPENDED"}) THEN "parked"
  ELSE IF HasFiber(j, Fibers) THEN "lost"
  ELSE "ended"

Unpinned == {j \in Jobs : ThreadIdOf[j] = -1}

\* When stop() has returned, every unpinned job that was ever added has been
\* run: it has ended or suspended itself.  This holds although the counter
\* that isStop() reads may be wrong and threads may leave run() early: the
\* thread that re-adds a fiber, or whose job adds one, is itself still there.
NoJobLeftBehind ==
  mainPc = "stopped" => \A j \in added \cap Unpinned : Status(j) \in {"parked", "ended"}

\* The scheduler implements the pool that its clients see: a job is run once,
\* by one thread at a time, on at most one processor per thread, is never
\* lost between fibers, and none is left when stop() returns.
Pool == INSTANCE JobPool WITH
          Slots <- Cardinality(Runners),
          status <- [j \in Jobs |-> Status(j)],
          closed <- mainPc = "stopped"

ImplementsPool == Pool!Spec

\* Every unpinned job handed to a started scheduler is eventually run until it
\* ends or suspends itself, whatever the other threads and stop() do.
JobsComplete ==
  \A j \in Unpinned : j \in added /\ mainPc = "started"
                        ~> Status(j) \in {"parked", "ended"}

\* stop() exits the scheduler ("退出协程调度器"): it returns, provided that the
\* jobs do.
StopCompletes == mainPc = "stopping" ~> mainPc = "stopped"

\* avtiveThreadCount_ is the number of threads that are executing a job
\* ("活跃线程数量"), whenever no thread is about to change it.  With two threads in
\* run() this is false: one thread's decrement without mutex_ (Scheduler.cpp:243)
\* and another thread's increment or decrement can overwrite each other.
ActiveCountExact ==
  (\A t \in Threads : pc[t] \notin {"count", "load", "store"})
    => active = Cardinality({t \in Threads : pc[t] \in {"resume", "run", "switch"}})
=============================================================================
