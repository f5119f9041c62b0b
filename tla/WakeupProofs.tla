---------------------------- MODULE WakeupProofs ----------------------------
(***************************************************************************)
(* Proofs about Wakeup for every number of threads and jobs and every      *)
(* capacity of the pipe.                                                   *)
(***************************************************************************)
EXTENDS Wakeup, FiniteSetTheorems, TLAPS

Nexts == {"out", "fetch", "run", "dispatch"}

\* A thread that does not run jobs is Main without CallerJoin: it only calls
\* addJob, addTimer and stop().
RunnerInv == \A t \in Threads \ Runners :
  /\ pc[t] \in {"out", "write", "done"}
  /\ then[t] = "out"

\* What waits anywhere has been added.
AddedInv ==
  /\ \A e \in queue : e.job \in added
  /\ timers \subseteq added
  /\ \A t \in Threads : batch[t] \subseteq added
  /\ \A t \in Threads : job[t] \in added \cup {None}

WakeInv ==
  /\ TypeOK
  /\ RunnerInv
  /\ AddedInv
  /\ WokenForWork

-----------------------------------------------------------------------------
(* Facts about the constants and about tickle() *)

LEMMA Constants ==
  /\ IsFiniteSet(Threads)
  /\ IsFiniteSet(Runners)
  /\ Runners \subseteq Threads
  /\ Main \in Threads
  /\ Workers \subseteq Runners
  <1>1. IsFiniteSet(Workers \cup {Main})
    BY WakeupAssumption, FS_AddElement
  <1>2. Runners \subseteq Threads /\ Main \in Threads /\ Workers \subseteq Runners
    BY DEF Runners, Threads
  <1> QED
    BY <1>1, <1>2, FS_Subset DEF Threads

\* Either there is one more byte and t goes on, or t holds its lock in the write.
LEMMA TickleEither ==
  ASSUME TypeOK, NEW t \in Threads, NEW next \in Nexts, Tickle(t, next)
  PROVE  /\ pc' = [pc EXCEPT ![t] = pc'[t]]
         /\ \/ /\ pipe < Capacity /\ HeldBy(t) = None
               /\ pipe' = pipe + 1
               /\ pc'[t] = next /\ then' = then
            \/ /\ pipe = Capacity /\ HeldBy(t) = t
               /\ pipe' = pipe
               /\ pc'[t] = "write" /\ then' = [then EXCEPT ![t] = next]
  BY WakeupAssumption DEF TypeOK, Tickle, HeldBy

LEMMA TickleTypes ==
  ASSUME TypeOK, NEW t \in Threads, NEW next \in Nexts, Tickle(t, next)
  PROVE  /\ pipe' \in 0 .. Capacity
         /\ pc' \in [Threads -> Places]
         /\ then' \in [Threads -> Nexts]
         /\ HeldBy(t) = None \/ (HeldBy(t) = t /\ pc'[t] = "write")
         /\ \A u \in Threads \ {t} : pc'[u] = pc[u] /\ then'[u] = then[u]
         /\ pc'[t] = next \/ (pc'[t] = "write" /\ then'[t] = next)
  <1>1. /\ pc' = [pc EXCEPT ![t] = pc'[t]]
        /\ \/ /\ pipe < Capacity /\ HeldBy(t) = None
              /\ pipe' = pipe + 1
              /\ pc'[t] = next /\ then' = then
           \/ /\ pipe = Capacity /\ HeldBy(t) = t
              /\ pipe' = pipe
              /\ pc'[t] = "write" /\ then' = [then EXCEPT ![t] = next]
    BY TickleEither
  <1>2. pipe' \in 0 .. Capacity
    <2>1. pipe \in 0 .. Capacity /\ Capacity \in Nat
      BY WakeupAssumption, Zenon DEF TypeOK
    <2> QED
      BY <1>1, <2>1
  <1>3. pc' \in [Threads -> Places] /\ then' \in [Threads -> Nexts]
    BY <1>1 DEF TypeOK, Nexts, Places
  <1>4. \A u \in Threads \ {t} : pc'[u] = pc[u] /\ then'[u] = then[u]
    BY <1>1 DEF TypeOK
  <1>5. pc'[t] = next \/ (pc'[t] = "write" /\ then'[t] = next)
    BY <1>1 DEF TypeOK
  <1> QED
    BY <1>1, <1>2, <1>3, <1>4, <1>5

\* After tickle() a byte or a writer wakes somebody.
LEMMA TickleWakes ==
  ASSUME TypeOK, NEW t \in Threads, NEW next \in Nexts, Tickle(t, next)
  PROVE  WokenForWork'
  <1>1. CASE pipe' = pipe + 1
    BY <1>1 DEF WokenForWork, TypeOK
  <1>2. CASE pc'[t] = "write"
    BY <1>2 DEF WokenForWork
  <1> QED
    BY <1>1, <1>2, TickleEither

-----------------------------------------------------------------------------
(* Types *)

LEMMA InitTypes == Init => TypeOK
  <1> SUFFICES ASSUME Init PROVE TypeOK
    OBVIOUS
  <1>1. 0 \in 0 .. Capacity
    BY WakeupAssumption
  <1>2. \A j \in Jobs : 0 <= MaxYield[j]
    BY WakeupAssumption
  <1>3. None \notin Threads
    BY WakeupAssumption
  <1> QED
    BY <1>1, <1>2, <1>3 DEF Init, TypeOK, Places, Runs

\* Whoever holds a lock after tickle() is in the write.
LEMMA TickleLocks ==
  ASSUME TypeOK, NEW t \in Threads, NEW next \in Nexts, Tickle(t, next),
         pc[t] # "write",
         queueLock' \in {queueLock, HeldBy(t)}, timerLock' \in {timerLock, HeldBy(t)}
  PROVE  /\ queueLock' \in Threads \cup {None}
         /\ timerLock' \in Threads \cup {None}
         /\ \A u \in Threads : u \in {queueLock', timerLock'} => pc'[u] = "write"
  <1>1. None \notin Threads
    BY WakeupAssumption
  <1>2. /\ HeldBy(t) = None \/ (HeldBy(t) = t /\ pc'[t] = "write")
        /\ \A u \in Threads \ {t} : pc'[u] = pc[u]
    BY TickleTypes
  <1>3. /\ queueLock \in Threads \cup {None} /\ timerLock \in Threads \cup {None}
        /\ \A u \in Threads : u \in {queueLock, timerLock} => pc[u] = "write"
    BY DEF TypeOK
  <1> QED
    BY <1>1, <1>2, <1>3

\* tickle() leaves the jobs where they are.
LEMMA TickleHands ==
  ASSUME TypeOK, NEW t \in Threads, NEW next \in Nexts, Tickle(t, next),
         next = "run" => pc[t] = "run",
         \/ job' = job
         \/ next # "run" /\ job' = [job EXCEPT ![t] = None]
  PROVE  \A u \in Threads : Runs(u)' \/ pc'[u] = "readd" => job'[u] # None
  <1>1. /\ \A u \in Threads \ {t} : pc'[u] = pc[u] /\ then'[u] = then[u] /\ job'[u] = job[u]
        /\ pc'[t] = next \/ (pc'[t] = "write" /\ then'[t] = next)
    BY TickleTypes DEF TypeOK
  <1>2. /\ next # "readd" /\ next # "write"
        /\ \A u \in Threads : Runs(u) \/ pc[u] = "readd" => job[u] # None
    BY DEF TypeOK, Nexts
  <1> QED
    BY <1>1, <1>2 DEF Runs

LEMMA AddJobTypes ==
  ASSUME TypeOK, NEW t \in Threads, NEW j \in Jobs, AddJob(t, j)
  PROVE  TypeOK'
  <1>1. /\ pc[t] \in Nexts /\ pc[t] # "write"
        /\ Tickle(t, pc[t])
        /\ queueLock' = HeldBy(t)
        /\ queue' = queue \cup {Entry(j, BoundTo[j])}
        /\ added' = added \cup {j}
        /\ UNCHANGED <<timers, timerLock, job, batch, reported, left, finished, yields, stopVars>>
    BY DEF AddJob, Acts, Nexts
  <1>2. queue' \subseteq [job : Jobs, to : Runners \cup {None}]
    BY <1>1, WakeupAssumption DEF TypeOK, Entry
  <1> QED
    BY <1>1, <1>2, TickleTypes, TickleLocks, TickleHands DEF TypeOK, Nexts, stopVars

LEMMA AddTimerTypes ==
  ASSUME TypeOK, NEW t \in Threads, NEW j \in Jobs, AddTimer(t, j)
  PROVE  TypeOK'
  <1>1. /\ pc[t] \in Nexts /\ pc[t] # "write"
        /\ timers' = timers \cup {j}
        /\ added' = added \cup {j}
        /\ UNCHANGED <<queue, queueLock, job, batch, reported, left, finished, yields, stopVars>>
    BY DEF AddTimer, Acts, Nexts
  <1>2. CASE timerLock' = HeldBy(t) /\ Tickle(t, pc[t])
    BY <1>1, <1>2, TickleTypes, TickleLocks, TickleHands DEF TypeOK, Nexts, stopVars
  <1>3. CASE UNCHANGED <<timerLock, pipe, pc, then>>
    BY <1>1, <1>3 DEF TypeOK, Runs, stopVars
  <1> QED
    BY <1>2, <1>3 DEF AddTimer

LEMMA WriteTypes ==
  ASSUME TypeOK, NEW t \in Threads, Write(t)
  PROVE  TypeOK'
  <1>1. /\ pc[t] = "write" /\ then[t] \in Nexts
        /\ pc' = [pc EXCEPT ![t] = then[t]]
        /\ queueLock' = IF queueLock = t THEN None ELSE queueLock
        /\ timerLock' = IF timerLock = t THEN None ELSE timerLock
        /\ UNCHANGED <<queue, timers, then, job, batch, reported, left, jobVars, stopVars>>
    BY DEF Write, TypeOK, Nexts
  <1>2. pipe' \in 0 .. Capacity
    BY WakeupAssumption DEF Write, TypeOK
  <1>3. \A u \in Threads : Runs(u)' \/ pc'[u] = "readd" => job'[u] # None
    BY <1>1 DEF TypeOK, Runs, Nexts
  <1>4. \A u \in Threads : u \in {queueLock', timerLock'} => pc'[u] = "write"
    BY <1>1, WakeupAssumption DEF TypeOK
  <1> QED
    BY <1>1, <1>2, <1>3, <1>4 DEF TypeOK, Nexts, Places, jobVars, stopVars

\* A thread that holds no lock goes to a place where it needs no job, or has
\* one.
LEMMA MoveTypes ==
  ASSUME TypeOK, NEW t \in Threads, NEW p \in Places,
         pc[t] # "write", p # "write",
         pc' = [pc EXCEPT ![t] = p],
         p \in {"run", "readd"} => job'[t] \in Jobs,
         job' \in [Threads -> Jobs \cup {None}],
         \A u \in Threads \ {t} : job'[u] = job[u],
         UNCHANGED <<queueLock, timerLock, then>>
  PROVE  /\ pc' \in [Threads -> Places]
         /\ \A u \in Threads : Runs(u)' \/ pc'[u] = "readd" => job'[u] # None
         /\ \A u \in Threads : u \in {queueLock', timerLock'} => pc'[u] = "write"
  <1>1. pc' \in [Threads -> Places]
    BY DEF TypeOK
  <1>2. \A u \in Threads : Runs(u)' \/ pc'[u] = "readd" => job'[u] # None
    BY WakeupAssumption DEF TypeOK, Runs
  <1>3. \A u \in Threads : u \in {queueLock', timerLock'} => pc'[u] = "write"
    BY DEF TypeOK
  <1> QED
    BY <1>1, <1>2, <1>3

\* What run() does with the entries of the queue.
LEMMA RunTypes ==
  ASSUME TypeOK, NEW t \in Threads,
         Take(t) \/ FindNothing(t) \/ JobEnds(t) \/ YieldToReady(t)
  PROVE  TypeOK'
  <1>1. CASE Take(t)
    <2>1. PICK e \in Takeable(t) : queue' = queue \ {e} /\
              IF e.job \in Empty
              THEN Rest(t) /\ UNCHANGED job
              ELSE job' = [job EXCEPT ![t] = e.job] /\ pc' = [pc EXCEPT ![t] = "run"]
      BY <1>1 DEF Take
    <2>2. e.job \in Jobs
      BY <2>1 DEF Takeable, TypeOK
    <2>3. PICK p \in {"run", "done", "timers"} :
              /\ pc' = [pc EXCEPT ![t] = p]
              /\ p = "run" => job'[t] \in Jobs
              /\ job' \in [Threads -> Jobs \cup {None}]
              /\ \A u \in Threads \ {t} : job'[u] = job[u]
      BY <2>1, <2>2 DEF Rest, TypeOK
    <2> QED
      BY <1>1, <2>1, <2>3, MoveTypes DEF Take, TypeOK, Places, jobVars, stopVars
  <1>2. CASE FindNothing(t)
    <2>1. PICK p \in {"done", "timers"} : pc' = [pc EXCEPT ![t] = p]
      BY <1>2 DEF FindNothing, Rest
    <2> QED
      BY <1>2, <2>1, MoveTypes DEF FindNothing, TypeOK, Places, sharedVars, jobVars, stopVars
  <1>3. CASE JobEnds(t)
    <2>1. job[t] \in Jobs
      BY <1>3 DEF JobEnds, TypeOK, Runs
    <2> QED
      BY <1>3, <2>1, MoveTypes DEF JobEnds, TypeOK, Places, sharedVars, stopVars
  <1>4. CASE YieldToReady(t)
    <2>1. job[t] \in Jobs
      BY <1>4 DEF YieldToReady, TypeOK, Runs
    <2>2. yields' \in [Jobs -> Nat] /\ \A j \in Jobs : yields'[j] <= MaxYield[j]
      <3>1. /\ yields' = [yields EXCEPT ![job[t]] = yields[job[t]] + 1]
            /\ yields[job[t]] < MaxYield[job[t]]
        BY <1>4 DEF YieldToReady
      <3>2. yields \in [Jobs -> Nat] /\ \A j \in Jobs : yields[j] <= MaxYield[j]
        BY DEF TypeOK
      <3>3. MaxYield \in [Jobs -> Nat]
        BY WakeupAssumption
      <3> QED
        BY <2>1, <3>1, <3>2, <3>3
    <2> QED
      BY <1>4, <2>1, <2>2, MoveTypes DEF YieldToReady, TypeOK, Places, sharedVars, stopVars
  <1> QED
    BY <1>1, <1>2, <1>3, <1>4

\* The two places where run() and idle() call addJob and addMultiJob.
LEMMA QueueTypes ==
  ASSUME TypeOK, NEW t \in Threads, Readd(t) \/ QueueBatch(t)
  PROVE  TypeOK'
  <1>1. CASE Readd(t)
    <2>1. job[t] \in Jobs
      BY <1>1 DEF Readd, TypeOK, Runs
    <2>2. /\ Tickle(t, "fetch") /\ pc[t] # "write"
          /\ queueLock' = HeldBy(t)
          /\ queue' \subseteq [job : Jobs, to : Runners \cup {None}]
          /\ job' = [job EXCEPT ![t] = None]
          /\ UNCHANGED <<timers, timerLock, batch, reported, left, jobVars, stopVars>>
      BY <1>1, <2>1 DEF Readd, TypeOK, Entry
    <2> QED
      BY <2>2, TickleTypes, TickleLocks, TickleHands DEF TypeOK, Nexts, jobVars, stopVars
  <1>2. CASE QueueBatch(t)
    <2>1. batch[t] \subseteq Jobs
      BY DEF TypeOK
    <2>2. /\ Tickle(t, "dispatch") /\ pc[t] # "write"
          /\ queueLock' = HeldBy(t)
          /\ queue' \subseteq [job : Jobs, to : Runners \cup {None}]
          /\ batch' \in [Threads -> SUBSET Jobs]
          /\ UNCHANGED <<timers, timerLock, job, reported, left, jobVars, stopVars>>
      BY <1>2, <2>1 DEF QueueBatch, TypeOK, Entry
    <2> QED
      BY <2>2, TickleTypes, TickleLocks, TickleHands DEF TypeOK, Nexts, jobVars, stopVars
  <1> QED
    BY <1>1, <1>2

\* A turn of idle().
LEMMA IdleTypes ==
  ASSUME TypeOK, NEW t \in Threads,
         \/ SeeTimers(t) \/ SeeTasks(t) \/ GetNextTime(t) \/ PollReports(t)
         \/ PollTimesOut(t) \/ Expire(t) \/ Dispatch(t)
  PROVE  TypeOK'
  <1>1. CASE SeeTimers(t)
    <2>1. PICK p \in {"tasks", "next"} : pc' = [pc EXCEPT ![t] = p]
      BY <1>1 DEF SeeTimers
    <2> QED
      BY <1>1, <2>1, MoveTypes DEF SeeTimers, TypeOK, Places, sharedVars, jobVars, stopVars
  <1>2. CASE SeeTasks(t)
    <2>1. PICK p \in {"fetch", "next"} : pc' = [pc EXCEPT ![t] = p]
      BY <1>2 DEF SeeTasks
    <2>2. left' \subseteq Threads
      BY <1>2 DEF SeeTasks, TypeOK
    <2> QED
      BY <1>2, <2>1, <2>2, MoveTypes DEF SeeTasks, TypeOK, Places, sharedVars, jobVars, stopVars
  <1>3. CASE GetNextTime(t)
    BY <1>3, MoveTypes DEF GetNextTime, TypeOK, Places, sharedVars, jobVars, stopVars
  <1>4. CASE PollReports(t)
    BY <1>4, MoveTypes DEF PollReports, TypeOK, Places, sharedVars, jobVars, stopVars
  <1>5. CASE PollTimesOut(t)
    BY <1>5, MoveTypes DEF PollTimesOut, TypeOK, Places, sharedVars, jobVars, stopVars
  <1>6. CASE Expire(t)
    <2>1. PICK due \in SUBSET timers :
             /\ timers' = timers \ due
             /\ batch' = [batch EXCEPT ![t] = due]
             /\ pc' = [pc EXCEPT ![t] = IF due = {} THEN "dispatch" ELSE "batch"]
      BY <1>6 DEF Expire
    <2>2. PICK p \in {"dispatch", "batch"} : pc' = [pc EXCEPT ![t] = p]
      BY <2>1
    <2>3. timers' \subseteq Jobs /\ batch' \in [Threads -> SUBSET Jobs]
      BY <2>1 DEF TypeOK
    <2> QED
      BY <1>6, <2>2, <2>3, MoveTypes DEF Expire, TypeOK, Places, jobVars, stopVars
  <1>7. CASE Dispatch(t)
    <2>1. pipe' \in 0 .. Capacity
      BY <1>7, WakeupAssumption DEF Dispatch, TypeOK
    <2> QED
      BY <1>7, <2>1, MoveTypes DEF Dispatch, TypeOK, Places, jobVars, stopVars
  <1> QED
    BY <1>1, <1>2, <1>3, <1>4, <1>5, <1>6, <1>7

\* stop(): as many tickles as there are threads.
LEMMA StopTypes ==
  ASSUME TypeOK, Stop \/ StopTickles \/ StopReturns
  PROVE  TypeOK'
  <1>1. CASE Stop
    <2>1. Cardinality(Runners) \in Nat
      BY Constants, FS_CardinalityType
    <2> QED
      BY <1>1, <2>1 DEF Stop, TypeOK, Runs, sharedVars, threadVars, jobVars
  <1>2. CASE StopTickles
    <2>1. CASE ticks > 0
      <3>1. /\ Tickle(Main, "out") /\ pc[Main] # "write"
            /\ ticks' \in Nat
            /\ UNCHANGED <<queue, queueLock, timers, timerLock, job, batch, reported, left,
                           jobVars, stopping, stopped>>
        BY <1>2, <2>1 DEF StopTickles, TypeOK
      <3> QED
        BY <3>1, Constants, TickleTypes, TickleLocks, TickleHands DEF TypeOK, Nexts, jobVars
    <2>2. CASE ~(ticks > 0)
      <3>1. PICK p \in {"fetch", "done"} : pc' = [pc EXCEPT ![Main] = p]
        BY <1>2, <2>2 DEF StopTickles
      <3> QED
        BY <1>2, <2>2, <3>1, Constants, MoveTypes DEF StopTickles, TypeOK, Places, jobVars
    <2> QED
      BY <2>1, <2>2
  <1>3. CASE StopReturns
    BY <1>3 DEF StopReturns, TypeOK, Runs, sharedVars, threadVars, jobVars
  <1> QED
    BY <1>1, <1>2, <1>3

\* Every step of Next preserves the types.
LEMMA TypesPreserved == TypeOK /\ [Next]_vars => TypeOK'
  <1> SUFFICES ASSUME TypeOK, [Next]_vars PROVE TypeOK'
    OBVIOUS
  <1>1. CASE \E t \in Threads, j \in Jobs : AddJob(t, j) \/ AddTimer(t, j)
    BY <1>1, AddJobTypes, AddTimerTypes
  <1>2. ASSUME NEW t \in Threads, Step(t) PROVE TypeOK'
    BY <1>2, WriteTypes, StopTypes, RunTypes, QueueTypes, IdleTypes DEF Step
  <1>3. CASE Stop
    BY <1>3, StopTypes
  <1>4. CASE UNCHANGED vars
    BY <1>4 DEF TypeOK, Runs, vars, sharedVars, threadVars, jobVars, stopVars
  <1> QED
    BY <1>1, <1>2, <1>3, <1>4 DEF Next

-----------------------------------------------------------------------------
(* Main without CallerJoin stays out of run() *)

\* A thread that takes a step of run() or idle() is a runner.
LEMMA RunnersRun ==
  ASSUME RunnerInv, NEW t \in Threads, pc[t] \notin {"out", "write", "done"}
  PROVE  t \in Runners
  BY DEF RunnerInv

LEMMA TickleRunners ==
  ASSUME TypeOK, RunnerInv, NEW t \in Threads, NEW next \in Nexts, Tickle(t, next),
         t \in Runners \/ next = "out"
  PROVE  RunnerInv'
  <1>1. then' = then \/ then' = [then EXCEPT ![t] = next]
    BY TickleEither
  <1>2. \A u \in Threads \ {t} : pc'[u] = pc[u] /\ then'[u] = then[u]
    BY TickleTypes
  <1>3. pc'[t] = next \/ (pc'[t] = "write" /\ then'[t] = next)
    BY TickleTypes
  <1> QED
    BY <1>1, <1>2, <1>3 DEF RunnerInv, TypeOK

LEMMA RunnerStep ==
  ASSUME TypeOK, RunnerInv, [Next]_vars
  PROVE  RunnerInv'
  <1>1. ASSUME NEW t \in Threads, NEW j \in Jobs, AddJob(t, j) \/ AddTimer(t, j)
        PROVE  RunnerInv'
    <2>1. pc[t] \in Nexts /\ (t \in Runners \/ pc[t] = "out")
      BY <1>1 DEF AddJob, AddTimer, Acts, Nexts, RunnerInv
    <2> QED
      BY <1>1, <2>1, TickleRunners DEF AddJob, AddTimer, RunnerInv
  <1>2. ASSUME NEW t \in Threads, Write(t) PROVE RunnerInv'
    BY <1>2 DEF Write, RunnerInv, TypeOK
  <1>3. ASSUME StopTickles PROVE RunnerInv'
    <2>1. CASE ticks > 0
      BY <1>3, <2>1, Constants, TickleRunners DEF StopTickles, Nexts
    <2>2. CASE ~(ticks > 0)
      BY <1>3, <2>2, Constants DEF StopTickles, RunnerInv, TypeOK, Runners
    <2> QED
      BY <2>1, <2>2
  <1>4. ASSUME StopReturns \/ Stop \/ UNCHANGED vars PROVE RunnerInv'
    BY <1>4 DEF StopReturns, Stop, RunnerInv, vars, sharedVars, threadVars
  <1>5. ASSUME NEW t \in Threads, Readd(t) \/ QueueBatch(t) PROVE RunnerInv'
    BY <1>5, RunnersRun, TickleRunners DEF Readd, QueueBatch, Nexts
  <1>6. ASSUME NEW t \in Threads,
               \/ Take(t) \/ FindNothing(t) \/ JobEnds(t) \/ YieldToReady(t)
               \/ SeeTimers(t) \/ SeeTasks(t) \/ GetNextTime(t) \/ PollReports(t)
               \/ PollTimesOut(t) \/ Expire(t) \/ Dispatch(t)
        PROVE  RunnerInv'
    <2>1. t \in Runners
      BY <1>6, RunnersRun DEF Take, FindNothing, JobEnds, YieldToReady, SeeTimers, SeeTasks,
           GetNextTime, PollReports, PollTimesOut, Expire, Dispatch
    <2>2. then' = then /\ \A u \in Threads \ {t} : pc'[u] = pc[u]
      BY <1>6 DEF Take, FindNothing, Rest, JobEnds, YieldToReady, SeeTimers, SeeTasks,
           GetNextTime, PollReports, PollTimesOut, Expire, Dispatch, TypeOK
    <2> QED
      BY <2>1, <2>2 DEF RunnerInv
  <1> QED
    BY <1>1, <1>2, <1>3, <1>4, <1>5, <1>6 DEF Next, Step

-----------------------------------------------------------------------------
(* What waits has been added *)

LEMMA AddedStep ==
  ASSUME TypeOK, AddedInv, [Next]_vars
  PROVE  AddedInv'
  <1>1. ASSUME NEW t \in Threads, NEW j \in Jobs, AddJob(t, j) \/ AddTimer(t, j)
        PROVE  AddedInv'
    BY <1>1 DEF AddJob, AddTimer, Entry, AddedInv
  <1>2. ASSUME NEW t \in Threads, Take(t) PROVE AddedInv'
    BY <1>2 DEF Take, Takeable, AddedInv, TypeOK, jobVars
  <1>3. ASSUME NEW t \in Threads, Readd(t) PROVE AddedInv'
    <2>1. job[t] \in Jobs
      BY <1>3 DEF Readd, TypeOK
    <2> QED
      BY <1>3, <2>1, WakeupAssumption DEF Readd, Entry, AddedInv, TypeOK, jobVars
  <1>4. ASSUME NEW t \in Threads, Expire(t) PROVE AddedInv'
    BY <1>4 DEF Expire, AddedInv, TypeOK, jobVars
  <1>5. ASSUME NEW t \in Threads, QueueBatch(t) PROVE AddedInv'
    BY <1>5 DEF QueueBatch, Entry, AddedInv, TypeOK, jobVars
  <1>6. ASSUME NEW t \in Threads, JobEnds(t) PROVE AddedInv'
    BY <1>6 DEF JobEnds, AddedInv, TypeOK, sharedVars
  <1>7. ASSUME UNCHANGED <<queue, timers, batch, job, added>> PROVE AddedInv'
    BY <1>7 DEF AddedInv
  <1>8. ASSUME NEW t \in Threads,
               \/ Write(t) \/ FindNothing(t) \/ YieldToReady(t)
               \/ SeeTimers(t) \/ SeeTasks(t) \/ GetNextTime(t) \/ PollReports(t)
               \/ PollTimesOut(t) \/ Dispatch(t) \/ StopTickles \/ StopReturns \/ Stop
        PROVE  AddedInv'
    BY <1>7, <1>8 DEF Write, FindNothing, YieldToReady, SeeTimers, SeeTasks, GetNextTime,
         PollReports, PollTimesOut, Dispatch, StopTickles, StopReturns, Stop,
         sharedVars, threadVars, jobVars
  <1>9. ASSUME UNCHANGED vars PROVE AddedInv'
    BY <1>7, <1>9 DEF vars, sharedVars, threadVars, jobVars
  <1> QED
    BY <1>1, <1>2, <1>3, <1>4, <1>5, <1>6, <1>8, <1>9, Constants DEF Next, Step

-----------------------------------------------------------------------------
(* No wake-up is lost *)

\* A thread that was asleep or looking at the timers was nobody's hope.
LEMMA WitnessStays ==
  ASSUME WokenForWork, NEW t \in Threads, pc[t] # "write", ~WillScan(t),
         \A u \in Threads \ {t} : pc'[u] = pc[u],
         queue' = queue, pipe' = pipe, added' = added
  PROVE  WokenForWork'
  BY Constants DEF WokenForWork, WillScan, Unbound

LEMMA WokenStep ==
  ASSUME TypeOK, RunnerInv, AddedInv, WokenForWork, [Next]_vars
  PROVE  WokenForWork'
  <1>1. ASSUME NEW t \in Threads, NEW j \in Jobs, AddJob(t, j)
        PROVE  WokenForWork'
    BY <1>1, TickleWakes DEF AddJob, Acts, Nexts
  <1>2. ASSUME NEW t \in Threads, NEW j \in Jobs, AddTimer(t, j)
        PROVE  WokenForWork'
    <2>1. CASE Tickle(t, pc[t])
      BY <1>2, <2>1, TickleWakes DEF AddTimer, Acts, Nexts
    <2>2. CASE UNCHANGED <<timerLock, pipe, pc, then>>
      BY <1>2, <2>2 DEF AddTimer, WokenForWork, WillScan, Unbound
    <2> QED
      BY <1>2, <2>1, <2>2 DEF AddTimer
  <1>3. ASSUME NEW t \in Threads, Write(t) PROVE WokenForWork'
    BY <1>3 DEF Write, WokenForWork, TypeOK
  <1>4. ASSUME NEW t \in Threads, Take(t) PROVE WokenForWork'
    <2>1. PICK e \in Takeable(t) :
              IF e.job \in Empty
              THEN Rest(t) /\ UNCHANGED job
              ELSE job' = [job EXCEPT ![t] = e.job] /\ pc' = [pc EXCEPT ![t] = "run"]
      BY <1>4 DEF Take
    <2>2. CASE e.job \in Empty
      <3>1. e.job \in added' \cap Empty
        BY <1>4, <2>2 DEF Take, Takeable, AddedInv, jobVars
      <3> QED
        BY <3>1 DEF WokenForWork
    <2>3. CASE e.job \notin Empty
      <3>1. t \in Runners /\ pc'[t] = "run"
        BY <1>4, <2>1, <2>3, RunnersRun DEF Take, TypeOK
      <3> QED
        BY <3>1 DEF WokenForWork, WillScan
    <2> QED
      BY <2>2, <2>3
  <1>5. ASSUME NEW t \in Threads, FindNothing(t) PROVE WokenForWork'
    <2>1. Unbound' = {}
      BY <1>5 DEF FindNothing, Takeable, Unbound, sharedVars
    <2> QED
      BY <2>1 DEF WokenForWork
  <1>6. ASSUME NEW t \in Threads,
               \/ JobEnds(t) \/ YieldToReady(t) \/ PollReports(t) \/ PollTimesOut(t)
               \/ Expire(t) \/ Dispatch(t)
        PROVE  WokenForWork'
    <2>1. t \in Runners
      BY <1>6, RunnersRun DEF JobEnds, YieldToReady, PollReports, PollTimesOut, Expire, Dispatch
    <2>2. pc'[t] \in {"fetch", "readd", "expire", "batch", "dispatch"}
      BY <1>6 DEF JobEnds, YieldToReady, PollReports, PollTimesOut, Expire, Dispatch, TypeOK
    <2> QED
      BY <2>1, <2>2 DEF WokenForWork, WillScan
  <1>7. ASSUME NEW t \in Threads, Readd(t) \/ QueueBatch(t) PROVE WokenForWork'
    BY <1>7, TickleWakes DEF Readd, QueueBatch, Nexts
  <1>8. ASSUME NEW t \in Threads, SeeTimers(t) \/ SeeTasks(t) \/ GetNextTime(t)
        PROVE  WokenForWork'
    <2>1. /\ pc[t] \in {"timers", "tasks", "next"}
          /\ \A u \in Threads \ {t} : pc'[u] = pc[u]
          /\ queue' = queue /\ pipe' = pipe /\ added' = added
      BY <1>8 DEF SeeTimers, SeeTasks, GetNextTime, TypeOK, sharedVars, jobVars
    <2> QED
      BY <2>1, WitnessStays DEF WillScan
  <1>9. ASSUME StopTickles PROVE WokenForWork'
    <2>1. CASE ticks > 0
      BY <1>9, <2>1, Constants, TickleWakes DEF StopTickles, Nexts
    <2>2. CASE ~(ticks > 0)
      <3>1. /\ pc[Main] = "out"
            /\ \A u \in Threads \ {Main} : pc'[u] = pc[u]
            /\ queue' = queue /\ pipe' = pipe /\ added' = added
        BY <1>9, <2>2, Constants DEF StopTickles, TypeOK, jobVars
      <3> QED
        BY <3>1, Constants, WitnessStays DEF WillScan
    <2> QED
      BY <2>1, <2>2
  <1>10. ASSUME StopReturns \/ Stop \/ UNCHANGED vars PROVE WokenForWork'
    BY <1>10 DEF StopReturns, Stop, WokenForWork, WillScan, Unbound, vars, sharedVars,
         threadVars, jobVars
  <1> QED
    BY <1>1, <1>2, <1>3, <1>4, <1>5, <1>6, <1>7, <1>8, <1>9, <1>10 DEF Next, Step

-----------------------------------------------------------------------------
(* The theorems *)

LEMMA InitWake == Init => WakeInv
  <1> SUFFICES ASSUME Init PROVE WakeInv
    OBVIOUS
  <1>1. RunnerInv
    BY DEF Init, RunnerInv, Threads, Runners
  <1>2. AddedInv
    BY DEF Init, AddedInv
  <1>3. WokenForWork
    BY DEF Init, WokenForWork, Unbound
  <1> QED
    BY <1>1, <1>2, <1>3, InitTypes DEF WakeInv

LEMMA WakeStep == WakeInv /\ [Next]_vars => WakeInv'
  BY TypesPreserved, RunnerStep, AddedStep, WokenStep DEF WakeInv

LEMMA WakeInvariant == Spec => []WakeInv
  <1>1. Init => WakeInv
    BY InitWake
  <1>2. WakeInv /\ [Next]_vars => WakeInv'
    BY WakeStep
  <1> QED
    BY <1>1, <1>2, PTL DEF Spec

\* The variables have their types, and a lock that is held between two steps is
\* held by a thread in the write() of tickle(): addJob, addMultiJob and addTimer
\* do nothing else under their lock that takes long.
THEOREM WakeupTypes == Spec => []TypeOK
  <1>1. WakeInv => TypeOK
    BY DEF WakeInv
  <1> QED
    BY <1>1, WakeInvariant, PTL

\* Whatever the number of threads and the capacity of the pipe: the threads do
\* not all sleep while an unbound job waits, although one byte may stand for
\* several jobs and may be taken by any thread (tickle() and the loop of idle()).
THEOREM NoWakeUpLost == Spec => []WokenForWork
  <1>1. WakeInv => WokenForWork
    BY DEF WakeInv
  <1> QED
    BY <1>1, WakeInvariant, PTL
=============================================================================
