-------------------------- MODULE IoSchedulerProofs --------------------------
\* What holds of the scheduler together with sleep() and the idle loop of
\* IoManager.  The steps that IoScheduler inherits are steps of Scheduler, so
\* the invariants of SchedulerProofs are shown again only for the two steps that
\* put something into the queue: addJob(fiber) of a timer's callback, and
\* addMultiJob of an idle thread.
EXTENDS IoScheduler, SchedulerProofs

-----------------------------------------------------------------------------
(* The steps *)

\* What an idle thread, and a job that sleeps or wakes, adds to Scheduler.
IoStep(t) ==
  \/ ArmTimer(t) \/ FallAsleep(t) \/ WakerAdds(t) \/ ResumeUnsaved(t)
  \/ SeeTimers(t) \/ SeeScheduler(t) \/ Collect(t) \/ QueueBatch(t)

\* A step that Scheduler has too, and what the jobs may do in it.
OldJobStep(t) ==
  \/ MayEnd(t) /\ JobEnds(t)
  \/ Executing(t) \notin Sleepers \cup Wakers /\ YieldToReady(t)
  \/ \E j \in Jobs \ Wakers : JobAdds(t, j)

OldStep ==
  /\ IoUnchanged
  /\ \/ IoMain
     \/ \E t \in Runners : IoLoop(t) \/ OldJobStep(t)

LEMMA IoNextCases ==
  ASSUME [IoNext]_ioVars
  PROVE  \/ ~aborted /\ OldStep
         \/ \E t \in Runners : ~aborted /\ IoStep(t)
         \/ UNCHANGED ioVars
  BY DEF IoNext, IoMain, IoThread, IoLoop, IoJob, IoIdle, IoStep, OldStep, OldJobStep,
     Alive, IoTerminated

LEMMA IoMainIsMain ==
  ASSUME ~aborted, IoMain
  PROVE  Next
  BY DEF IoMain, Next, MainNext

LEMMA IoLoopIsRun ==
  ASSUME NEW t \in Runners, IoLoop(t) \/ OldJobStep(t)
  PROVE  RunStep(t)
  <1>1. CASE IoLoop(t)
    BY <1>1 DEF IoLoop, RunStep
  <1>2. CASE OldJobStep(t)
    BY <1>2 DEF OldJobStep, RunStep
  <1> QED
    BY <1>1, <1>2

\* The second read of isStop() is a turn of Scheduler's idle loop if it ends the
\* thread, and changes nothing of Scheduler's otherwise.
LEMMA SeeSchedulerIsTurn ==
  ASSUME NEW t \in Runners, SeeScheduler(t)
  PROVE  IdleTurn(t) \/ UNCHANGED vars
  <1>1. CASE IsStop
    BY <1>1 DEF SeeScheduler, AtIdle, LeaveIdle, IdleTurn
  <1>2. CASE ~IsStop
    BY <1>2 DEF SeeScheduler, vars, queueVars, loopVars
  <1> QED
    BY <1>1, <1>2

\* All steps but two are steps of Scheduler.
LEMMA SchedulerStep ==
  ASSUME [IoNext]_ioVars
  PROVE  \/ [Next]_vars
         \/ \E t \in Runners : WakerAdds(t) \/ QueueBatch(t)
  <1>1. CASE ~aborted /\ OldStep
    BY <1>1, IoMainIsMain, IoLoopIsRun DEF OldStep, Next
  <1>2. ASSUME NEW t \in Runners, ~aborted, IoStep(t)
        PROVE  [Next]_vars \/ WakerAdds(t) \/ QueueBatch(t)
    <2>1. CASE ArmTimer(t) \/ ResumeUnsaved(t) \/ SeeTimers(t) \/ Collect(t)
      BY <2>1 DEF ArmTimer, ResumeUnsaved, SeeTimers, Collect
    <2>2. CASE FallAsleep(t)
      BY <1>2, <2>2 DEF FallAsleep, Next, RunStep
    <2>3. CASE SeeScheduler(t)
      BY <1>2, <2>3, SeeSchedulerIsTurn DEF Next
    <2> QED
      BY <1>2, <2>1, <2>2, <2>3 DEF IoStep
  <1>3. CASE UNCHANGED ioVars
    BY <1>3 DEF ioVars
  <1> QED
    BY <1>1, <1>2, <1>3, IoNextCases

-----------------------------------------------------------------------------
(* Types *)

\* What is queued, taken or bound to a fiber has been added.
AddedInv ==
  /\ \A i \in DOMAIN tasks : tasks[i] \in Jobs => tasks[i] \in added
  /\ \A t \in Threads : job[t] \in Jobs => job[t] \in added
  /\ \A f \in Fibers : fcb[f] # None => fcb[f] \in added

\* There is a callback only for a sleeper whose timer has been armed, and the
\* callback has a fiber to add.
TargetInv ==
  /\ \A s \in Sleepers : sleep[s] # "no" => target[s] \in Fibers
  /\ armed \subseteq {s \in Sleepers : sleep[s] # "no"}
  /\ \A t \in Threads : batch[t] \subseteq {s \in Sleepers : sleep[s] # "no"}
  /\ \A s \in Sleepers : WakerOf[s] \in added => sleep[s] # "no"

\* timers_ and the vector of callbacks are finite.
FiniteInv == IsFiniteSet(armed) /\ \A t \in Threads : IsFiniteSet(batch[t])

IoTypeInv == IoTypeOK /\ HandInv /\ AddedInv /\ TargetInv /\ FiniteInv

LEMMA SleepersAreJobs ==
  /\ Sleepers \subseteq Jobs /\ Wakers \subseteq Jobs /\ Sleepers \cap Wakers = {}
  /\ \A s \in Sleepers : WakerOf[s] \in Wakers /\ ThreadIdOf[WakerOf[s]] = -1
  /\ \A s, u \in Sleepers : WakerOf[s] = WakerOf[u] => s = u
  /\ None \notin Jobs /\ None \notin Fibers /\ Jobs \cap Fibers = {}
  BY IoAssumption, SchedulerAssumption DEF Wakers

\* A vector of callbacks in some order has each of them.
LEMMA OrderCovers ==
  ASSUME NEW S, IsFiniteSet(S), NEW order \in SetToSeqs(S)
  PROVE  /\ order \in Seq(S)
         /\ \A s \in S : \E i \in DOMAIN order : order[i] = s
  <1> DEFINE D == 1 .. Cardinality(S)
  <1>1. Cardinality(S) \in Nat
    BY FS_CardinalityType
  <1>2. order \in [D -> S] /\ \A i, j \in D : i # j => order[i] # order[j]
    BY DEF SetToSeqs
  <1>3. Cardinality(D) = Cardinality(S)
    BY <1>1, FS_Interval
  <1>4. order \in Injection(D, S)
    BY <1>2 DEF Injection, IsInjective
  <1>5. order \in Surjection(D, S)
    BY <1>3, <1>4, FS_Injection
  <1> QED
    BY <1>1, <1>2, <1>5 DEF Surjection

\* addMultiJob, with the queue seen as a function.
LEMMA QueueBatchProps ==
  ASSUME IoTypeInv, NEW t \in Runners, QueueBatch(t)
  PROVE  /\ pc[t] = "idle" /\ idlePc[t] = "queue" /\ t \in Threads
         /\ pc' = [pc EXCEPT ![t] = "fetch"]
         /\ idleFiber' = [idleFiber EXCEPT ![t] = "SUSPENDED"]
         /\ idlePc' = [idlePc EXCEPT ![t] = "check"]
         /\ batch' = [batch EXCEPT ![t] = {}]
         /\ added' = added \cup {WakerOf[s] : s \in batch[t]}
         /\ tasks' \in Seq(Jobs \cup Fibers)
         /\ Len(tasks) <= Len(tasks')
         /\ \A i \in 1 .. Len(tasks) : tasks'[i] = tasks[i]
         /\ \A i \in Len(tasks) + 1 .. Len(tasks') : \E s \in batch[t] : tasks'[i] = WakerOf[s]
         /\ \A s \in batch[t] : WakerOf[s] \in Range(tasks')
         /\ UNCHANGED <<mainVars, mutex, active, job, loaded, cbFiber, fiberVars,
                        aborted, sleepVars, armed>>
  <1>0. TypeOK /\ t \in Threads /\ batch[t] \subseteq Sleepers /\ IsFiniteSet(batch[t])
    BY RunnersAreThreads DEF IoTypeInv, IoTypeOK, FiniteInv
  <1>1. PICK order \in SetToSeqs(batch[t]) :
          tasks' = tasks \o [i \in DOMAIN order |-> WakerOf[order[i]]]
    BY DEF QueueBatch
  <1> DEFINE new == [i \in DOMAIN order |-> WakerOf[order[i]]]
             n   == Len(order)
  <1>2. /\ order \in Seq(batch[t])
        /\ \A s \in batch[t] : \E i \in DOMAIN order : order[i] = s
    BY <1>0, OrderCovers
  <1>3. n \in Nat /\ DOMAIN order = 1 .. n /\ \A i \in 1 .. n : order[i] \in batch[t]
    BY <1>2
  <1>4. /\ new \in Seq(Jobs \cup Fibers) /\ Len(new) = n
        /\ \A i \in 1 .. n : new[i] = WakerOf[order[i]]
    BY <1>0, <1>3, SleepersAreJobs
  <1>5. tasks \in Seq(Jobs \cup Fibers) /\ Len(tasks) \in Nat
    BY <1>0 DEF TypeOK
  <1> HIDE DEF new, n
  <1>6. /\ tasks' \in Seq(Jobs \cup Fibers)
        /\ Len(tasks') = Len(tasks) + n
        /\ \A i \in 1 .. Len(tasks) + n :
             tasks'[i] = IF i <= Len(tasks) THEN tasks[i] ELSE new[i - Len(tasks)]
    BY <1>1, <1>4, <1>5, ConcatProperties DEF new
  <1>7. /\ Len(tasks) <= Len(tasks')
        /\ \A i \in 1 .. Len(tasks) : tasks'[i] = tasks[i]
    BY <1>3, <1>5, <1>6
  <1>8. ASSUME NEW i \in Len(tasks) + 1 .. Len(tasks')
        PROVE  \E s \in batch[t] : tasks'[i] = WakerOf[s]
    <2>1. i - Len(tasks) \in 1 .. n /\ tasks'[i] = new[i - Len(tasks)]
      BY <1>3, <1>5, <1>6
    <2> QED
      BY <1>3, <1>4, <2>1
  <1>9. ASSUME NEW s \in batch[t] PROVE WakerOf[s] \in Range(tasks')
    <2>1. PICK i \in 1 .. n : order[i] = s
      BY <1>2, <1>3
    <2>2. Len(tasks) + i \in 1 .. Len(tasks) + n /\ ~ (Len(tasks) + i <= Len(tasks))
          /\ (Len(tasks) + i) - Len(tasks) = i
      BY <1>3, <1>5
    <2>3. tasks'[Len(tasks) + i] = WakerOf[s] /\ Len(tasks) + i \in DOMAIN tasks'
      BY <1>4, <1>6, <2>1, <2>2
    <2> QED
      BY <2>3 DEF Range
  <1> QED
    BY <1>0, <1>6, <1>7, <1>8, <1>9 DEF QueueBatch, AtIdle, LeaveIdle, GoIdle

\* addJob(fiber) of a timer's callback: there is a fiber.
LEMMA WakerAddsProps ==
  ASSUME IoTypeInv, NEW t \in Runners, WakerAdds(t)
  PROVE  \E s \in Sleepers \ woken :
           /\ t \in Threads /\ pc[t] = "run" /\ cbFiber[t] \in Fibers
           /\ fcb[cbFiber[t]] = WakerOf[s]
           /\ WakerOf[s] \in added
           /\ sleep[s] # "no"
           /\ target[s] \in Fibers
           /\ tasks' = Append(tasks, target[s])
           /\ woken' = woken \cup {s}
           /\ UNCHANGED <<mainVars, mutex, added, active, loopVars, fiberVars, aborted,
                          sleep, armed, target, corrupt, idleVars>>
  <1>0. TypeOK /\ HandInv /\ AddedInv /\ TargetInv /\ t \in Threads
    BY RunnersAreThreads DEF IoTypeInv, IoTypeOK
  <1>1. PICK s \in Sleepers \ woken :
          /\ Executing(t) = WakerOf[s]
          /\ tasks' = Append(tasks, target[s])
          /\ woken' = woken \cup {s}
          /\ UNCHANGED <<mainVars, mutex, added, active, loopVars, fiberVars, aborted,
                         sleep, armed, target, corrupt, idleVars>>
    BY DEF WakerAdds
  <1>2. WakerOf[s] # None
    BY SleepersAreJobs
  <1>3. pc[t] = "run" /\ fcb[cbFiber[t]] = WakerOf[s]
    BY <1>1, <1>2 DEF Executing
  <1>4. cbFiber[t] \in Fibers
    BY <1>0, <1>3 DEF HandInv, Working, TypeOK
  <1>5. WakerOf[s] \in added
    BY <1>0, <1>2, <1>3, <1>4 DEF AddedInv
  <1> QED
    BY <1>0, <1>1, <1>3, <1>4, <1>5 DEF TargetInv

\* Every step of Scheduler keeps AddedInv.
LEMMA AddedStep ==
  ASSUME TypeOK, HandInv, AddedInv, [Next]_vars
  PROVE  AddedInv'
  <1> USE RunnersAreThreads, NoneIsNothing
  <1> USE DEF mainVars, queueVars, loopVars, fiberVars
  <1>1. CASE UNCHANGED <<tasks, job, fcb, added>>
    BY <1>1 DEF AddedInv
  <1>2. ASSUME NEW j \in Jobs, AddJob(j), UNCHANGED <<job, fcb>> PROVE AddedInv'
    BY <1>2 DEF AddJob, AddedInv, TypeOK
  <1>3. ASSUME NEW j \in Jobs, MainAdds(j) PROVE AddedInv'
    BY <1>2, <1>3 DEF MainAdds
  <1>4. CASE Start \/ StartReturns \/ Stop \/ StopReturns
    BY <1>1, <1>4 DEF Start, StartReturns, Stop, StopReturns
  <1>5. ASSUME NEW w \in Workers, Spawn(w) \/ PublishId(w) PROVE AddedInv'
    BY <1>1, <1>5 DEF Spawn, PublishId
  <1>6. ASSUME NEW t \in Runners, RunStep(t) \/ IdleTurn(t) PROVE AddedInv'
    <2>0. t \in Threads
      OBVIOUS
    <2>1. CASE TakeJob(t)
      <3>1. PICK i \in DOMAIN tasks :
              /\ job' = [job EXCEPT ![t] = tasks[i]]
              /\ \A k \in DOMAIN tasks' : \E m \in DOMAIN tasks \ {i} : tasks'[k] = tasks[m]
        BY <2>0, <2>1, TakeJobProps
      <3>2. UNCHANGED <<fcb, added>>
        BY <2>1 DEF TakeJob
      <3> QED
        BY <2>0, <3>1, <3>2 DEF AddedInv, TypeOK
    <2>2. CASE ResumeFiber(t)
      <3>1. job' = [job EXCEPT ![t] = None] /\ UNCHANGED <<tasks, fcb, added>>
        BY <2>2 DEF ResumeFiber, Resume
      <3> QED
        BY <2>0, <3>1 DEF AddedInv, TypeOK
    <2>3. CASE ResetAndResume(t) \/ NewAndResume(t)
      <3>1. /\ job[t] \in Jobs /\ job' = [job EXCEPT ![t] = None] /\ UNCHANGED <<tasks, added>>
            /\ \E f \in Fibers : fcb' = [fcb EXCEPT ![f] = job[t]]
        BY <2>0, <2>3 DEF ResetAndResume, NewAndResume, Resume, TypeOK
      <3> QED
        BY <2>0, <3>1 DEF AddedInv, TypeOK
    <2>4. ASSUME NEW j \in Jobs, JobAdds(t, j) PROVE AddedInv'
      BY <1>2, <2>4 DEF JobAdds
    <2>5. CASE JobEnds(t) \/ DispatchEnded(t)
      <3>1. fcb' = [fcb EXCEPT ![cbFiber[t]] = None] /\ UNCHANGED <<tasks, job, added>>
        BY <2>5 DEF JobEnds, DispatchEnded
      <3> QED
        BY <3>1 DEF AddedInv, TypeOK
    <2>6. CASE DispatchReady(t)
      <3>1. /\ cbFiber[t] \in Fibers /\ tasks' = Append(tasks, cbFiber[t])
            /\ UNCHANGED <<job, fcb, added>>
        BY <2>0, <2>6 DEF DispatchReady, Readd, HandInv, Working, TypeOK
      <3>2. cbFiber[t] \notin Jobs
        BY <3>1, SchedulerAssumption
      <3> QED
        BY <3>1, <3>2 DEF AddedInv, TypeOK
    <2>7. CASE \/ CountUp(t) \/ FindNothing(t) \/ SwitchBack(t) \/ CountDownLoad(t)
               \/ CountDownStore(t) \/ DispatchSuspended(t) \/ IdleTurn(t)
      BY <1>1, <2>7 DEF CountUp, FindNothing, SwitchBack, CountDownLoad, CountDownStore,
         DispatchSuspended, IdleTurn
    <2>8. ASSUME NEW state, Yield(t, state) PROVE AddedInv'
      BY <1>1, <2>8 DEF Yield
    <2> QED
      BY <1>6, <2>1, <2>2, <2>3, <2>4, <2>5, <2>6, <2>7, <2>8
      DEF RunStep, YieldToReady, YieldToSuspended
  <1>7. CASE UNCHANGED vars
    BY <1>1, <1>7 DEF vars
  <1> QED
    BY <1>3, <1>4, <1>5, <1>6, <1>7, NextCases

\* A step that arms no timer, adds no callback and moves none.
LEMMA TargetUnchanged ==
  ASSUME TargetInv, FiniteInv, IoUnchanged, added' \cap Wakers \subseteq added
  PROVE  TargetInv' /\ FiniteInv'
  BY SleepersAreJobs DEF TargetInv, FiniteInv, IoUnchanged, sleepVars, idleVars

\* The steps that IoScheduler inherits add no callback of a sleeper.
LEMMA OldStepAddsNoWaker ==
  ASSUME OldStep
  PROVE  IoUnchanged /\ added' \cap Wakers \subseteq added
  <1> USE DEF mainVars, queueVars, loopVars, fiberVars
  <1>1. IoUnchanged
    BY DEF OldStep
  <1>2. CASE IoMain
    BY <1>2 DEF IoMain, MainAdds, AddJob, Start, Spawn, PublishId, StartReturns, Stop, StopReturns
  <1>3. ASSUME NEW t \in Runners, IoLoop(t) PROVE added' = added
    BY <1>3 DEF IoLoop, TakeJob, CountUp, FindNothing, ResumeFiber, ResetAndResume,
       NewAndResume, Resume, SwitchBack, CountDownLoad, CountDownStore, DispatchReady,
       Readd, DispatchEnded, DispatchSuspended
  <1>4. ASSUME NEW t \in Runners, OldJobStep(t) PROVE added' \cap Wakers \subseteq added
    BY <1>4 DEF OldJobStep, JobEnds, YieldToReady, Yield, JobAdds, AddJob
  <1> QED
    BY <1>1, <1>2, <1>3, <1>4 DEF OldStep

\* Nothing leaves the queue, and no fiber comes into it.
LEMMA QueueBatchRange ==
  ASSUME IoTypeInv, NEW t \in Runners, QueueBatch(t)
  PROVE  /\ Range(tasks) \subseteq Range(tasks')
         /\ \A i \in DOMAIN tasks : i \in DOMAIN tasks' /\ tasks'[i] = tasks[i]
         /\ \A i \in DOMAIN tasks' : tasks'[i] \in Fibers => i \in DOMAIN tasks
         /\ \A f \in Fibers : f \in Range(tasks') => f \in Range(tasks)
  <1>1. /\ tasks \in Seq(Jobs \cup Fibers)
        /\ batch[t] \subseteq Sleepers
    BY RunnersAreThreads DEF IoTypeInv, IoTypeOK, TypeOK
  <1>2. /\ tasks' \in Seq(Jobs \cup Fibers)
        /\ Len(tasks) <= Len(tasks')
        /\ \A i \in 1 .. Len(tasks) : tasks'[i] = tasks[i]
        /\ \A i \in Len(tasks) + 1 .. Len(tasks') : \E s \in batch[t] : tasks'[i] = WakerOf[s]
    BY QueueBatchProps
  <1>3. /\ DOMAIN tasks' = 1 .. Len(tasks') /\ DOMAIN tasks = 1 .. Len(tasks)
        /\ Len(tasks) \in Nat /\ Len(tasks') \in Nat
    BY <1>1, <1>2
  <1>4. \A i \in DOMAIN tasks : i \in DOMAIN tasks' /\ tasks'[i] = tasks[i]
    BY <1>2, <1>3
  <1>5. ASSUME NEW i \in DOMAIN tasks', i \notin DOMAIN tasks
        PROVE  tasks'[i] \in Jobs
    <2>1. i \in Len(tasks) + 1 .. Len(tasks')
      BY <1>3, <1>5
    <2> QED
      BY <1>1, <1>2, <2>1, SleepersAreJobs
  <1>6. \A i \in DOMAIN tasks' : tasks'[i] \in Fibers => i \in DOMAIN tasks
    BY <1>5, SleepersAreJobs
  <1> QED
    BY <1>4, <1>6 DEF Range

\* Every step keeps the types and, with them, that a timer's callback has a
\* fiber to add.
LEMMA IoTypeStep ==
  ASSUME IoTypeInv, [IoNext]_ioVars
  PROVE  IoTypeInv'
  <1> USE RunnersAreThreads, SleepersAreJobs
  <1>0. /\ TypeOK /\ HandInv /\ AddedInv /\ TargetInv /\ FiniteInv
        /\ sleep \in [Sleepers -> {"no", "armed", "asleep"}]
        /\ armed \in SUBSET Sleepers
        /\ target \in [Sleepers -> Fibers \cup {None}]
        /\ woken \in SUBSET Sleepers
        /\ corrupt \in BOOLEAN
        /\ idlePc \in [Threads -> {"check", "stop", "wait", "queue"}]
        /\ batch \in [Threads -> SUBSET Sleepers]
    BY DEF IoTypeInv, IoTypeOK
  <1>1. ASSUME [Next]_vars PROVE TypeOK' /\ HandInv' /\ AddedInv'
    BY <1>0, <1>1, TypeStep, AddedStep
  <1>2. CASE OldStep /\ ~aborted
    <2>1. [Next]_vars
      BY <1>2, IoMainIsMain, IoLoopIsRun DEF OldStep, Next
    <2>2. IoUnchanged /\ TargetInv' /\ FiniteInv'
      BY <1>0, <1>2, OldStepAddsNoWaker, TargetUnchanged
    <2> QED
      BY <1>0, <1>1, <2>1, <2>2 DEF IoTypeInv, IoTypeOK, IoUnchanged, sleepVars, idleVars
  <1>3. ASSUME NEW t \in Runners, ArmTimer(t) PROVE IoTypeInv'
    <2> DEFINE s == Executing(t)
    <2>1. /\ s \in Sleepers /\ sleep[s] = "no" /\ t \in Threads
          /\ sleep' = [sleep EXCEPT ![s] = "armed"]
          /\ armed' = armed \cup {s}
          /\ target' = [target EXCEPT ![s] = cbFiber[t]]
          /\ UNCHANGED <<vars, woken, corrupt, idleVars>>
      BY <1>3 DEF ArmTimer
    <2>2. pc[t] = "run"
      BY <2>1 DEF Executing
    <2>3. cbFiber[t] \in Fibers
      BY <1>0, <2>1, <2>2 DEF HandInv, Working, TypeOK
    <2> HIDE DEF s
    <2>4. TypeOK' /\ HandInv' /\ AddedInv'
      BY <1>1, <2>1
    <2>5. \A u \in Sleepers : /\ sleep'[u] = IF u = s THEN "armed" ELSE sleep[u]
                              /\ target'[u] = IF u = s THEN cbFiber[t] ELSE target[u]
      BY <1>0, <2>1
    <2>6. added' = added /\ batch' = batch
      BY <2>1 DEF vars, queueVars, idleVars
    <2>7. TargetInv'
      BY <1>0, <2>1, <2>3, <2>5, <2>6 DEF TargetInv
    <2>8. FiniteInv'
      BY <1>0, <2>1, <2>6, FS_AddElement DEF FiniteInv
    <2> QED
      BY <1>0, <2>1, <2>3, <2>4, <2>7, <2>8 DEF IoTypeInv, IoTypeOK, idleVars
  <1>4. ASSUME NEW t \in Runners, ~aborted, FallAsleep(t) PROVE IoTypeInv'
    <2> DEFINE s == Executing(t)
    <2>1. /\ s \in Sleepers
          /\ YieldToSuspended(t)
          /\ sleep' = [sleep EXCEPT ![s] = "asleep"]
          /\ UNCHANGED <<armed, target, woken, corrupt, idleVars>>
          /\ sleep[s] = "armed"
      BY <1>4 DEF FallAsleep, Arming
    <2>2. TypeOK' /\ HandInv' /\ AddedInv'
      BY <1>1, <1>4, <2>1 DEF Next, RunStep
    <2>3. added' = added
      BY <2>1 DEF YieldToSuspended, Yield, queueVars
    <2> HIDE DEF s
    <2>4. \A u \in Sleepers : sleep'[u] = IF u = s THEN "asleep" ELSE sleep[u]
      BY <1>0, <2>1
    <2>5. TargetInv' /\ FiniteInv'
      BY <1>0, <2>1, <2>3, <2>4 DEF TargetInv, FiniteInv, idleVars
    <2> QED
      BY <1>0, <2>1, <2>2, <2>5 DEF IoTypeInv, IoTypeOK, idleVars
  <1>5. ASSUME NEW t \in Runners, WakerAdds(t) PROVE IoTypeInv'
    <2>1. PICK s \in Sleepers :
            /\ target[s] \in Fibers
            /\ tasks' = Append(tasks, target[s])
            /\ woken' = woken \cup {s}
            /\ UNCHANGED <<mainVars, mutex, added, active, loopVars, fiberVars, aborted,
                           sleep, armed, target, corrupt, idleVars>>
      BY <1>5, WakerAddsProps
    <2> USE DEF mainVars, loopVars, fiberVars, idleVars
    <2>2. tasks' \in Seq(Jobs \cup Fibers)
      BY <1>0, <2>1 DEF TypeOK
    <2>3. TypeOK' /\ HandInv'
      BY <1>0, <2>1, <2>2 DEF TypeOK, HandInv
    <2>4. AddedInv'
      BY <1>0, <2>1 DEF TypeOK, AddedInv
    <2>5. TargetInv' /\ FiniteInv'
      BY <1>0, <2>1 DEF TargetInv, FiniteInv
    <2> QED
      BY <1>0, <2>1, <2>3, <2>4, <2>5 DEF IoTypeInv, IoTypeOK
  <1>6. ASSUME NEW t \in Runners, ResumeUnsaved(t) PROVE IoTypeInv'
    <2>1. corrupt' = TRUE /\ UNCHANGED <<vars, sleep, target, woken, armed, idleVars>>
      BY <1>6 DEF ResumeUnsaved
    <2>2. TypeOK' /\ HandInv' /\ AddedInv' /\ added' = added
      BY <1>1, <2>1 DEF vars, queueVars
    <2> QED
      BY <1>0, <2>1, <2>2 DEF IoTypeInv, IoTypeOK, TargetInv, FiniteInv, idleVars
  <1>7. ASSUME NEW t \in Runners, NEW where \in {"stop", "wait"}, GoIdle(t, where),
               UNCHANGED <<vars, sleepVars, armed, batch>>
        PROVE  IoTypeInv'
    <2>1. TypeOK' /\ HandInv' /\ AddedInv' /\ added' = added
      BY <1>1, <1>7 DEF vars, queueVars
    <2> QED
      BY <1>0, <1>7, <2>1 DEF GoIdle, IoTypeInv, IoTypeOK, TargetInv, FiniteInv, sleepVars
  <1>8. ASSUME NEW t \in Runners, SeeTimers(t) PROVE IoTypeInv'
    BY <1>7, <1>8 DEF SeeTimers
  <1>9. ASSUME NEW t \in Runners, ~aborted, SeeScheduler(t) PROVE IoTypeInv'
    <2>1. TypeOK' /\ HandInv' /\ AddedInv'
      BY <1>1, <1>9, SeeSchedulerIsTurn DEF Next
    <2>2. /\ idlePc' = [idlePc EXCEPT ![t] = "check"] \/ idlePc' = [idlePc EXCEPT ![t] = "wait"]
          /\ added' = added
          /\ UNCHANGED <<sleepVars, armed, batch>>
      BY <1>9 DEF SeeScheduler, LeaveIdle, GoIdle, queueVars
    <2> QED
      BY <1>0, <2>1, <2>2 DEF IoTypeInv, IoTypeOK, TargetInv, FiniteInv, sleepVars
  <1>10. ASSUME NEW t \in Runners, Collect(t) PROVE IoTypeInv'
    <2>1. PICK expired \in SUBSET armed :
            /\ armed' = armed \ expired
            /\ batch' = [batch EXCEPT ![t] = expired]
      BY <1>10 DEF Collect
    <2>2. idlePc' = [idlePc EXCEPT ![t] = "queue"] /\ UNCHANGED <<vars, sleepVars>>
      BY <1>10 DEF Collect, GoIdle
    <2>3. TypeOK' /\ HandInv' /\ AddedInv' /\ added' = added
      BY <1>1, <2>2 DEF vars, queueVars
    <2>4. \A u \in Threads : batch'[u] = IF u = t THEN expired ELSE batch[u]
      BY <1>0, <2>1
    <2>5. IsFiniteSet(armed') /\ IsFiniteSet(expired)
      BY <1>0, <2>1, FS_Subset DEF FiniteInv
    <2>6. TargetInv'
      BY <1>0, <2>1, <2>2, <2>3, <2>4 DEF TargetInv, sleepVars
    <2>7. FiniteInv'
      BY <1>0, <2>4, <2>5 DEF FiniteInv
    <2>8. armed' \in SUBSET Sleepers /\ batch' \in [Threads -> SUBSET Sleepers]
      BY <1>0, <2>1
    <2> QED
      BY <1>0, <2>2, <2>3, <2>6, <2>7, <2>8 DEF IoTypeInv, IoTypeOK, sleepVars
  <1>11. ASSUME NEW t \in Runners, QueueBatch(t) PROVE IoTypeInv'
    <2>1. /\ pc' = [pc EXCEPT ![t] = "fetch"]
          /\ idleFiber' = [idleFiber EXCEPT ![t] = "SUSPENDED"]
          /\ idlePc' = [idlePc EXCEPT ![t] = "check"]
          /\ batch' = [batch EXCEPT ![t] = {}]
          /\ added' = added \cup {WakerOf[s] : s \in batch[t]}
          /\ tasks' \in Seq(Jobs \cup Fibers)
          /\ Len(tasks) <= Len(tasks')
          /\ \A i \in 1 .. Len(tasks) : tasks'[i] = tasks[i]
          /\ \A i \in Len(tasks) + 1 .. Len(tasks') : \E s \in batch[t] : tasks'[i] = WakerOf[s]
          /\ UNCHANGED <<mainVars, mutex, active, job, loaded, cbFiber, fiberVars,
                         aborted, sleepVars, armed>>
      BY <1>11, QueueBatchProps
    <2> USE DEF mainVars, fiberVars, sleepVars
    <2>2. batch[t] \subseteq Sleepers /\ \A s \in batch[t] : WakerOf[s] \in Jobs /\ sleep[s] # "no"
      BY <1>0 DEF TargetInv
    <2>3. TypeOK'
      <3>1. added' \in SUBSET Jobs
        BY <1>0, <2>1, <2>2 DEF TypeOK
      <3>2. pc' \in [Threads -> RunPcs] /\ idleFiber' \in [Threads -> FiberStates]
        BY <1>0, <2>1 DEF TypeOK, RunPcs, FiberStates
      <3> QED
        BY <1>0, <2>1, <3>1, <3>2 DEF TypeOK
    <2>4. HandInv'
      BY <1>0, <2>1 DEF HandInv, TypeOK, Working
    <2>5. AddedInv'
      <3>1. ASSUME NEW i \in DOMAIN tasks', tasks'[i] \in Jobs PROVE tasks'[i] \in added'
        <4>1. /\ Len(tasks) \in Nat /\ Len(tasks') \in Nat /\ i \in 1 .. Len(tasks')
              /\ DOMAIN tasks = 1 .. Len(tasks)
          BY <1>0, <2>1 DEF TypeOK
        <4>2. CASE i \in 1 .. Len(tasks)
          BY <1>0, <2>1, <3>1, <4>1, <4>2 DEF AddedInv
        <4>3. CASE i \notin 1 .. Len(tasks)
          BY <2>1, <4>1, <4>3
        <4> QED
          BY <4>2, <4>3
      <3> QED
        BY <1>0, <2>1, <3>1 DEF AddedInv
    <2>6. TargetInv'
      <3>1. \A s \in Sleepers : WakerOf[s] \in added' => sleep[s] # "no"
        BY <1>0, <2>1, <2>2 DEF TargetInv
      <3>2. \A u \in Threads : batch'[u] \subseteq batch[u]
        BY <1>0, <2>1
      <3> QED
        BY <1>0, <2>1, <3>1, <3>2 DEF TargetInv
    <2>7. FiniteInv'
      BY <1>0, <2>1, FS_EmptySet DEF FiniteInv
    <2> QED
      BY <1>0, <2>1, <2>3, <2>4, <2>5, <2>6, <2>7 DEF IoTypeInv, IoTypeOK
  <1>12. CASE UNCHANGED ioVars
    <2>1. TypeOK' /\ HandInv' /\ AddedInv' /\ added' = added
      BY <1>1, <1>12 DEF ioVars, vars, queueVars
    <2> QED
      BY <1>0, <1>12, <2>1
      DEF ioVars, IoTypeInv, IoTypeOK, TargetInv, FiniteInv, sleepVars, idleVars
  <1> QED
    BY <1>2, <1>3, <1>4, <1>5, <1>6, <1>8, <1>9, <1>10, <1>11, <1>12, IoNextCases DEF IoStep

\* Before start() no timer is armed.
LEMMA InitIoType == IoInit => IoTypeInv
  <1> SUFFICES ASSUME IoInit PROVE IoTypeInv
    OBVIOUS
  <1>1. TypeOK /\ HandInv
    BY InitTypeOK DEF IoInit
  <1>2. AddedInv
    BY NoneIsNothing DEF IoInit, Init, AddedInv
  <1>3. /\ added = {} /\ sleep = [s \in Sleepers |-> "no"] /\ armed = {} /\ woken = {}
        /\ target = [s \in Sleepers |-> None] /\ corrupt = FALSE
        /\ idlePc = [t \in Threads |-> "check"]
        /\ batch = [t \in Threads |-> {}]
    BY DEF IoInit, Init
  <1>4. TargetInv /\ FiniteInv
    BY <1>3, FS_EmptySet DEF TargetInv, FiniteInv
  <1>5. IoTypeOK
    BY <1>1, <1>3 DEF IoTypeOK
  <1> QED
    BY <1>1, <1>2, <1>4, <1>5 DEF IoTypeInv

LEMMA IoTypeInvariant == IoSpec => []IoTypeInv
  BY InitIoType, IoTypeStep, PTL DEF IoSpec

\* Every variable has its type, however many threads there are; in particular a
\* timer's callback always has a fiber to add.
THEOREM IoTypes == IoSpec => []IoTypeOK
  <1>1. IoTypeInv => IoTypeOK
    BY DEF IoTypeInv
  <1> QED
    BY <1>1, IoTypeInvariant, PTL

-----------------------------------------------------------------------------
(* Nobody who sleeps is lost, when one thread executes run() *)

\* What follows is about a single runner r: with two, one of them finds the
\* queue and the timers empty, and ends, while the other has a callback in hand
\* (the run "lost").

\* The way of a callback from the timers to the job that adds the fiber.
WakerComing(r, s) ==
  \/ s \in armed
  \/ s \in batch[r]
  \/ WakerOf[s] \in Range(tasks)
  \/ job[r] = WakerOf[s]
  \/ Executing(r) = WakerOf[s]

\* Between addTimer and the yield, the sleeper's fiber is the one that runs.
ArmedInv(r) ==
  \A s \in Sleepers : sleep[s] = "armed" =>
    /\ pc[r] = "run" /\ cbFiber[r] = target[s] /\ fcb[target[s]] = s
    /\ s \in armed /\ s \notin woken

\* A sleeper whom nobody has woken is bound to a suspended fiber, that run() is
\* about to let go of at most, and its callback is on its way.
AsleepInv(r) ==
  \A s \in Sleepers : sleep[s] = "asleep" /\ s \notin woken =>
    /\ fcb[target[s]] = s /\ fstate[target[s]] = "SUSPENDED"
    /\ target[s] \notin Range(tasks) /\ job[r] # target[s]
    /\ cbFiber[r] = target[s] => pc[r] \in {"switch", "load", "store", "dispatch"}
    /\ WakerComing(r, s)

\* A suspended fiber with a callable belongs to a sleeper, who has not been woken
\* unless run() is about to resume it.
ParkedInv(r) ==
  \A f \in Fibers : fstate[f] = "SUSPENDED" /\ fcb[f] # None =>
    /\ fcb[f] \in Sleepers /\ sleep[fcb[f]] = "asleep" /\ target[fcb[f]] = f
    /\ fcb[f] \notin woken \/ f \in Range(tasks) \/ job[r] = f

\* The idle fiber ends only when no timer is left, nothing is queued and no
\* callback is in its hands, and run() returns only then.
IdleInv(r) ==
  /\ pc[r] # "idle" => idlePc[r] = "check"
  /\ idlePc[r] = "stop" => armed = {}
  /\ batch[r] # {} => pc[r] = "idle" /\ idlePc[r] = "queue"
  /\ idleFiber[r] = "TERM" => tasks = <<>> /\ armed = {} /\ pc[r] \in {"fetch", "done"}
  /\ pc[r] = "done" => idleFiber[r] = "TERM"

SleepInv(r) ==
  /\ \A s \in woken : sleep[s] = "asleep"
  /\ ArmedInv(r) /\ AsleepInv(r) /\ ParkedInv(r) /\ IdleInv(r)

PoolOfOneInv(r) == IoTypeInv /\ ExclusiveInv /\ JobInv /\ CountInv /\ SleepInv(r)

\* addJob puts its entry into the queue and nothing else.
LEMMA AppendAdds ==
  ASSUME TypeOK, NEW e \in Jobs \cup Fibers, tasks' = Append(tasks, e)
  PROVE  Range(tasks') = Range(tasks) \cup {e}
  <1>1. /\ DOMAIN tasks' = 1 .. Len(tasks) + 1 /\ DOMAIN tasks = 1 .. Len(tasks)
        /\ Len(tasks) \in Nat
        /\ \A i \in DOMAIN tasks' : tasks'[i] = IF i \in DOMAIN tasks THEN tasks[i] ELSE e
    BY DEF TypeOK
  <1>2. \A i \in DOMAIN tasks : i \in DOMAIN tasks' /\ tasks'[i] = tasks[i]
    BY <1>1
  <1>3. Len(tasks) + 1 \in DOMAIN tasks' /\ tasks'[Len(tasks) + 1] = e
    BY <1>1
  <1> QED
    BY <1>1, <1>2, <1>3 DEF Range

\* The thread in run() is the runner; nobody else has a fiber or a job.
LEMMA OnlyRunner ==
  ASSUME NEW r \in Threads, Runners = {r}, ExclusiveInv, JobInv, CountInv
  PROVE  \A t \in Threads : t # r => pc[t] = "off" /\ cbFiber[t] = None /\ job[t] = None
  BY DEF ExclusiveInv, JobInv, LiveInv, CountInv, FiberInv, StateOf

\* addJob(fiber) of a callback: the sleeper's fiber is suspended, is nowhere else
\* and belongs to the sleeper.
LEMMA WakerAddsSleeper ==
  ASSUME NEW r \in Threads, Runners = {r}, PoolOfOneInv(r), WakerAdds(r)
  PROVE  \E s \in Sleepers \ woken :
           /\ pc[r] = "run" /\ cbFiber[r] \in Fibers /\ fcb[cbFiber[r]] = WakerOf[s]
           /\ sleep[s] = "asleep"
           /\ target[s] \in Fibers /\ fcb[target[s]] = s /\ fstate[target[s]] = "SUSPENDED"
           /\ target[s] \notin Range(tasks)
           /\ \A t \in Threads : ~Holds(t, target[s])
           /\ tasks' = Append(tasks, target[s])
           /\ woken' = woken \cup {s}
           /\ UNCHANGED <<mainVars, mutex, added, active, loopVars, fiberVars, aborted,
                          sleep, armed, target, corrupt, idleVars>>
  <1>1. PICK s \in Sleepers \ woken :
          /\ pc[r] = "run" /\ cbFiber[r] \in Fibers /\ fcb[cbFiber[r]] = WakerOf[s]
          /\ sleep[s] # "no"
          /\ target[s] \in Fibers
          /\ tasks' = Append(tasks, target[s])
          /\ woken' = woken \cup {s}
          /\ UNCHANGED <<mainVars, mutex, added, active, loopVars, fiberVars, aborted,
                         sleep, armed, target, corrupt, idleVars>>
    BY WakerAddsProps DEF PoolOfOneInv
  <1>2. WakerOf[s] # s
    BY SleepersAreJobs
  <1>3. sleep[s] = "asleep"
    BY <1>1, <1>2 DEF PoolOfOneInv, SleepInv, ArmedInv, IoTypeInv, IoTypeOK
  <1>4. /\ fcb[target[s]] = s /\ fstate[target[s]] = "SUSPENDED"
        /\ target[s] \notin Range(tasks) /\ job[r] # target[s]
    BY <1>1, <1>3 DEF PoolOfOneInv, SleepInv, AsleepInv
  <1>5. \A t \in Threads : ~Holds(t, target[s])
    <2>1. ~Holds(r, target[s])
      BY <1>1, <1>2, <1>4 DEF Holds
    <2> QED
      BY <1>1, <2>1, OnlyRunner, NoneIsNothing DEF Holds, PoolOfOneInv
  <1> QED
    BY <1>1, <1>3, <1>4, <1>5

\* What SchedulerProofs shows of the steps of Scheduler.
LEMMA OldPoolStep ==
  ASSUME OneRunner, ExclusiveInv, JobInv, CountInv, [Next]_vars
  PROVE  ExclusiveInv' /\ JobInv' /\ CountInv'
  <1>1. TypeOK' /\ HandInv'
    BY TypeStep DEF ExclusiveInv
  <1>2. ExclusiveInv'
    BY <1>1, ExclusiveStep DEF ExclusiveInv
  <1> QED
    BY <1>2, JobStep, CountStep

\* The two steps that IoScheduler adds to the queue keep what SchedulerProofs
\* shows of all the others.
LEMMA PoolStepOfOne ==
  ASSUME NEW r \in Threads, Runners = {r}, PoolOfOneInv(r), [IoNext]_ioVars
  PROVE  ExclusiveInv' /\ JobInv' /\ CountInv'
  <1> USE RunnersAreThreads, NoneIsNothing, SleepersAreJobs
  <1> USE DEF mainVars, loopVars, fiberVars, sleepVars, idleVars
  <1>0. /\ IoTypeInv /\ ExclusiveInv /\ JobInv /\ CountInv /\ SleepInv(r) /\ OneRunner
        /\ TypeOK /\ HandInv /\ OffInv /\ Exclusive /\ FiberInv /\ AssertionsHold
        /\ BoundInv /\ LiveInv
    BY DEF PoolOfOneInv, ExclusiveInv, JobInv, OneRunner
  <1>1. IoTypeInv'
    BY <1>0, IoTypeStep
  <1>2. TypeOK' /\ HandInv'
    BY <1>1 DEF IoTypeInv, IoTypeOK
  <1>3. CASE [Next]_vars
    BY <1>0, <1>3, OldPoolStep
  <1>4. CASE WakerAdds(r)
    <2>1. PICK s \in Sleepers :
            /\ pc[r] = "run"
            /\ target[s] \in Fibers /\ fstate[target[s]] = "SUSPENDED"
            /\ target[s] \notin Range(tasks)
            /\ \A t \in Threads : ~Holds(t, target[s])
            /\ tasks' = Append(tasks, target[s])
            /\ UNCHANGED <<mainVars, mutex, added, active, loopVars, fiberVars, aborted>>
      BY <1>4, WakerAddsSleeper
    <2> DEFINE f == target[s]
    <2>2. /\ DOMAIN tasks' = 1 .. Len(tasks) + 1 /\ DOMAIN tasks = 1 .. Len(tasks)
          /\ Len(tasks) \in Nat
          /\ \A i \in DOMAIN tasks' : tasks'[i] = IF i \in DOMAIN tasks THEN tasks[i] ELSE f
          /\ \A i \in DOMAIN tasks' : i \notin DOMAIN tasks => i = Len(tasks) + 1
      BY <1>0, <2>1 DEF TypeOK
    <2>3. Range(tasks') = Range(tasks) \cup {f}
      BY <1>0, <2>1, AppendAdds
    <2> HIDE DEF f
    <2>4. \A i \in DOMAIN tasks : tasks[i] # f
      BY <2>1 DEF Range, f
    <2>5. Exclusive'
      <3>1. \A t \in Threads, g \in Fibers : Holds(t, g)' <=> Holds(t, g)
        BY <2>1 DEF Holds
      <3>2. ASSUME NEW g \in Fibers, NEW i \in DOMAIN tasks', NEW k \in DOMAIN tasks',
                   tasks'[i] = g, tasks'[k] = g
            PROVE  i = k
        BY <1>0, <2>2, <2>4, <3>2 DEF Exclusive
      <3>3. ASSUME NEW g \in Fibers
            PROVE  /\ \A t, u \in Threads : Holds(t, g) /\ Holds(u, g) => t = u
                   /\ \A t \in Threads : cbFiber[t] = g => job[t] # g
                   /\ \A t \in Threads : Holds(t, g) => g \notin Range(tasks)
        BY <1>0 DEF Exclusive
      <3>4. \A t \in Threads, g \in Fibers : Holds(t, g) => g \notin Range(tasks')
        BY <2>1, <2>3, <3>3 DEF f
      <3> QED
        BY <2>1, <3>1, <3>2, <3>3, <3>4 DEF Exclusive
    <2>6. FiberInv'
      <3>1. \A t \in Threads : StateOf(t)'
        BY <1>0, <2>1 DEF FiberInv, StateOf
      <3>2. \A i \in DOMAIN tasks' : tasks'[i] \in Fibers => fstate[tasks'[i]] \in Resumable
        BY <1>0, <2>1, <2>2 DEF FiberInv, Resumable, f
      <3> QED
        BY <2>1, <3>1, <3>2 DEF FiberInv
    <2>7. ExclusiveInv'
      BY <1>0, <1>2, <2>1, <2>5, <2>6 DEF ExclusiveInv, OffInv, AssertionsHold
    <2>8. BoundInv'
      BY <1>0, <2>1, <2>3, BoundUnchanged
    <2>9. Live(r)'
      BY <2>1 DEF Live
    <2>10. LiveInv'
      BY <1>0, <2>1, <2>9 DEF LiveInv
    <2>11. CountInv'
      BY <1>0, <2>1 DEF CountInv, CountOf
    <2> QED
      BY <2>7, <2>8, <2>10, <2>11 DEF JobInv
  <1>5. CASE QueueBatch(r)
    <2>1. /\ pc[r] = "idle"
          /\ pc' = [pc EXCEPT ![r] = "fetch"]
          /\ idleFiber' = [idleFiber EXCEPT ![r] = "SUSPENDED"]
          /\ tasks' \in Seq(Jobs \cup Fibers)
          /\ Len(tasks) <= Len(tasks')
          /\ \A i \in 1 .. Len(tasks) : tasks'[i] = tasks[i]
          /\ \A i \in Len(tasks) + 1 .. Len(tasks') : \E s \in batch[r] : tasks'[i] = WakerOf[s]
          /\ UNCHANGED <<mainVars, mutex, active, job, loaded, cbFiber, fiberVars, aborted>>
      BY <1>0, <1>5, QueueBatchProps
    <2>2. /\ \A i \in DOMAIN tasks : i \in DOMAIN tasks' /\ tasks'[i] = tasks[i]
          /\ \A i \in DOMAIN tasks' : tasks'[i] \in Fibers => i \in DOMAIN tasks
          /\ Range(tasks) \subseteq Range(tasks')
          /\ \A f \in Fibers : f \in Range(tasks') => f \in Range(tasks)
      BY <1>0, <1>5, QueueBatchRange
    <2>5. Exclusive'
      <3>1. \A t \in Threads, g \in Fibers : Holds(t, g)' <=> Holds(t, g)
        BY <2>1 DEF Holds
      <3>2. ASSUME NEW g \in Fibers, NEW i \in DOMAIN tasks', NEW k \in DOMAIN tasks',
                   tasks'[i] = g, tasks'[k] = g
            PROVE  i = k
        BY <1>0, <2>2, <3>2 DEF Exclusive
      <3> QED
        BY <1>0, <2>1, <2>2, <3>1, <3>2 DEF Exclusive
    <2>6. FiberInv'
      <3>1. \A t \in Threads : StateOf(t)'
        BY <1>0, <2>1 DEF FiberInv, StateOf, Working, TypeOK
      <3>2. \A i \in DOMAIN tasks' : tasks'[i] \in Fibers => fstate[tasks'[i]] \in Resumable
        BY <1>0, <2>2 DEF FiberInv
      <3> QED
        BY <2>1, <3>1, <3>2 DEF FiberInv
    <2>7. OffInv'
      BY <1>0, <2>1 DEF OffInv, TypeOK
    <2>8. ExclusiveInv'
      BY <1>0, <1>2, <2>1, <2>5, <2>6, <2>7 DEF ExclusiveInv, AssertionsHold
    <2>9. BoundInv'
      BY <1>0, <2>1, <2>2, BoundUnchanged
    <2>10. LiveInv'
      <3>1. /\ \A u \in Threads : u # r => cbFiber'[u] = cbFiber[u]
            /\ \A u \in Threads : idleFiber'[u] = "TERM" => idleFiber[u] = "TERM"
        BY <1>0, <2>1 DEF TypeOK
      <3> QED
        BY <1>0, <2>1, <3>1, RunnerStaysLive
    <2>11. CountInv'
      <3>1. CountOf(r)'
        BY <1>0, <2>1 DEF CountInv, CountOf, TypeOK
      <3> QED
        BY <1>0, <2>1, <3>1, CountByPosition
    <2> QED
      BY <2>8, <2>9, <2>10, <2>11 DEF JobInv
  <1> QED
    BY <1>3, <1>4, <1>5, SchedulerStep

\* The main thread adds jobs that wake nobody, and moves the runner into run().
LEMMA MainKeepsSleepers ==
  ASSUME NEW r \in Threads, Runners = {r}, PoolOfOneInv(r), IoMain
  PROVE  SleepInv(r)'
  <1> USE RunnersAreThreads, NoneIsNothing, SleepersAreJobs
  <1> USE DEF mainVars, queueVars, loopVars, fiberVars
  <1>0. /\ TypeOK /\ OffInv /\ LiveInv /\ SleepInv(r)
        /\ target \in [Sleepers -> Fibers \cup {None}]
        /\ \A s \in Sleepers : sleep[s] # "no" => target[s] \in Fibers
    BY DEF PoolOfOneInv, ExclusiveInv, JobInv, IoTypeInv, IoTypeOK, TargetInv
  <1>1. UNCHANGED <<sleep, target, woken, armed, idlePc, batch>>
    BY DEF IoMain, IoUnchanged, sleepVars, idleVars
  <1>2. CASE UNCHANGED <<pc, tasks, job, cbFiber, idleFiber, fstate, fcb>>
    BY <1>0, <1>1, <1>2
    DEF SleepInv, ArmedInv, AsleepInv, WakerComing, Executing, ParkedInv, IdleInv
  <1>3. ASSUME pc[r] = "off", pc' = [pc EXCEPT ![r] = "fetch"],
               UNCHANGED <<tasks, job, cbFiber, idleFiber, fstate, fcb>>
        PROVE  SleepInv(r)'
    <2>1. pc'[r] = "fetch" /\ cbFiber[r] = None /\ idleFiber[r] # "TERM"
      BY <1>0, <1>3 DEF LiveInv, TypeOK, SleepInv, IdleInv
    <2>2. \A s \in Sleepers : sleep[s] # "armed"
      BY <1>0, <1>3 DEF SleepInv, ArmedInv
    <2>3. \A s \in Sleepers : WakerComing(r, s) => WakerComing(r, s)'
      BY <1>1, <1>3, <2>1 DEF WakerComing, Executing
    <2> QED
      BY <1>0, <1>1, <1>3, <2>1, <2>2, <2>3
      DEF SleepInv, ArmedInv, AsleepInv, ParkedInv, IdleInv
  <1>4. ASSUME NEW j \in Jobs, mainPc = "started", MainAdds(j) PROVE SleepInv(r)'
    <2>1. /\ tasks' = Append(tasks, j)
          /\ UNCHANGED <<pc, job, cbFiber, idleFiber, fstate, fcb>>
      BY <1>4 DEF MainAdds, AddJob
    <2>2. /\ Range(tasks) \subseteq Range(tasks')
          /\ \A f \in Fibers : f \in Range(tasks') => f \in Range(tasks)
      BY <1>0, <2>1, AppendAdds, SchedulerAssumption
    <2>3. idleFiber[r] # "TERM"
      BY <1>0, <1>4 DEF LiveInv
    <2>4. \A s \in Sleepers : WakerComing(r, s) => WakerComing(r, s)'
      BY <1>1, <2>1, <2>2 DEF WakerComing, Executing
    <2> QED
      BY <1>0, <1>1, <2>1, <2>2, <2>3, <2>4
      DEF SleepInv, ArmedInv, AsleepInv, ParkedInv, IdleInv
  <1>5. CASE Start \/ StartReturns \/ StopReturns
    BY <1>2, <1>5 DEF Start, StartReturns, StopReturns
  <1>6. ASSUME NEW w \in Workers, Spawn(w) \/ PublishId(w) PROVE SleepInv(r)'
    <2>1. w = r
      BY DEF Runners
    <2>2. CASE Spawn(w)
      BY <1>0, <1>3, <2>1, <2>2 DEF Spawn, OffInv
    <2>3. CASE PublishId(w)
      BY <1>2, <2>3 DEF PublishId
    <2> QED
      BY <1>6, <2>2, <2>3
  <1>7. CASE Stop
    <2>1. CASE CallerJoin
      <3>1. Root = r
        BY <2>1 DEF Runners
      <3> QED
        BY <1>0, <1>3, <1>7, <2>1, <3>1 DEF Stop, OffInv
    <2>2. CASE ~CallerJoin
      BY <1>2, <1>7, <2>2 DEF Stop
    <2> QED
      BY <2>1, <2>2
  <1> QED
    BY <1>4, <1>5, <1>6, <1>7 DEF IoMain

\* run(), around the jobs: a callback moves from the queue into the job that
\* runs it, and no fiber that it handles is one that a sleeper waits in.
LEMMA LoopKeepsSleepers ==
  ASSUME NEW r \in Threads, Runners = {r}, PoolOfOneInv(r), IoLoop(r)
  PROVE  SleepInv(r)'
  <1> USE RunnersAreThreads, NoneIsNothing, SleepersAreJobs
  <1> USE DEF mainVars, queueVars, loopVars, fiberVars
  <1>0. /\ TypeOK /\ StateOf(r) /\ SleepInv(r) /\ ExclusiveInv
        /\ (pc[r] \in Working => cbFiber[r] \in Fibers)
        /\ target \in [Sleepers -> Fibers \cup {None}]
        /\ \A s \in Sleepers : sleep[s] # "no" => target[s] \in Fibers
    BY DEF PoolOfOneInv, ExclusiveInv, FiberInv, IoTypeInv, IoTypeOK, TargetInv, HandInv, TypeOK
  <1>1. UNCHANGED <<sleep, target, woken, armed, idlePc, batch>>
    BY DEF IoLoop, IoUnchanged, sleepVars, idleVars
  <1>2. pc[r] # "run" /\ pc[r] # "idle" /\ pc[r] # "done" /\ pc[r] # "off"
    BY DEF IoLoop, TakeJob, CountUp, FindNothing, ResumeFiber, ResetAndResume, NewAndResume,
       Resume, SwitchBack, CountDownLoad, CountDownStore, DispatchReady, Readd, DispatchEnded,
       DispatchSuspended
  <1>3. /\ \A s \in Sleepers : sleep[s] # "armed"
        /\ Executing(r) = None
        /\ idlePc[r] = "check" /\ batch[r] = {}
        /\ pc[r] # "fetch" => idleFiber[r] # "TERM"
    BY <1>0, <1>2 DEF SleepInv, ArmedInv, IdleInv, Executing
  \* Positions, fibers and the queue are all that changes.
  <1>4. ASSUME /\ \A s \in Sleepers : sleep[s] = "asleep" /\ s \notin woken =>
                    /\ fcb'[target[s]] = fcb[target[s]] /\ fstate'[target[s]] = fstate[target[s]]
                    /\ target[s] \notin Range(tasks') /\ job'[r] # target[s]
                    /\ cbFiber'[r] = target[s] => pc'[r] \in {"switch", "load", "store", "dispatch"}
                    /\ WakerComing(r, s)'
               /\ \A f \in Fibers : fstate'[f] = "SUSPENDED" /\ fcb'[f] # None =>
                    /\ fstate[f] = "SUSPENDED" /\ fcb[f] = fcb'[f]
                    /\ f \in Range(tasks) \/ job[r] = f => f \in Range(tasks') \/ job'[r] = f
               /\ IdleInv(r)'
        PROVE  SleepInv(r)'
    <2>1. ArmedInv(r)'
      BY <1>1, <1>3 DEF ArmedInv
    <2>2. AsleepInv(r)'
      BY <1>0, <1>1, <1>4 DEF SleepInv, AsleepInv
    <2>3. ParkedInv(r)'
      BY <1>0, <1>1, <1>4 DEF SleepInv, ParkedInv
    <2> QED
      BY <1>0, <1>1, <1>4, <2>1, <2>2, <2>3 DEF SleepInv
  <1>5. ASSUME NEW s \in Sleepers, sleep[s] = "asleep", s \notin woken
        PROVE  /\ target[s] \in Fibers
               /\ fcb[target[s]] = s /\ fstate[target[s]] = "SUSPENDED"
               /\ target[s] \notin Range(tasks) /\ job[r] # target[s]
               /\ cbFiber[r] = target[s] => pc[r] \in {"switch", "load", "store", "dispatch"}
               /\ s \in armed \/ WakerOf[s] \in Range(tasks) \/ job[r] = WakerOf[s]
    BY <1>0, <1>3, <1>5 DEF SleepInv, AsleepInv, WakerComing
  <1>6. ASSUME NEW p \in RunPcs \ {"idle", "done"}, pc' = [pc EXCEPT ![r] = p],
               pc[r] # "fetch", idleFiber' = idleFiber
        PROVE  IdleInv(r)'
    BY <1>0, <1>1, <1>3, <1>6 DEF IdleInv, TypeOK
  <1>7. CASE TakeJob(r)
    <2>1. PICK i \in DOMAIN tasks :
            /\ job' = [job EXCEPT ![r] = tasks[i]]
            /\ \A k \in DOMAIN tasks' : \E m \in DOMAIN tasks \ {i} : tasks'[k] = tasks[m]
            /\ \A k \in DOMAIN tasks : k # i => tasks[k] \in Range(tasks')
      BY <1>0, <1>7, TakeJobProps
    <2>2. /\ pc[r] = "fetch" /\ pc' = [pc EXCEPT ![r] = "count"]
          /\ UNCHANGED <<cbFiber, idleFiber, fstate, fcb>>
      BY <1>7 DEF TakeJob
    <2>3. /\ Range(tasks') \subseteq Range(tasks)
          /\ \A e \in Range(tasks) : e \in Range(tasks') \/ e = job'[r]
          /\ job'[r] \in Range(tasks)
          /\ job[r] = None
      <3>1. job'[r] = tasks[i]
        BY <1>0, <2>1 DEF TypeOK
      <3>2. \A e \in Range(tasks) : e \in Range(tasks') \/ e = job'[r]
        BY <2>1, <3>1 DEF Range
      <3>3. Range(tasks') \subseteq Range(tasks) /\ job'[r] \in Range(tasks)
        BY <2>1, <3>1 DEF Range
      <3>4. job[r] = None
        BY <1>0, <2>2 DEF StateOf
      <3> QED
        BY <3>2, <3>3, <3>4
    <2>4. tasks # <<>>
      BY <2>1
    <2>5. IdleInv(r)'
      BY <1>0, <1>1, <1>3, <2>2, <2>4 DEF SleepInv, IdleInv, TypeOK
    <2>6. \A s \in Sleepers : sleep[s] = "asleep" /\ s \notin woken => WakerComing(r, s)'
      BY <1>1, <1>5, <2>3 DEF WakerComing
    <2> QED
      BY <1>0, <1>4, <1>5, <2>2, <2>3, <2>5, <2>6
  <1>8. CASE CountUp(r) \/ SwitchBack(r) \/ CountDownLoad(r) \/ CountDownStore(r)
    <2>1. \E p \in {"resume", "load", "store", "dispatch"} :
            /\ pc' = [pc EXCEPT ![r] = p]
            /\ pc[r] # "count" => p # "resume"
            /\ pc[r] \in {"count", "switch", "load", "store"}
            /\ UNCHANGED <<tasks, job, cbFiber, idleFiber, fstate, fcb>>
      <3>1. CASE CountUp(r)
        BY <3>1 DEF CountUp
      <3>2. CASE SwitchBack(r)
        BY <3>2 DEF SwitchBack
      <3>3. CASE CountDownLoad(r)
        BY <3>3 DEF CountDownLoad
      <3>4. CASE CountDownStore(r)
        BY <3>4 DEF CountDownStore
      <3> QED
        BY <1>8, <3>1, <3>2, <3>3, <3>4
    <2>2. IdleInv(r)'
      BY <1>6, <2>1 DEF RunPcs
    <2>3. pc'[r] \in {"switch", "load", "store", "dispatch"} \/ pc[r] = "count"
      BY <1>0, <2>1 DEF TypeOK
    <2>4. \A s \in Sleepers : sleep[s] = "asleep" /\ s \notin woken => WakerComing(r, s)'
      BY <1>1, <1>5, <2>1 DEF WakerComing
    <2> QED
      BY <1>4, <1>5, <2>1, <2>2, <2>3, <2>4
  <1>9. CASE FindNothing(r)
    <2>1. pc[r] = "fetch" /\ UNCHANGED <<tasks, job, fcb>>
      BY <1>9 DEF FindNothing
    <2>2. \A s \in Sleepers : sleep[s] = "asleep" /\ s \notin woken => WakerComing(r, s)'
      BY <1>1, <1>5, <2>1 DEF WakerComing
    <2>3. CASE idleFiber[r] = "TERM"
      <3>1. /\ pc' = [pc EXCEPT ![r] = "done"]
            /\ cbFiber' = [cbFiber EXCEPT ![r] = None]
            /\ fstate' = [f \in Fibers |-> IF f = cbFiber[r] THEN "FREE" ELSE fstate[f]]
            /\ idleFiber' = idleFiber
        BY <1>9, <2>3 DEF FindNothing
      <3>2. cbFiber[r] # None => fstate[cbFiber[r]] = "INIT"
        BY <1>0, <2>1 DEF StateOf, Working
      <3>3. IdleInv(r)'
        BY <1>0, <1>1, <1>3, <2>1, <2>3, <3>1 DEF SleepInv, IdleInv, TypeOK
      <3>4. cbFiber'[r] = None
        BY <1>0, <3>1 DEF TypeOK
      <3> QED
        BY <1>4, <1>5, <2>1, <2>2, <3>1, <3>2, <3>3, <3>4
    <2>4. CASE idleFiber[r] # "TERM"
      <3>1. /\ pc' = [pc EXCEPT ![r] = "idle"]
            /\ idleFiber' = [idleFiber EXCEPT ![r] = "RUNNING"]
            /\ UNCHANGED <<cbFiber, fstate>>
        BY <1>9, <2>4 DEF FindNothing
      <3>2. IdleInv(r)'
        BY <1>0, <1>1, <1>3, <2>1, <3>1 DEF IdleInv, TypeOK
      <3> QED
        BY <1>4, <1>5, <2>1, <2>2, <3>1, <3>2
    <2> QED
      BY <2>3, <2>4
  <1>10. CASE ResumeFiber(r)
    <2>1. /\ pc[r] = "resume"
          /\ job[r] \in Fibers
          /\ cbFiber' = [cbFiber EXCEPT ![r] = job[r]]
          /\ fstate' = [g \in Fibers |-> IF g = job[r] THEN "RUNNING"
                                         ELSE IF g = cbFiber[r] THEN "FREE"
                                         ELSE fstate[g]]
          /\ job' = [job EXCEPT ![r] = None]
          /\ pc' = [pc EXCEPT ![r] = "run"]
          /\ UNCHANGED <<tasks, fcb, idleFiber>>
      BY <1>0, <1>10, ResumeFiberProps
    <2>2. cbFiber'[r] = job[r] /\ job'[r] = None /\ job[r] \notin Jobs
      BY <1>0, <2>1, SchedulerAssumption DEF TypeOK
    <2>3. IdleInv(r)'
      BY <1>6, <2>1 DEF RunPcs
    <2>4. \A s \in Sleepers : sleep[s] = "asleep" /\ s \notin woken => WakerComing(r, s)'
      BY <1>1, <1>5, <2>1, <2>2 DEF WakerComing
    <2>5. \A s \in Sleepers : sleep[s] = "asleep" /\ s \notin woken =>
            target[s] # job[r] /\ target[s] # cbFiber[r] /\ fstate'[target[s]] = fstate[target[s]]
      BY <1>5, <2>1
    <2>6. \A f \in Fibers : fstate'[f] = "SUSPENDED" => f # job[r] /\ fstate[f] = "SUSPENDED"
      BY <2>1
    <2> QED
      BY <1>4, <1>5, <2>1, <2>2, <2>3, <2>4, <2>5, <2>6
  <1>11. ASSUME NEW f \in Fibers, fstate[f] # "SUSPENDED", job[r] \in Jobs, pc[r] = "resume",
                cbFiber' = [cbFiber EXCEPT ![r] = f],
                fstate' = [fstate EXCEPT ![f] = "RUNNING"],
                fcb' = [fcb EXCEPT ![f] = job[r]],
                job' = [job EXCEPT ![r] = None],
                pc' = [pc EXCEPT ![r] = "run"],
                UNCHANGED <<tasks, idleFiber>>
         PROVE  SleepInv(r)'
    <2>1. /\ cbFiber'[r] = f /\ job'[r] = None /\ job[r] \notin Fibers
          /\ fcb'[f] = job[r] /\ Executing(r)' = job[r]
      BY <1>0, <1>11, SchedulerAssumption DEF TypeOK, Executing
    <2>2. IdleInv(r)'
      BY <1>6, <1>11 DEF RunPcs
    <2>3. \A s \in Sleepers : sleep[s] = "asleep" /\ s \notin woken => WakerComing(r, s)'
      BY <1>1, <1>5, <1>11, <2>1 DEF WakerComing
    <2>4. /\ \A g \in Fibers : g # f => fstate'[g] = fstate[g] /\ fcb'[g] = fcb[g]
          /\ fstate'[f] = "RUNNING"
      BY <1>0, <1>11 DEF TypeOK
    <2>5. \A s \in Sleepers : sleep[s] = "asleep" /\ s \notin woken => target[s] # f
      BY <1>5, <1>11
    <2>6. ASSUME NEW s \in Sleepers, sleep[s] = "asleep", s \notin woken
          PROVE  /\ fcb'[target[s]] = fcb[target[s]] /\ fstate'[target[s]] = fstate[target[s]]
                 /\ target[s] \notin Range(tasks') /\ job'[r] # target[s]
                 /\ cbFiber'[r] # target[s]
                 /\ WakerComing(r, s)'
      BY <2>3, <1>5, <1>11, <2>1, <2>4, <2>5, <2>6
    <2>7. ASSUME NEW g \in Fibers, fstate'[g] = "SUSPENDED"
          PROVE  /\ fstate[g] = "SUSPENDED" /\ fcb[g] = fcb'[g]
                 /\ g \in Range(tasks) \/ job[r] = g => g \in Range(tasks') \/ job'[r] = g
      BY <1>11, <2>1, <2>4, <2>7
    <2> QED
      BY <1>4, <2>2, <2>6, <2>7
  <1>12. CASE ResetAndResume(r)
    <2>1. cbFiber' = [cbFiber EXCEPT ![r] = cbFiber[r]]
      <3>1. cbFiber' = cbFiber
        BY <1>0, <1>12, ResetAndResumeProps
      <3>2. cbFiber = [t \in Threads |-> cbFiber[t]]
        BY <1>0 DEF TypeOK
      <3> QED
        BY <3>1, <3>2
    <2> QED
      BY <1>0, <1>11, <1>12, <2>1, ResetAndResumeProps
  <1>13. CASE NewAndResume(r)
    BY <1>0, <1>11, <1>13, NewAndResumeProps
  <1>14. CASE DispatchReady(r)
    <2>1. /\ pc[r] = "dispatch" /\ fstate[cbFiber[r]] = "READY" /\ cbFiber[r] \in Fibers
          /\ tasks' = Append(tasks, cbFiber[r])
          /\ cbFiber' = [cbFiber EXCEPT ![r] = None]
          /\ pc' = [pc EXCEPT ![r] = "fetch"]
          /\ UNCHANGED <<job, idleFiber, fstate, fcb>>
      BY <1>0, <1>14 DEF DispatchReady, Readd, Working
    <2>2. cbFiber'[r] = None
      BY <1>0, <2>1 DEF TypeOK
    <2>3. Range(tasks') = Range(tasks) \cup {cbFiber[r]}
      BY <1>0, <2>1, AppendAdds
    <2>4. IdleInv(r)'
      BY <1>6, <2>1 DEF RunPcs
    <2>5. \A s \in Sleepers : sleep[s] = "asleep" /\ s \notin woken => WakerComing(r, s)'
      BY <1>1, <1>5, <2>1, <2>3 DEF WakerComing
    <2> QED
      BY <1>4, <1>5, <2>1, <2>2, <2>3, <2>4, <2>5
  <1>15. CASE DispatchEnded(r)
    <2>1. /\ pc[r] = "dispatch" /\ fstate[cbFiber[r]] \in {"TERM", "ERROR"} /\ cbFiber[r] \in Fibers
          /\ fstate' = [fstate EXCEPT ![cbFiber[r]] = "INIT"]
          /\ fcb' = [fcb EXCEPT ![cbFiber[r]] = None]
          /\ pc' = [pc EXCEPT ![r] = "fetch"]
          /\ UNCHANGED <<tasks, job, cbFiber, idleFiber>>
      BY <1>0, <1>15 DEF DispatchEnded, Working
    <2>2. IdleInv(r)'
      BY <1>6, <2>1 DEF RunPcs
    <2>3. \A s \in Sleepers : sleep[s] = "asleep" /\ s \notin woken => WakerComing(r, s)'
      BY <1>1, <1>5, <2>1 DEF WakerComing
    <2>4. /\ \A g \in Fibers : g # cbFiber[r] => fstate'[g] = fstate[g] /\ fcb'[g] = fcb[g]
          /\ fstate'[cbFiber[r]] = "INIT"
      BY <1>0, <2>1 DEF TypeOK
    <2>5. \A s \in Sleepers : sleep[s] = "asleep" /\ s \notin woken => target[s] # cbFiber[r]
      BY <1>5, <2>1
    <2> QED
      BY <1>4, <1>5, <2>1, <2>2, <2>3, <2>4, <2>5
  <1>16. CASE DispatchSuspended(r)
    <2>1. /\ pc[r] = "dispatch" /\ fstate[cbFiber[r]] = "SUSPENDED" /\ cbFiber[r] \in Fibers
          /\ fstate' = [fstate EXCEPT ![cbFiber[r]] = "SUSPENDED"]
          /\ cbFiber' = [cbFiber EXCEPT ![r] = None]
          /\ pc' = [pc EXCEPT ![r] = "fetch"]
          /\ UNCHANGED <<tasks, job, idleFiber, fcb>>
      BY <1>0, <1>16 DEF DispatchSuspended, StateOf, Working
    <2>2. cbFiber'[r] = None /\ fstate' = fstate
      BY <1>0, <2>1 DEF TypeOK
    <2>3. IdleInv(r)'
      BY <1>6, <2>1 DEF RunPcs
    <2>4. \A s \in Sleepers : sleep[s] = "asleep" /\ s \notin woken => WakerComing(r, s)'
      BY <1>1, <1>5, <2>1 DEF WakerComing
    <2> QED
      BY <1>4, <1>5, <2>1, <2>2, <2>3, <2>4
  <1> QED
    BY <1>7, <1>8, <1>9, <1>10, <1>12, <1>13, <1>14, <1>15, <1>16 DEF IoLoop

\* The jobs: one that sleeps leaves its timer behind, and one that wakes a
\* sleeper puts its fiber into the queue.
LEMMA JobKeepsSleepers ==
  ASSUME NEW r \in Threads, Runners = {r}, PoolOfOneInv(r),
         \/ ArmTimer(r) \/ FallAsleep(r) \/ WakerAdds(r)
         \/ OldJobStep(r) /\ IoUnchanged
  PROVE  SleepInv(r)'
  <1> DEFINE me == cbFiber[r]
             Unwoken(s) == sleep[s] = "asleep" /\ s \notin woken
  <1> USE RunnersAreThreads, NoneIsNothing, SleepersAreJobs
  <1> USE DEF mainVars, queueVars, loopVars, fiberVars, sleepVars, idleVars
  <1>0. /\ TypeOK /\ StateOf(r) /\ SleepInv(r) /\ HandInv /\ Exclusive
        /\ sleep \in [Sleepers -> {"no", "armed", "asleep"}]
        /\ target \in [Sleepers -> Fibers \cup {None}]
        /\ \A s \in Sleepers : sleep[s] # "no" => target[s] \in Fibers
    BY DEF PoolOfOneInv, ExclusiveInv, FiberInv, IoTypeInv, IoTypeOK, TargetInv
  <1>1. pc[r] = "run" /\ Executing(r) = fcb[me]
    BY DEF ArmTimer, FallAsleep, Arming, WakerAdds, OldJobStep, JobEnds, YieldToReady, Yield,
       JobAdds, Executing
  <1>2. me \in Fibers /\ fstate[me] = "RUNNING"
    BY <1>0, <1>1 DEF HandInv, Working, StateOf, TypeOK
  <1>3. idlePc[r] = "check" /\ batch[r] = {} /\ idleFiber[r] # "TERM"
    BY <1>0, <1>1 DEF SleepInv, IdleInv
  <1>4. ASSUME NEW s \in Sleepers, Unwoken(s)
        PROVE  /\ target[s] \in Fibers /\ target[s] # me
               /\ fcb[target[s]] = s /\ fstate[target[s]] = "SUSPENDED"
               /\ target[s] \notin Range(tasks) /\ job[r] # target[s]
               /\ \/ s \in armed \/ WakerOf[s] \in Range(tasks) \/ job[r] = WakerOf[s]
                  \/ fcb[me] = WakerOf[s]
    BY <1>0, <1>1, <1>2, <1>3, <1>4 DEF SleepInv, AsleepInv, WakerComing
  <1>5. ASSUME NEW s \in Sleepers, sleep[s] = "armed"
        PROVE  me = target[s] /\ fcb[me] = s /\ s \in armed /\ s \notin woken
    BY <1>0, <1>5 DEF SleepInv, ArmedInv
  <1>6. ASSUME NEW f \in Fibers, fstate[f] = "SUSPENDED", fcb[f] # None
        PROVE  /\ f # me /\ fcb[f] \in Sleepers /\ sleep[fcb[f]] = "asleep" /\ target[fcb[f]] = f
               /\ fcb[f] \notin woken \/ f \in Range(tasks) \/ job[r] = f
    BY <1>0, <1>2, <1>6 DEF SleepInv, ParkedInv
  <1>7. \A s \in woken : sleep[s] = "asleep"
    BY <1>0 DEF SleepInv
  <1> HIDE DEF me
  <1>8. ASSUME pc'[r] \in {"run", "switch"}, UNCHANGED <<idlePc, batch, idleFiber>>
        PROVE  IdleInv(r)'
    BY <1>3, <1>8 DEF IdleInv
  <1>9. CASE ArmTimer(r)
    <2>1. PICK s \in Sleepers :
            /\ s = fcb[me] /\ sleep[s] = "no"
            /\ sleep' = [sleep EXCEPT ![s] = "armed"]
            /\ armed' = armed \cup {s}
            /\ target' = [target EXCEPT ![s] = me]
            /\ UNCHANGED <<pc, tasks, job, cbFiber, idleFiber, fstate, fcb, woken, idlePc, batch>>
      BY <1>1, <1>9 DEF ArmTimer, vars, me
    <2>2. \A u \in Sleepers : u # s => sleep'[u] = sleep[u] /\ target'[u] = target[u]
      BY <2>1
    <2>3. sleep'[s] = "armed" /\ target'[s] = me
      BY <1>0, <2>1
    <2>4. ArmedInv(r)'
      <3>1. \A u \in Sleepers : u # s => sleep'[u] # "armed"
        BY <1>5, <2>1, <2>2
      <3>2. s \notin woken
        BY <1>7, <2>1
      <3> QED
        BY <1>1, <2>1, <2>3, <3>1, <3>2 DEF ArmedInv, me
    <2>5. AsleepInv(r)'
      <3>1. ASSUME NEW u \in Sleepers, sleep'[u] = "asleep", u \notin woken
            PROVE  u # s /\ Unwoken(u) /\ target'[u] = target[u] /\ WakerComing(r, u)'
        <4>1. u # s /\ Unwoken(u) /\ target'[u] = target[u]
          BY <2>2, <2>3, <3>1
        <4>2. Executing(r)' = fcb[me]
          BY <1>1, <2>1 DEF Executing, me
        <4> QED
          BY <1>4, <2>1, <4>1, <4>2 DEF WakerComing
      <3> QED
        BY <1>4, <2>1, <3>1 DEF AsleepInv, me
    <2>6. ParkedInv(r)'
      BY <1>6, <2>1, <2>2 DEF ParkedInv
    <2>7. IdleInv(r)'
      BY <1>1, <1>8, <2>1
    <2>8. \A u \in woken' : sleep'[u] = "asleep"
      BY <1>7, <2>1, <2>2
    <2> QED
      BY <2>4, <2>5, <2>6, <2>7, <2>8 DEF SleepInv
  <1>10. CASE FallAsleep(r)
    <2>1. PICK s \in Sleepers :
            /\ s = fcb[me] /\ sleep[s] = "armed"
            /\ sleep' = [sleep EXCEPT ![s] = "asleep"]
            /\ fstate' = [fstate EXCEPT ![me] = "SUSPENDED"]
            /\ pc' = [pc EXCEPT ![r] = "switch"]
            /\ UNCHANGED <<tasks, job, cbFiber, idleFiber, fcb, armed, target, woken, idlePc, batch>>
      BY <1>1, <1>10 DEF FallAsleep, Arming, YieldToSuspended, Yield, me
    <2>2. /\ me = target[s] /\ s \in armed /\ s \notin woken
      BY <1>5, <2>1
    <2>3. /\ \A u \in Sleepers : sleep'[u] = IF u = s THEN "asleep" ELSE sleep[u]
          /\ \A f \in Fibers : fstate'[f] = IF f = me THEN "SUSPENDED" ELSE fstate[f]
          /\ pc'[r] = "switch"
      BY <1>0, <2>1 DEF TypeOK
    <2>4. ArmedInv(r)'
      BY <1>5, <2>1, <2>3 DEF ArmedInv
    <2>5. AsleepInv(r)'
      <3>1. me \notin Range(tasks) /\ job[r] # me
        BY <1>0, <1>2 DEF Exclusive, Holds, me
      <3>2. ASSUME NEW u \in Sleepers, u # s, Unwoken(u) PROVE WakerComing(r, u)'
        <4>1. fcb[me] # WakerOf[u]
          BY <2>1
        <4> QED
          BY <1>4, <2>1, <3>2, <4>1 DEF WakerComing
      <3>3. WakerComing(r, s)'
        BY <2>1, <2>2 DEF WakerComing
      <3> QED
        BY <1>2, <1>4, <2>1, <2>2, <2>3, <3>1, <3>2, <3>3 DEF AsleepInv
    <2>6. ParkedInv(r)'
      <3>1. ASSUME NEW f \in Fibers, f # me, fstate'[f] = "SUSPENDED", fcb[f] # None
            PROVE  /\ fcb[f] \in Sleepers /\ sleep'[fcb[f]] = "asleep" /\ target[fcb[f]] = f
                   /\ fcb[f] \notin woken \/ f \in Range(tasks) \/ job[r] = f
        BY <1>6, <2>3, <3>1
      <3> QED
        BY <2>1, <2>2, <2>3, <3>1 DEF ParkedInv
    <2>7. IdleInv(r)'
      BY <1>8, <2>1, <2>3
    <2>8. \A u \in woken' : sleep'[u] = "asleep"
      BY <1>0, <1>7, <2>1, <2>3
    <2> QED
      BY <2>4, <2>5, <2>6, <2>7, <2>8 DEF SleepInv
  \* From here on the job that runs does not sleep.
  <1>11. ASSUME \A s \in Sleepers : sleep[s] # "armed",
                UNCHANGED <<sleep, armed, target, job, cbFiber, idleFiber, idlePc, batch>>,
                pc'[r] \in {"run", "switch"},
                woken \subseteq woken', \A s \in woken' : sleep[s] = "asleep",
                Range(tasks) \subseteq Range(tasks'),
                \A f \in Fibers : f # me => fcb'[f] = fcb[f] /\ fstate'[f] = fstate[f],
                fstate'[me] # "SUSPENDED",
                \A s \in Sleepers : Unwoken(s) /\ s \notin woken' =>
                  /\ target[s] \notin Range(tasks')
                  /\ fcb[me] = WakerOf[s] => Executing(r)' = WakerOf[s],
                \A s \in woken' \ woken : target[s] \in Range(tasks')
         PROVE  SleepInv(r)'
    <2>1. ArmedInv(r)'
      BY <1>11 DEF ArmedInv
    <2>2. AsleepInv(r)'
      <3>1. ASSUME NEW s \in Sleepers, sleep[s] = "asleep", s \notin woken'
            PROVE  /\ fcb'[target[s]] = s /\ fstate'[target[s]] = "SUSPENDED"
                   /\ target[s] \notin Range(tasks') /\ job[r] # target[s] /\ cbFiber[r] # target[s]
                   /\ WakerComing(r, s)'
        <4>1. Unwoken(s)
          BY <1>11, <3>1
        <4> QED
          BY <1>4, <1>11, <3>1, <4>1 DEF WakerComing, me
      <3> QED
        BY <1>11, <3>1 DEF AsleepInv
    <2>3. ParkedInv(r)'
      <3>1. ASSUME NEW f \in Fibers, fstate'[f] = "SUSPENDED", fcb'[f] # None
            PROVE  /\ fcb'[f] \in Sleepers /\ sleep[fcb'[f]] = "asleep" /\ target[fcb'[f]] = f
                   /\ fcb'[f] \notin woken' \/ f \in Range(tasks') \/ job[r] = f
        <4>1. fstate[f] = "SUSPENDED" /\ fcb[f] = fcb'[f]
          BY <1>11, <3>1
        <4> QED
          BY <1>6, <1>11, <3>1, <4>1
      <3> QED
        BY <1>11, <3>1 DEF ParkedInv
    <2> QED
      BY <1>8, <1>11, <2>1, <2>2, <2>3 DEF SleepInv
  <1>12. CASE WakerAdds(r)
    <2>1. PICK s \in Sleepers \ woken :
            /\ fcb[me] = WakerOf[s]
            /\ sleep[s] = "asleep"
            /\ target[s] \in Fibers /\ fcb[target[s]] = s
            /\ tasks' = Append(tasks, target[s])
            /\ woken' = woken \cup {s}
            /\ UNCHANGED <<pc, job, cbFiber, idleFiber, fstate, fcb, sleep, armed, target,
                           idlePc, batch>>
      BY <1>12, WakerAddsSleeper DEF me
    <2>2. Range(tasks') = Range(tasks) \cup {target[s]}
      BY <1>0, <2>1, AppendAdds
    <2>3. \A u \in Sleepers : sleep[u] # "armed"
      BY <1>5, <2>1
    <2>4. \A u \in Sleepers : Unwoken(u) /\ u # s => target[u] \notin Range(tasks')
      BY <1>4, <2>1, <2>2
    <2>5. Executing(r)' = fcb[me]
      BY <1>1, <2>1 DEF Executing, me
    <2> QED
      BY <1>1, <1>2, <1>7, <1>11, <2>1, <2>2, <2>3, <2>4, <2>5
  <1>13. ASSUME OldJobStep(r), IoUnchanged PROVE SleepInv(r)'
    <2>0. UNCHANGED <<sleep, armed, target, woken, idlePc, batch>>
      BY <1>13 DEF IoUnchanged
    <2>1. CASE MayEnd(r) /\ JobEnds(r)
      <3>1. /\ \E state \in {"TERM", "ERROR"} : fstate' = [fstate EXCEPT ![me] = state]
            /\ fcb' = [fcb EXCEPT ![me] = None]
            /\ pc' = [pc EXCEPT ![r] = "switch"]
            /\ UNCHANGED <<tasks, job, cbFiber, idleFiber>>
        BY <2>1 DEF JobEnds, me
      <3>2. /\ \A f \in Fibers : f # me => fcb'[f] = fcb[f] /\ fstate'[f] = fstate[f]
            /\ fstate'[me] # "SUSPENDED" /\ pc'[r] = "switch"
        BY <1>0, <1>2, <3>1 DEF TypeOK
      <3>3. /\ \A s \in Sleepers : sleep[s] # "armed"
            /\ \A s \in Sleepers \ woken : fcb[me] # WakerOf[s]
        BY <1>1, <1>5, <2>1 DEF MayEnd
      <3> QED
        BY <1>4, <1>7, <1>11, <2>0, <3>1, <3>2, <3>3
    <2>2. CASE Executing(r) \notin Sleepers \cup Wakers /\ YieldToReady(r)
      <3>1. /\ fstate' = [fstate EXCEPT ![me] = "READY"]
            /\ pc' = [pc EXCEPT ![r] = "switch"]
            /\ UNCHANGED <<tasks, job, cbFiber, idleFiber, fcb>>
        BY <2>2 DEF YieldToReady, Yield, me
      <3>2. /\ \A f \in Fibers : f # me => fstate'[f] = fstate[f]
            /\ fstate'[me] # "SUSPENDED" /\ pc'[r] = "switch"
        BY <1>0, <1>2, <3>1 DEF TypeOK
      <3>3. /\ \A s \in Sleepers : sleep[s] # "armed"
            /\ \A s \in Sleepers : fcb[me] # WakerOf[s]
        BY <1>1, <1>5, <2>2
      <3> QED
        BY <1>4, <1>7, <1>11, <2>0, <3>1, <3>2, <3>3
    <2>3. ASSUME NEW j \in Jobs, JobAdds(r, j) PROVE SleepInv(r)'
      <3>1. /\ tasks' = Append(tasks, j)
            /\ UNCHANGED <<pc, job, cbFiber, idleFiber, fstate, fcb>>
        BY <2>3 DEF JobAdds, AddJob
      <3>2. /\ Range(tasks) \subseteq Range(tasks')
            /\ \A f \in Fibers : f \in Range(tasks') => f \in Range(tasks)
        BY <1>0, <3>1, AppendAdds, SchedulerAssumption
      <3>3. Executing(r)' = fcb[me]
        BY <1>1, <3>1 DEF Executing, me
      <3>4. ArmedInv(r)'
        BY <1>0, <2>0, <3>1 DEF SleepInv, ArmedInv
      <3>5. AsleepInv(r)'
        <4>1. ASSUME NEW s \in Sleepers, Unwoken(s) PROVE WakerComing(r, s)'
          BY <1>4, <2>0, <3>1, <3>2, <3>3, <4>1 DEF WakerComing
        <4> QED
          BY <1>4, <2>0, <3>1, <3>2, <4>1 DEF AsleepInv, me
      <3>6. ParkedInv(r)'
        BY <1>6, <2>0, <3>1, <3>2 DEF ParkedInv
      <3>7. IdleInv(r)'
        BY <1>1, <1>8, <2>0, <3>1
      <3> QED
        BY <1>7, <2>0, <3>4, <3>5, <3>6, <3>7 DEF SleepInv
    <2> QED
      BY <1>13, <2>1, <2>2, <2>3 DEF OldJobStep
  <1> QED
    BY <1>9, <1>10, <1>12, <1>13

\* The idle loop: a callback goes from the timers into the vector and from there
\* into the queue, and the loop ends only when there is none in any place.
LEMMA IdleKeepsSleepers ==
  ASSUME NEW r \in Threads, Runners = {r}, PoolOfOneInv(r),
         SeeTimers(r) \/ SeeScheduler(r) \/ Collect(r) \/ QueueBatch(r)
  PROVE  SleepInv(r)'
  <1> USE RunnersAreThreads, NoneIsNothing, SleepersAreJobs
  <1> USE DEF mainVars, queueVars, loopVars, fiberVars, sleepVars
  <1>0. /\ TypeOK /\ SleepInv(r) /\ IoTypeInv /\ IdleInv(r)
        /\ idlePc \in [Threads -> {"check", "stop", "wait", "queue"}]
        /\ batch \in [Threads -> SUBSET Sleepers]
        /\ \A s \in Sleepers : sleep[s] # "no" => target[s] \in Fibers
    BY DEF PoolOfOneInv, ExclusiveInv, IoTypeInv, IoTypeOK, TargetInv, SleepInv
  <1>1. pc[r] = "idle" /\ idleFiber[r] # "TERM"
    BY <1>0 DEF SeeTimers, SeeScheduler, Collect, QueueBatch, AtIdle, IdleInv
  <1>2. UNCHANGED <<job, cbFiber, fstate, fcb, sleep, target, woken>>
    BY DEF SeeTimers, SeeScheduler, Collect, QueueBatch, vars
  <1>3. ASSUME pc'[r] \in {"idle", "fetch"}, IdleInv(r)',
               Range(tasks) \subseteq Range(tasks'),
               \A f \in Fibers : f \in Range(tasks') => f \in Range(tasks),
               \A s \in Sleepers :
                 s \in armed \/ s \in batch[r]
                   => s \in armed' \/ s \in batch'[r] \/ WakerOf[s] \in Range(tasks')
        PROVE  SleepInv(r)'
    <2>1. ArmedInv(r)'
      BY <1>0, <1>1, <1>2 DEF SleepInv, ArmedInv
    <2>2. ASSUME NEW s \in Sleepers, WakerComing(r, s) PROVE WakerComing(r, s)'
      BY <1>1, <1>2, <1>3, <2>2 DEF WakerComing, Executing
    <2>3. AsleepInv(r)'
      BY <1>0, <1>1, <1>2, <1>3, <2>2 DEF SleepInv, AsleepInv
    <2>4. ParkedInv(r)'
      BY <1>0, <1>2, <1>3 DEF SleepInv, ParkedInv
    <2> QED
      BY <1>0, <1>2, <1>3, <2>1, <2>3, <2>4 DEF SleepInv
  <1>4. CASE SeeTimers(r)
    <2>1. /\ idlePc[r] = "check"
          /\ idlePc' = [idlePc EXCEPT ![r] = IF armed = {} THEN "stop" ELSE "wait"]
          /\ UNCHANGED <<pc, tasks, idleFiber, armed, batch>>
      BY <1>4 DEF SeeTimers, AtIdle, GoIdle, vars
    <2>2. IdleInv(r)'
      BY <1>0, <1>1, <2>1 DEF IdleInv
    <2> QED
      BY <1>1, <1>3, <2>1, <2>2
  <1>5. CASE SeeScheduler(r)
    <2>1. idlePc[r] = "stop" /\ armed = {} /\ batch[r] = {} /\ UNCHANGED <<tasks, armed, batch>>
      BY <1>0, <1>5 DEF SeeScheduler, AtIdle, IdleInv
    <2>2. CASE IsStop
      <3>1. /\ pc' = [pc EXCEPT ![r] = "fetch"]
            /\ idleFiber' = [idleFiber EXCEPT ![r] = "TERM"]
            /\ idlePc' = [idlePc EXCEPT ![r] = "check"]
            /\ tasks = <<>>
        BY <1>5, <2>2 DEF SeeScheduler, LeaveIdle, GoIdle, IsStop
      <3>2. pc'[r] = "fetch" /\ idlePc'[r] = "check"
        BY <1>0, <3>1 DEF TypeOK
      <3>3. IdleInv(r)'
        BY <2>1, <3>1, <3>2 DEF IdleInv
      <3> QED
        BY <1>3, <2>1, <3>2, <3>3
    <2>3. CASE ~IsStop
      <3>1. idlePc' = [idlePc EXCEPT ![r] = "wait"] /\ UNCHANGED <<pc, idleFiber>>
        BY <1>5, <2>3 DEF SeeScheduler, GoIdle
      <3>2. IdleInv(r)'
        BY <1>0, <1>1, <2>1, <3>1 DEF IdleInv
      <3> QED
        BY <1>1, <1>3, <2>1, <3>1, <3>2
    <2> QED
      BY <2>2, <2>3
  <1>6. CASE Collect(r)
    <2>1. PICK expired \in SUBSET armed :
            armed' = armed \ expired /\ batch' = [batch EXCEPT ![r] = expired]
      BY <1>6 DEF Collect
    <2>2. /\ idlePc[r] = "wait" /\ idlePc' = [idlePc EXCEPT ![r] = "queue"]
          /\ UNCHANGED <<pc, tasks, idleFiber>>
      BY <1>6 DEF Collect, AtIdle, GoIdle, vars
    <2>3. batch[r] = {} /\ batch'[r] = expired /\ idlePc'[r] = "queue"
      BY <1>0, <2>1, <2>2 DEF IdleInv
    <2>4. IdleInv(r)'
      BY <1>1, <2>2, <2>3 DEF IdleInv
    <2> QED
      BY <1>1, <1>3, <2>1, <2>2, <2>3, <2>4
  <1>7. CASE QueueBatch(r)
    <2>1. /\ pc' = [pc EXCEPT ![r] = "fetch"]
          /\ idleFiber' = [idleFiber EXCEPT ![r] = "SUSPENDED"]
          /\ idlePc' = [idlePc EXCEPT ![r] = "check"]
          /\ batch' = [batch EXCEPT ![r] = {}]
          /\ armed' = armed
          /\ \A s \in batch[r] : WakerOf[s] \in Range(tasks')
      BY <1>0, <1>7, QueueBatchProps
    <2>2. pc'[r] = "fetch" /\ idleFiber'[r] = "SUSPENDED" /\ idlePc'[r] = "check" /\ batch'[r] = {}
      BY <1>0, <2>1 DEF TypeOK
    <2>3. IdleInv(r)'
      BY <2>2 DEF IdleInv
    <2>4. /\ Range(tasks) \subseteq Range(tasks')
          /\ \A f \in Fibers : f \in Range(tasks') => f \in Range(tasks)
      BY <1>0, <1>7, QueueBatchRange
    <2> QED
      BY <1>3, <2>1, <2>2, <2>3, <2>4
  <1> QED
    BY <1>4, <1>5, <1>6, <1>7

\* Every step keeps the invariant of a scheduler with one runner.
LEMMA PoolOfOneStep ==
  ASSUME NEW r \in Threads, Runners = {r}, PoolOfOneInv(r), [IoNext]_ioVars
  PROVE  PoolOfOneInv(r)'
  <1>1. IoTypeInv' /\ ExclusiveInv' /\ JobInv' /\ CountInv'
    BY IoTypeStep, PoolStepOfOne DEF PoolOfOneInv
  <1>2. SleepInv(r)'
    <2>1. CASE OldStep
      <3>1. IoUnchanged
        BY <2>1 DEF OldStep
      <3> QED
        BY <2>1, <3>1, MainKeepsSleepers, LoopKeepsSleepers, JobKeepsSleepers DEF OldStep
    <2>2. CASE ResumeUnsaved(r) \/ UNCHANGED ioVars
      BY <2>2 DEF ResumeUnsaved, ioVars, vars, mainVars, queueVars, loopVars, fiberVars, sleepVars,
         idleVars, PoolOfOneInv, SleepInv, ArmedInv, AsleepInv, WakerComing, Executing, ParkedInv,
         IdleInv
    <2>3. ASSUME IoStep(r) PROVE SleepInv(r)'
      BY <2>2, <2>3, JobKeepsSleepers, IdleKeepsSleepers DEF IoStep
    <2> QED
      BY <2>1, <2>2, <2>3, IoNextCases
  <1> QED
    BY <1>1, <1>2 DEF PoolOfOneInv

\* Before start() nobody sleeps.
LEMMA InitPoolOfOne ==
  ASSUME NEW r \in Threads, IoInit
  PROVE  PoolOfOneInv(r)
  <1>1. IoTypeInv
    BY InitIoType
  <1>2. Init
    BY DEF IoInit
  <1>3. ExclusiveInv /\ JobInv /\ CountInv
    BY <1>2, InitTypeOK, InitExclusive, InitJob, InitCount DEF ExclusiveInv
  <1>4. /\ sleep = [s \in Sleepers |-> "no"] /\ armed = {} /\ woken = {}
        /\ idlePc[r] = "check" /\ batch[r] = {} /\ pc[r] = "off" /\ idleFiber[r] = "INIT"
        /\ \A f \in Fibers : fcb[f] = None
    BY DEF IoInit, Init
  <1>5. SleepInv(r)
    BY <1>4 DEF SleepInv, ArmedInv, AsleepInv, ParkedInv, IdleInv
  <1> QED
    BY <1>1, <1>3, <1>5 DEF PoolOfOneInv

LEMMA PoolOfOne ==
  ASSUME NEW r \in Threads, Runners = {r}
  PROVE  IoSpec => []PoolOfOneInv(r)
  <1>1. IoInit => PoolOfOneInv(r)
    BY InitPoolOfOne
  <1>2. PoolOfOneInv(r) /\ [IoNext]_ioVars => PoolOfOneInv(r)'
    BY PoolOfOneStep
  <1> QED
    BY <1>1, <1>2, PTL DEF IoSpec

\* A fiber that a timer adds again is at one place at a time too, no ZZG_ASSERT
\* of Fiber fails for it, and nobody resumes it before its context is saved: the
\* only thread that could is the one that saves it.
THEOREM IoFibersAreExclusive ==
  OneRunner => (IoSpec => [](Exclusive /\ AssertionsHold /\ ~corrupt))
  <1> SUFFICES ASSUME NEW r \in Threads, Runners = {r}
               PROVE  IoSpec => [](Exclusive /\ AssertionsHold /\ ~corrupt)
    BY DEF OneRunner
  <1>1. PoolOfOneInv(r) => Exclusive /\ AssertionsHold
    BY DEF PoolOfOneInv, ExclusiveInv
  <1>2. IoInit => ~corrupt
    BY DEF IoInit
  <1>3. ASSUME ~corrupt, [IoNext]_ioVars PROVE ~corrupt'
    <2>1. ~ResumeUnsaved(r)
      BY DEF ResumeUnsaved, Unsaved
    <2>2. ASSUME OldStep PROVE corrupt' = corrupt
      BY <2>2 DEF OldStep, IoUnchanged, sleepVars
    <2>3. ASSUME IoStep(r) PROVE corrupt' = corrupt
      BY <2>1, <2>3 DEF IoStep, ArmTimer, FallAsleep, WakerAdds, SeeTimers, SeeScheduler, Collect,
         QueueBatch, sleepVars
    <2>4. CASE UNCHANGED ioVars
      BY <1>3, <2>4 DEF ioVars, sleepVars
    <2> QED
      BY <1>3, <2>2, <2>3, <2>4, IoNextCases
  <1> QED
    BY <1>1, <1>2, <1>3, PoolOfOne, PTL DEF IoSpec

\* When stop() has returned there is no sleeper whom nobody will wake: the
\* callback of a sleeper is armed, in the hands of the idle loop, queued or
\* running, and with one runner the three parts of isStop() that find none of
\* these are as good as one.
THEOREM NobodyOversleeps == OneRunner => (IoSpec => []NoSleeperLost)
  <1> SUFFICES ASSUME NEW r \in Threads, Runners = {r}
               PROVE  IoSpec => []NoSleeperLost
    BY DEF OneRunner
  <1>1. ASSUME PoolOfOneInv(r) PROVE NoSleeperLost
    <2> SUFFICES ASSUME mainPc = "stopped", NEW j \in added, ThreadIdOf[j] = -1
                 PROVE  Status(j) = "ended"
      BY DEF NoSleeperLost
    <2>0. /\ ExclusiveInv /\ JobInv /\ LiveInv /\ SleepInv(r) /\ StateOf(r) /\ TypeOK
          /\ j \in Unpinned
      BY <1>1 DEF PoolOfOneInv, ExclusiveInv, FiberInv, JobInv, Unpinned, TypeOK
    <2>1. /\ \A t \in Runners : pc[t] = "done"
          /\ pc[r] = "done" /\ job[r] = None
      BY <2>0 DEF LiveInv, StateOf
    <2>2. Status(j) \in {"parked", "ended"}
      BY <2>0, <2>1, NothingLeft
    <2>3. \A e \in Range(tasks) : ThreadId(e) # -1
      BY <2>0, <2>1 DEF LiveInv, Live, Range
    <2>4. armed = {} /\ batch[r] = {} /\ Executing(r) = None
      BY <2>0, <2>1 DEF SleepInv, IdleInv, Executing
    <2>5. \A s \in Sleepers : ~WakerComing(r, s)
      BY <2>1, <2>3, <2>4, SleepersAreJobs DEF WakerComing, ThreadId
    <2>6. \A s \in Sleepers : sleep[s] = "asleep" => s \in woken
      BY <2>0, <2>5 DEF SleepInv, AsleepInv
    <2>7. \A f \in Fibers : f \notin Range(tasks)
      BY <2>3, SchedulerAssumption DEF ThreadId
    <2>8. \A f \in Fibers : fstate[f] = "SUSPENDED" => fcb[f] = None
      BY <2>0, <2>1, <2>6, <2>7, NoneIsNothing DEF SleepInv, ParkedInv
    <2>9. Status(j) # "parked"
      BY <2>0, <2>8, NoneIsNothing DEF Status, HasFiber, Unpinned
    <2> QED
      BY <2>2, <2>9
  <1> QED
    BY <1>1, PoolOfOne, PTL
=============================================================================
