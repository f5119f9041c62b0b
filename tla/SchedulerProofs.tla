--------------------------- MODULE SchedulerProofs ---------------------------
\* What holds of the scheduler for every number of threads, jobs and fibers: the
\* types, the exclusive use of fibers, the fate of the jobs when stop() returns,
\* the refinement of JobPool.  For a single runner the counter of active threads
\* is exact, which IoSchedulerProofs needs.  Each invariant is inductive together with the ones before it.
EXTENDS Scheduler, SequenceTheorems, FiniteSetTheorems, TLAPS

-----------------------------------------------------------------------------
(* The queue *)

\* What the queue is when TakeJob has erased an entry.
LEMMA RemoveAtProps ==
  ASSUME NEW S, NEW s \in Seq(S), NEW i \in 1 .. Len(s)
  PROVE  /\ RemoveAt(s, i) \in Seq(S)
         /\ Len(RemoveAt(s, i)) = Len(s) - 1
         /\ \A k \in 1 .. Len(s) - 1 :
              RemoveAt(s, i)[k] = IF k < i THEN s[k] ELSE s[k + 1]
  <1> DEFINE a == SubSeq(s, 1, i - 1)
             b == SubSeq(s, i + 1, Len(s))
  <1>1. a \in Seq(S) /\ Len(a) = i - 1 /\ \A k \in 1 .. i - 1 : a[k] = s[k]
    OBVIOUS
  <1>2. b \in Seq(S) /\ Len(b) = Len(s) - i /\ \A k \in 1 .. Len(s) - i : b[k] = s[k + i]
    OBVIOUS
  <1>3. RemoveAt(s, i) = a \o b
    BY DEF RemoveAt
  <1> HIDE DEF a, b
  <1>4. /\ a \o b \in Seq(S) /\ Len(a \o b) = Len(a) + Len(b)
        /\ \A k \in 1 .. Len(a) + Len(b) :
             (a \o b)[k] = IF k <= Len(a) THEN a[k] ELSE b[k - Len(a)]
    BY <1>1, <1>2, ConcatProperties
  <1>5. \A k \in 1 .. Len(s) - 1 : ~(k <= i - 1) =>
          (k - (i - 1)) + i = k + 1 /\ k - (i - 1) \in 1 .. Len(s) - i
    OBVIOUS
  <1> QED
    BY <1>1, <1>2, <1>3, <1>4, <1>5

-----------------------------------------------------------------------------
(* Type correctness *)

\* The positions of run() at which the fiber cbFiber is being run or handled.
Working == {"run", "switch", "load", "store", "dispatch"}

\* run() has a fiber in cbFiber wherever it uses it.
HandInv == \A t \in Threads : pc[t] \in Working => cbFiber[t] # None

\* None stands for no thread, no job and no fiber.
LEMMA NoneIsNothing == None \notin Threads /\ None \notin Jobs /\ None \notin Fibers
  BY SchedulerAssumption

\* The threads that execute run() are among the threads of the process.
LEMMA RunnersAreThreads == Runners \subseteq Threads /\ Workers \subseteq Threads /\ Root \in Threads
  BY DEF Runners, Threads

\* The actions of Next, one by one: what a proof of an invariant splits into.
LEMMA NextCases ==
  ASSUME Next
  PROVE  \/ \E j \in Jobs : MainAdds(j)
         \/ Start
         \/ \E w \in Workers : Spawn(w) \/ PublishId(w)
         \/ StartReturns
         \/ Stop
         \/ StopReturns
         \/ \E t \in Runners : RunStep(t)
         \/ \E t \in Runners : IdleTurn(t)
         \/ UNCHANGED vars
  BY DEF Next, MainNext, Terminated

\* The constructor establishes the types, and no thread holds a fiber yet.
LEMMA InitTypeOK == Init => TypeOK /\ HandInv
  <1> SUFFICES ASSUME Init PROVE TypeOK /\ HandInv
    OBVIOUS
  <1>1. threadIds \in Seq(Threads)
    <2>1. Root \in Threads /\ <<Root>> \in Seq(Threads) /\ <<>> \in Seq(Threads)
      BY DEF Threads
    <2> QED
      BY <2>1 DEF Init
  <1>2. tasks \in Seq(Jobs \cup Fibers)
    BY DEF Init
  <1>3. pc \in [Threads -> RunPcs] /\ HandInv
    BY DEF Init, RunPcs, HandInv, Working
  <1>4. /\ idleFiber \in [Threads -> FiberStates]
        /\ fstate \in [Fibers -> FiberStates \cup {"FREE"}]
    BY DEF Init, FiberStates
  <1>5. /\ job \in [Threads -> Jobs \cup Fibers \cup {None}]
        /\ cbFiber \in [Threads -> Fibers \cup {None}]
        /\ fcb \in [Fibers -> Jobs \cup {None}]
        /\ loaded \in [Threads -> Int]
        /\ yields \in [Jobs -> Nat]
    BY DEF Init
  <1>6. mainPc \in MainPcs /\ isStop \in BOOLEAN /\ aborted \in BOOLEAN
    BY Zenon DEF Init, MainPcs
  <1>7. /\ spawned \in SUBSET Workers
        /\ mutex \in Threads \cup {None}
        /\ added \in SUBSET Jobs
        /\ active \in Int
    BY DEF Init
  <1> QED
    BY <1>1, <1>2, <1>3, <1>4, <1>5, <1>6, <1>7 DEF TypeOK

\* Every step keeps the types, and with them that run() has a fiber in cbFiber
\* wherever it dereferences it (Scheduler.cpp:222-262).
LEMMA TypeStep ==
  ASSUME TypeOK, HandInv, [Next]_vars
  PROVE  TypeOK' /\ HandInv'
  <1> USE NoneIsNothing, RunnersAreThreads
  <1> USE DEF TypeOK, HandInv, Working, MainPcs, RunPcs, FiberStates, mainVars,
              queueVars, loopVars, fiberVars
  <1>1. ASSUME NEW j \in Jobs, MainAdds(j) PROVE TypeOK' /\ HandInv'
    BY <1>1 DEF MainAdds, AddJob
  <1>2. CASE Start
    BY <1>2 DEF Start
  <1>3. ASSUME NEW w \in Workers, Spawn(w) PROVE TypeOK' /\ HandInv'
    BY <1>3 DEF Spawn
  <1>4. ASSUME NEW w \in Workers, PublishId(w) PROVE TypeOK' /\ HandInv'
    BY <1>4 DEF PublishId
  <1>5. CASE StartReturns
    BY <1>5 DEF StartReturns
  <1>6. CASE Stop
    BY <1>6 DEF Stop
  <1>7. CASE StopReturns
    BY <1>7 DEF StopReturns
  <1>8. ASSUME NEW t \in Threads, TakeJob(t) PROVE TypeOK' /\ HandInv'
    <2>1. PICK i \in DOMAIN tasks : /\ job' = [job EXCEPT ![t] = tasks[i]]
                                    /\ tasks' = RemoveAt(tasks, i)
      BY <1>8 DEF TakeJob, Runnable
    <2>2. i \in 1 .. Len(tasks) /\ tasks[i] \in Jobs \cup Fibers
      BY <2>1
    <2>3. tasks' \in Seq(Jobs \cup Fibers)
      BY <2>1, <2>2, RemoveAtProps
    <2> QED
      BY <1>8, <2>1, <2>2, <2>3 DEF TakeJob
  <1>9. ASSUME NEW t \in Threads, CountUp(t) PROVE TypeOK' /\ HandInv'
    BY <1>9 DEF CountUp
  <1>10. ASSUME NEW t \in Threads, FindNothing(t) PROVE TypeOK' /\ HandInv'
    <2>1. CASE idleFiber[t] = "TERM"
      <3>1. /\ pc' = [pc EXCEPT ![t] = "done"]
            /\ cbFiber' = [cbFiber EXCEPT ![t] = None]
            /\ fstate' = [f \in Fibers |-> IF f = cbFiber[t] THEN "FREE" ELSE fstate[f]]
            /\ UNCHANGED <<mainVars, queueVars, active, job, loaded, idleFiber,
                           fcb, yields, aborted>>
        BY <1>10, <2>1 DEF FindNothing
      <3>2. fstate' \in [Fibers -> FiberStates \cup {"FREE"}]
        BY <3>1
      <3> QED
        BY <3>1, <3>2
    <2>2. CASE idleFiber[t] # "TERM"
      <3>1. /\ pc' = [pc EXCEPT ![t] = "idle"]
            /\ idleFiber' = [idleFiber EXCEPT ![t] = "RUNNING"]
            /\ UNCHANGED <<mainVars, queueVars, active, job, loaded, cbFiber,
                           fiberVars, aborted>>
        BY <1>10, <2>2 DEF FindNothing
      <3> QED
        BY <3>1
    <2> QED
      BY <2>1, <2>2
  <1>11. ASSUME NEW t \in Threads, NEW f \in Fibers, NEW g, NEW b \in BOOLEAN,
                Resume(t, f, g, b), fcb' \in [Fibers -> Jobs \cup {None}]
         PROVE  TypeOK' /\ HandInv'
    BY <1>11 DEF Resume
  <1>12. ASSUME NEW t \in Threads, ResumeFiber(t) PROVE TypeOK' /\ HandInv'
    BY <1>11, <1>12 DEF ResumeFiber
  <1>13. ASSUME NEW t \in Threads, ResetAndResume(t) PROVE TypeOK' /\ HandInv'
    BY <1>11, <1>13 DEF ResetAndResume
  <1>14. ASSUME NEW t \in Threads, NewAndResume(t) PROVE TypeOK' /\ HandInv'
    BY <1>11, <1>14 DEF NewAndResume
  <1>15. ASSUME NEW t \in Threads, NEW j \in Jobs, JobAdds(t, j) PROVE TypeOK' /\ HandInv'
    BY <1>15 DEF JobAdds, AddJob
  <1>16. ASSUME NEW t \in Threads, NEW state \in {"READY", "SUSPENDED"}, Yield(t, state)
         PROVE  TypeOK' /\ HandInv'
    <2>1. cbFiber[t] \in Fibers
      BY <1>16 DEF Yield
    <2>2. yields' \in [Jobs -> Nat]
      <3>1. ASSUME NEW j \in Jobs PROVE yields'[j] \in Nat
        <4>1. CASE fcb[cbFiber[t]] = j
          BY <1>16, <4>1 DEF Yield
        <4>2. CASE fcb[cbFiber[t]] # j
          BY <1>16, <4>2 DEF Yield
        <4> QED
          BY <4>1, <4>2
      <3>2. yields' = [j \in Jobs |-> yields'[j]]
        BY <1>16 DEF Yield
      <3> QED
        BY <3>1, <3>2
    <2>3. fstate' \in [Fibers -> FiberStates \cup {"FREE"}]
      BY <1>16, <2>1 DEF Yield
    <2> QED
      BY <1>16, <2>1, <2>2, <2>3 DEF Yield
  <1>17. ASSUME NEW t \in Threads, JobEnds(t) PROVE TypeOK' /\ HandInv'
    BY <1>17 DEF JobEnds
  <1>18. ASSUME NEW t \in Threads, SwitchBack(t) PROVE TypeOK' /\ HandInv'
    BY <1>18 DEF SwitchBack
  <1>19. ASSUME NEW t \in Threads, CountDownLoad(t) PROVE TypeOK' /\ HandInv'
    BY <1>19 DEF CountDownLoad
  <1>20. ASSUME NEW t \in Threads, CountDownStore(t) PROVE TypeOK' /\ HandInv'
    BY <1>20 DEF CountDownStore
  <1>21. ASSUME NEW t \in Threads, DispatchReady(t) PROVE TypeOK' /\ HandInv'
    <2>1. cbFiber[t] \in Fibers
      BY <1>21 DEF DispatchReady, Readd
    <2> QED
      BY <1>21, <2>1 DEF DispatchReady, Readd
  <1>22. ASSUME NEW t \in Threads, DispatchEnded(t) PROVE TypeOK' /\ HandInv'
    BY <1>22 DEF DispatchEnded
  <1>23. ASSUME NEW t \in Threads, DispatchSuspended(t) PROVE TypeOK' /\ HandInv'
    BY <1>23 DEF DispatchSuspended
  <1>24. ASSUME NEW t \in Threads, IdleTurn(t) PROVE TypeOK' /\ HandInv'
    BY <1>24 DEF IdleTurn
  <1>25. CASE UNCHANGED vars
    BY <1>25 DEF vars
  <1>26. ASSUME NEW t \in Runners, RunStep(t) PROVE TypeOK' /\ HandInv'
    BY <1>26, <1>8, <1>9, <1>10, <1>12, <1>13, <1>14, <1>15, <1>16, <1>17, <1>18,
       <1>19, <1>20, <1>21, <1>22, <1>23
    DEF RunStep, YieldToReady, YieldToSuspended
  <1> HIDE DEF TypeOK, HandInv
  <1> QED
    BY <1>1, <1>2, <1>3, <1>4, <1>5, <1>6, <1>7, <1>24, <1>25, <1>26, NextCases

\* Every variable has its type, whatever the number of threads and jobs.
THEOREM TypeCorrect == Spec => []TypeOK
  <1>1. TypeOK /\ HandInv /\ [Next]_vars => (TypeOK /\ HandInv)'
    BY TypeStep
  <1> QED
    BY InitTypeOK, <1>1, PTL DEF Spec

-----------------------------------------------------------------------------
(* A fiber is in one place at a time, and no assertion fails *)

\* The states of a fiber in the queue: one that has yielded is READY, and one
\* that a timer adds again (IoScheduler) is still SUSPENDED.
Resumable == {"READY", "SUSPENDED"}

\* The strengthening: the place of a fiber determines its state, so a fiber
\* that is taken from the queue is not running and a fiber that is reused or
\* dropped has ended.
StateOf(t) ==
  /\ pc[t] = "run" => fstate[cbFiber[t]] = "RUNNING"
  /\ pc[t] \in Working \ {"run"}
       => fstate[cbFiber[t]] \in {"READY", "SUSPENDED", "TERM", "ERROR"}
  /\ pc[t] \notin Working /\ cbFiber[t] # None => fstate[cbFiber[t]] = "INIT"
  /\ job[t] \in Fibers => fstate[job[t]] \in Resumable
  /\ pc[t] \notin {"count", "resume"} => job[t] = None

FiberInv ==
  /\ \A t \in Threads : StateOf(t)
  /\ \A i \in DOMAIN tasks : tasks[i] \in Fibers => fstate[tasks[i]] \in Resumable

\* A thread that has not been created, or Root before stop(), is not in run().
OffInv ==
  /\ \A w \in Workers \ spawned : pc[w] = "off"
  /\ mainPc \in {"built", "starting", "started"} => pc[Root] = "off"

ExclusiveInv ==
  /\ TypeOK
  /\ HandInv
  /\ OffInv
  /\ Exclusive
  /\ FiberInv
  /\ AssertionsHold

\* TakeJob, with the queue seen as a function: the entry i leaves it, and each
\* entry that stays comes from a position of its own.
LEMMA TakeJobProps ==
  ASSUME TypeOK, NEW t \in Threads, TakeJob(t)
  PROVE  \E i \in DOMAIN tasks :
           /\ job' = [job EXCEPT ![t] = tasks[i]]
           /\ \A k \in DOMAIN tasks' :
                \E m \in DOMAIN tasks \ {i} : tasks'[k] = tasks[m]
           /\ \A k \in DOMAIN tasks : k # i => tasks[k] \in Range(tasks')
           /\ \A k, l \in DOMAIN tasks' : \E m, n \in DOMAIN tasks \ {i} :
                /\ tasks'[k] = tasks[m] /\ tasks'[l] = tasks[n]
                /\ m = n => k = l
  <1>1. PICK i \in DOMAIN tasks : /\ job' = [job EXCEPT ![t] = tasks[i]]
                                  /\ tasks' = RemoveAt(tasks, i)
    BY DEF TakeJob, Runnable
  <1>2. tasks \in Seq(Jobs \cup Fibers) /\ i \in 1 .. Len(tasks)
    BY <1>1 DEF TypeOK
  <1>3. /\ DOMAIN tasks' = 1 .. Len(tasks) - 1
        /\ \A k \in 1 .. Len(tasks) - 1 :
             tasks'[k] = IF k < i THEN tasks[k] ELSE tasks[k + 1]
    <2>1. /\ RemoveAt(tasks, i) \in Seq(Jobs \cup Fibers)
          /\ Len(RemoveAt(tasks, i)) = Len(tasks) - 1
          /\ \A k \in 1 .. Len(tasks) - 1 :
               RemoveAt(tasks, i)[k] = IF k < i THEN tasks[k] ELSE tasks[k + 1]
      BY <1>2, RemoveAtProps
    <2> QED
      BY <2>1, <1>1
  <1>4. ASSUME NEW k \in DOMAIN tasks, k # i PROVE tasks[k] \in Range(tasks')
    <2>1. CASE k < i
      <3>1. k \in DOMAIN tasks' /\ tasks'[k] = tasks[k]
        BY <1>2, <1>3, <2>1
      <3> QED
        BY <3>1 DEF Range
    <2>2. CASE i < k
      <3>1. k - 1 \in DOMAIN tasks' /\ tasks'[k - 1] = tasks[k]
        BY <1>2, <1>3, <2>2
      <3> QED
        BY <3>1 DEF Range
    <2> QED
      BY <1>2, <1>4, <2>1, <2>2
  <1>5. ASSUME NEW k \in DOMAIN tasks'
        PROVE  \E m \in DOMAIN tasks \ {i} : tasks'[k] = tasks[m]
    <2>1. CASE k < i
      BY <1>2, <1>3, <2>1
    <2>2. CASE ~(k < i)
      <3>1. k + 1 \in DOMAIN tasks \ {i} /\ tasks'[k] = tasks[k + 1]
        BY <1>2, <1>3, <2>2
      <3> QED
        BY <3>1
    <2> QED
      BY <2>1, <2>2
  <1>6. ASSUME NEW k \in DOMAIN tasks', NEW l \in DOMAIN tasks'
        PROVE  \E m, n \in DOMAIN tasks \ {i} :
                 /\ tasks'[k] = tasks[m] /\ tasks'[l] = tasks[n]
                 /\ m = n => k = l
    <2> DEFINE at(m) == IF m < i THEN m ELSE m + 1
    <2>1. at(k) \in DOMAIN tasks \ {i} /\ at(l) \in DOMAIN tasks \ {i}
      BY <1>2, <1>3
    <2>2. tasks[at(k)] = tasks'[k] /\ tasks[at(l)] = tasks'[l]
      BY <1>2, <1>3
    <2>3. at(k) = at(l) => k = l
      BY <1>2, <1>3
    <2> QED
      BY <2>1, <2>2, <2>3
  <1> QED
    BY <1>1, <1>4, <1>5, <1>6

\* The three ways to resume a fiber, once the assertions are known to hold.
LEMMA ResumeFiberProps ==
  ASSUME ExclusiveInv, NEW t \in Threads, ResumeFiber(t)
  PROVE  /\ pc[t] = "resume"
         /\ job[t] \in Fibers
         /\ cbFiber' = [cbFiber EXCEPT ![t] = job[t]]
         /\ fstate' = [g \in Fibers |-> IF g = job[t] THEN "RUNNING"
                                        ELSE IF g = cbFiber[t] THEN "FREE"
                                        ELSE fstate[g]]
         /\ job' = [job EXCEPT ![t] = None]
         /\ pc' = [pc EXCEPT ![t] = "run"]
         /\ aborted' = FALSE
         /\ UNCHANGED <<mainVars, tasks, added, fcb, idleFiber>>
  <1>1. pc[t] = "resume" /\ job[t] \in Fibers
    BY DEF ResumeFiber, Resume
  <1>2. StateOf(t)
    BY DEF ExclusiveInv, FiberInv
  <1>3. fstate[job[t]] # "RUNNING"
    BY <1>1, <1>2 DEF StateOf, Resumable
  <1>4. \A g \in {cbFiber[t]} \ {None, job[t]} : fstate[g] \in Resettable
    BY <1>1, <1>2 DEF StateOf, Working, Resettable
  <1>5. aborted' = FALSE
    BY <1>3, <1>4 DEF ResumeFiber, Resume
  <1> QED
    BY <1>1, <1>5 DEF ResumeFiber, Resume, queueVars

\* reset() of the fiber kept in cbFiber, then resume(): the job leaves the hand
\* of run() and its fiber is the one that executes it.
LEMMA ResetAndResumeProps ==
  ASSUME ExclusiveInv, NEW t \in Threads, ResetAndResume(t)
  PROVE  /\ pc[t] = "resume"
         /\ cbFiber[t] \in Fibers
         /\ fstate[cbFiber[t]] = "INIT"
         /\ job[t] \in Jobs
         /\ cbFiber' = cbFiber
         /\ fstate' = [fstate EXCEPT ![cbFiber[t]] = "RUNNING"]
         /\ fcb' = [fcb EXCEPT ![cbFiber[t]] = job[t]]
         /\ job' = [job EXCEPT ![t] = None]
         /\ pc' = [pc EXCEPT ![t] = "run"]
         /\ aborted' = FALSE
         /\ UNCHANGED <<mainVars, tasks, added, idleFiber>>
  <1>1. pc[t] = "resume" /\ job[t] \in Jobs /\ cbFiber[t] # None
    BY DEF ResetAndResume, Resume
  <1>2. StateOf(t) /\ cbFiber[t] \in Fibers
    BY <1>1 DEF ExclusiveInv, FiberInv, TypeOK
  <1>3. fstate[cbFiber[t]] = "INIT"
    BY <1>1, <1>2 DEF StateOf, Working
  <1>4. aborted' = FALSE
    BY <1>3 DEF ResetAndResume, Resume, Resettable
  <1>5. cbFiber' = cbFiber
    BY DEF ResetAndResume, Resume, ExclusiveInv, TypeOK
  <1>6. fstate' = [fstate EXCEPT ![cbFiber[t]] = "RUNNING"]
    BY NoneIsNothing DEF ResetAndResume, Resume, ExclusiveInv, TypeOK
  <1> QED
    BY <1>1, <1>2, <1>3, <1>4, <1>5, <1>6 DEF ResetAndResume, Resume, queueVars

\* new Fiber() when cbFiber is empty, then resume(): a fiber nobody else holds.
LEMMA NewAndResumeProps ==
  ASSUME ExclusiveInv, NEW t \in Threads, NewAndResume(t)
  PROVE  /\ pc[t] = "resume"
         /\ cbFiber[t] = None
         /\ job[t] \in Jobs
         /\ \E f \in Fibers :
              /\ fstate[f] = "FREE"
              /\ cbFiber' = [cbFiber EXCEPT ![t] = f]
              /\ fstate' = [fstate EXCEPT ![f] = "RUNNING"]
              /\ fcb' = [fcb EXCEPT ![f] = job[t]]
         /\ job' = [job EXCEPT ![t] = None]
         /\ pc' = [pc EXCEPT ![t] = "run"]
         /\ aborted' = FALSE
         /\ UNCHANGED <<mainVars, tasks, added, idleFiber>>
  <1>1. PICK f \in Fibers : /\ fstate[f] = "FREE"
                            /\ Resume(t, f, None, FALSE)
                            /\ fcb' = [fcb EXCEPT ![f] = job[t]]
    BY DEF NewAndResume
  <1>2. fstate' = [fstate EXCEPT ![f] = "RUNNING"]
    BY <1>1, NoneIsNothing DEF Resume, ExclusiveInv, TypeOK
  <1> QED
    BY <1>1, <1>2 DEF NewAndResume, Resume, queueVars

\* Before start() no thread, and no entry of tasks_, holds a fiber.
LEMMA InitExclusive == Init => OffInv /\ Exclusive /\ FiberInv /\ AssertionsHold
  BY NoneIsNothing
  DEF Init, Threads, OffInv, Exclusive, Holds, FiberInv, StateOf, AssertionsHold, Working, Range

\* Every step of every thread keeps a fiber in one place, in the state that
\* place calls for, and so no assertion of resume() or reset() fails.
LEMMA ExclusiveStep ==
  ASSUME ExclusiveInv, [Next]_vars
  PROVE  OffInv' /\ Exclusive' /\ FiberInv' /\ AssertionsHold'
  <1> DEFINE Goal == OffInv' /\ Exclusive' /\ FiberInv' /\ AssertionsHold'
  <1> SUFFICES Goal
    OBVIOUS
  <1> USE NoneIsNothing, RunnersAreThreads
  <1>0. TypeOK /\ HandInv /\ OffInv /\ Exclusive /\ FiberInv /\ AssertionsHold
    BY DEF ExclusiveInv
  <1>8. ASSUME NEW t \in Threads, TakeJob(t) PROVE Goal
    <2>1. PICK i \in DOMAIN tasks :
            /\ job' = [job EXCEPT ![t] = tasks[i]]
            /\ \A k \in DOMAIN tasks' :
                 \E m \in DOMAIN tasks \ {i} : tasks'[k] = tasks[m]
            /\ \A k, l \in DOMAIN tasks' : \E m, n \in DOMAIN tasks \ {i} :
                 /\ tasks'[k] = tasks[m] /\ tasks'[l] = tasks[n]
                 /\ m = n => k = l
      BY <1>0, <1>8, TakeJobProps
    <2>2. /\ pc[t] = "fetch"
          /\ pc' = [pc EXCEPT ![t] = "count"]
          /\ UNCHANGED <<mainVars, cbFiber, fstate, aborted>>
      BY <1>8 DEF TakeJob, fiberVars
    <2>3. OffInv' /\ AssertionsHold'
      BY <1>0, <2>2 DEF OffInv, AssertionsHold, mainVars, TypeOK, Threads
    <2>4. Exclusive'
      BY <1>0, <2>1, <2>2 DEF Exclusive, Holds, TypeOK, Range
    <2>5. FiberInv'
      BY <1>0, <2>1, <2>2 DEF FiberInv, Resumable, StateOf, TypeOK, Working
    <2> QED
      BY <2>3, <2>4, <2>5
  <1>12. ASSUME NEW t \in Threads, ResumeFiber(t) PROVE Goal
    <2> DEFINE f == job[t]
    <2>1. /\ pc[t] = "resume"
          /\ f \in Fibers
          /\ cbFiber' = [cbFiber EXCEPT ![t] = f]
          /\ fstate' = [g \in Fibers |-> IF g = f THEN "RUNNING"
                                         ELSE IF g = cbFiber[t] THEN "FREE"
                                         ELSE fstate[g]]
          /\ job' = [job EXCEPT ![t] = None]
          /\ pc' = [pc EXCEPT ![t] = "run"]
          /\ aborted' = FALSE
          /\ UNCHANGED <<mainVars, tasks>>
      BY <1>12, ResumeFiberProps
    <2> HIDE DEF f
    <2>2. OffInv' /\ AssertionsHold'
      BY <1>0, <2>1 DEF OffInv, AssertionsHold, mainVars, TypeOK, Threads
    <2>3. Exclusive'
      BY <1>0, <2>1 DEF Exclusive, Holds, TypeOK, Range, f
    <2>4. \A u \in Threads : u # t => /\ cbFiber[u] # f /\ job[u] # f
                                      /\ cbFiber[t] # None =>
                                           cbFiber[u] # cbFiber[t] /\ job[u] # cbFiber[t]
      BY <1>0, <2>1 DEF Exclusive, Holds, TypeOK, f
    <2>5. \A i \in DOMAIN tasks : tasks[i] # f /\ (cbFiber[t] # None => tasks[i] # cbFiber[t])
      BY <1>0, <2>1 DEF Exclusive, Holds, TypeOK, Range, f
    <2>6. FiberInv'
      <3>1. ASSUME NEW u \in Threads PROVE StateOf(u)'
        <4>1. CASE u = t
          BY <1>0, <2>1, <4>1 DEF FiberInv, Resumable, StateOf, TypeOK, Working
        <4>2. CASE u # t
          <5>1. /\ StateOf(u)
                /\ pc'[u] = pc[u] /\ cbFiber'[u] = cbFiber[u] /\ job'[u] = job[u]
            BY <1>0, <2>1, <4>2 DEF FiberInv, TypeOK
          <5>2. cbFiber[u] \in Fibers => fstate'[cbFiber[u]] = fstate[cbFiber[u]]
            BY <2>1, <2>4, <4>2
          <5>3. job[u] \in Fibers => fstate'[job[u]] = fstate[job[u]]
            BY <2>1, <2>4, <4>2
          <5>4. pc[u] \in Working => cbFiber[u] # None
            BY <1>0 DEF HandInv
          <5>5. cbFiber[u] # None => cbFiber[u] \in Fibers
            BY <1>0 DEF TypeOK
          <5> QED
            BY <5>1, <5>2, <5>3, <5>4, <5>5 DEF StateOf, Working
        <4> QED
          BY <4>1, <4>2
      <3>2. \A i \in DOMAIN tasks' : tasks'[i] \in Fibers => fstate'[tasks'[i]] \in Resumable
        BY <1>0, <2>1, <2>5 DEF FiberInv, TypeOK
      <3> QED
        BY <3>1, <3>2 DEF FiberInv
    <2> QED
      BY <2>2, <2>3, <2>6
  <1>13. ASSUME NEW t \in Threads, ResetAndResume(t) PROVE Goal
    <2> DEFINE f == cbFiber[t]
    <2>1. /\ pc[t] = "resume"
          /\ f \in Fibers
          /\ fstate[f] = "INIT"
          /\ fstate' = [fstate EXCEPT ![f] = "RUNNING"]
          /\ cbFiber' = cbFiber
          /\ job' = [job EXCEPT ![t] = None]
          /\ pc' = [pc EXCEPT ![t] = "run"]
          /\ aborted' = FALSE
          /\ UNCHANGED <<mainVars, tasks>>
      BY <1>13, ResetAndResumeProps
    <2>2. OffInv' /\ AssertionsHold'
      BY <1>0, <2>1 DEF OffInv, AssertionsHold, mainVars, TypeOK, Threads
    <2>3. Exclusive'
      BY <1>0, <2>1 DEF Exclusive, Holds, TypeOK, Range
    <2>4. \A u \in Threads : u # t => cbFiber[u] # f
      BY <1>0, <2>1 DEF Exclusive, Holds, TypeOK
    <2>5. FiberInv'
      BY <1>0, <2>1, <2>4 DEF FiberInv, Resumable, StateOf, TypeOK, Working
    <2> QED
      BY <2>2, <2>3, <2>5
  <1>14. ASSUME NEW t \in Threads, NewAndResume(t) PROVE Goal
    <2>1. /\ pc[t] = "resume"
          /\ cbFiber[t] = None
          /\ job' = [job EXCEPT ![t] = None]
          /\ pc' = [pc EXCEPT ![t] = "run"]
          /\ aborted' = FALSE
          /\ UNCHANGED <<mainVars, tasks>>
      BY <1>14, NewAndResumeProps
    <2>2. PICK f \in Fibers :
            /\ fstate[f] = "FREE"
            /\ cbFiber' = [cbFiber EXCEPT ![t] = f]
            /\ fstate' = [fstate EXCEPT ![f] = "RUNNING"]
            /\ fcb' = [fcb EXCEPT ![f] = job[t]]
      BY <1>14, NewAndResumeProps
    <2>3. ASSUME NEW u \in Threads PROVE cbFiber[u] # f /\ job[u] # f
      <3>1. StateOf(u) /\ pc[u] \in RunPcs
        BY <1>0 DEF FiberInv, TypeOK
      <3> QED
        BY <2>2, <3>1 DEF StateOf, Resumable
    <2>4. \A i \in DOMAIN tasks : tasks[i] # f
      BY <1>0, <2>2 DEF FiberInv, Resumable
    <2>5. OffInv' /\ AssertionsHold'
      BY <1>0, <2>1 DEF OffInv, AssertionsHold, mainVars, TypeOK, Threads
    <2>6. Exclusive'
      BY <1>0, <2>1, <2>2, <2>3, <2>4 DEF Exclusive, Holds, TypeOK, Range
    <2>7. FiberInv'
      BY <1>0, <2>1, <2>2, <2>3, <2>4 DEF FiberInv, Resumable, StateOf, TypeOK, Working
    <2> QED
      BY <2>5, <2>6, <2>7
  <1>21. ASSUME NEW t \in Threads, DispatchReady(t) PROVE Goal
    <2>1. /\ pc[t] = "dispatch" /\ cbFiber[t] \in Fibers
          /\ fstate[cbFiber[t]] = "READY"
          /\ tasks' = Append(tasks, cbFiber[t])
          /\ cbFiber' = [cbFiber EXCEPT ![t] = None]
          /\ pc' = [pc EXCEPT ![t] = "fetch"]
          /\ UNCHANGED <<mainVars, job, idleFiber, fstate, aborted>>
      BY <1>0, <1>21
      DEF DispatchReady, Readd, HandInv, TypeOK, Working, loopVars, fiberVars
    <2>2. /\ DOMAIN tasks' = 1 .. Len(tasks) + 1 /\ DOMAIN tasks = 1 .. Len(tasks)
          /\ \A i \in DOMAIN tasks : tasks'[i] = tasks[i]
          /\ tasks'[Len(tasks) + 1] = cbFiber[t]
          /\ Len(tasks) \in Nat
      BY <1>0, <2>1 DEF TypeOK
    <2>3. OffInv' /\ AssertionsHold'
      BY <1>0, <2>1 DEF OffInv, AssertionsHold, mainVars, TypeOK, Threads
    <2>4. Exclusive'
      <3>1. \A u \in Threads, f \in Fibers : Holds(u, f)' => Holds(u, f) /\ f # cbFiber[t]
        BY <1>0, <2>1 DEF Exclusive, Holds, TypeOK
      <3>2. cbFiber[t] \notin Range(tasks)
        BY <1>0, <2>1 DEF Exclusive, Holds
      <3>3. \A f \in Fibers : f \in Range(tasks') => f \in Range(tasks) \/ f = cbFiber[t]
        BY <2>2 DEF Range
      <3>4. \A i, k \in DOMAIN tasks' : tasks'[i] = tasks'[k] /\ tasks'[i] \in Fibers => i = k
        BY <1>0, <2>2, <3>2 DEF Exclusive, Range
      <3>5. \A u \in Threads, f \in Fibers : cbFiber'[u] = f => job'[u] # f
        BY <1>0, <2>1 DEF Exclusive, TypeOK
      <3> QED
        BY <1>0, <3>1, <3>3, <3>4, <3>5 DEF Exclusive
    <2>5. FiberInv'
      BY <1>0, <2>1, <2>2 DEF FiberInv, Resumable, StateOf, TypeOK, Working
    <2> QED
      BY <2>3, <2>4, <2>5
  <1>10. ASSUME NEW t \in Threads, FindNothing(t) PROVE Goal
    <2>1. CASE idleFiber[t] = "TERM"
      <3>1. /\ pc[t] = "fetch"
            /\ pc' = [pc EXCEPT ![t] = "done"]
            /\ cbFiber' = [cbFiber EXCEPT ![t] = None]
            /\ fstate' = [f \in Fibers |-> IF f = cbFiber[t] THEN "FREE" ELSE fstate[f]]
            /\ UNCHANGED <<mainVars, tasks, job, aborted>>
        BY <1>10, <2>1 DEF FindNothing, queueVars
      <3>2. OffInv' /\ AssertionsHold'
        BY <1>0, <3>1 DEF OffInv, AssertionsHold, mainVars, TypeOK, Threads
      <3>3. Exclusive'
        BY <1>0, <3>1 DEF Exclusive, Holds, TypeOK
      <3>4. \A f \in Fibers : f = cbFiber[t] \/ fstate'[f] = fstate[f]
        BY <3>1
      <3>5. cbFiber[t] \in Fibers =>
              /\ \A u \in Threads : job[u] # cbFiber[t] /\ (u # t => cbFiber[u] # cbFiber[t])
              /\ \A i \in DOMAIN tasks : tasks[i] # cbFiber[t]
        BY <1>0 DEF Exclusive, Holds, Range
      <3>6. FiberInv'
        BY <1>0, <3>1, <3>4, <3>5 DEF FiberInv, StateOf, HandInv, TypeOK, Working
      <3> QED
        BY <3>2, <3>3, <3>6
    <2>2. CASE idleFiber[t] # "TERM"
      <3>1. /\ pc[t] = "fetch"
            /\ pc' = [pc EXCEPT ![t] = "idle"]
            /\ UNCHANGED <<mainVars, tasks, job, cbFiber, fstate, aborted>>
        BY <1>10, <2>2 DEF FindNothing, queueVars
      <3>2. OffInv' /\ AssertionsHold'
        BY <1>0, <3>1 DEF OffInv, AssertionsHold, mainVars, TypeOK, Threads
      <3>3. Exclusive' /\ FiberInv'
        BY <1>0, <3>1 DEF Exclusive, Holds, FiberInv, StateOf, TypeOK, Working
      <3> QED
        BY <3>2, <3>3
    <2> QED
      BY <2>1, <2>2
  <1>16. ASSUME NEW t \in Threads, NEW state \in {"READY", "SUSPENDED"}, Yield(t, state)
         PROVE  Goal
    <2>1. /\ pc[t] = "run" /\ cbFiber[t] \in Fibers
          /\ fstate' = [fstate EXCEPT ![cbFiber[t]] = state]
          /\ pc' = [pc EXCEPT ![t] = "switch"]
          /\ UNCHANGED <<mainVars, tasks, job, cbFiber, aborted>>
      BY <1>0, <1>16 DEF Yield, HandInv, TypeOK, Working, queueVars
    <2>2. OffInv' /\ AssertionsHold'
      BY <1>0, <2>1 DEF OffInv, AssertionsHold, mainVars, TypeOK, Threads
    <2>3. Exclusive'
      BY <1>0, <2>1 DEF Exclusive, Holds
    <2>4. /\ \A u \in Threads : job[u] # cbFiber[t] /\ (u # t => cbFiber[u] # cbFiber[t])
          /\ \A i \in DOMAIN tasks : tasks[i] # cbFiber[t]
      BY <1>0, <2>1 DEF Exclusive, Holds, Range
    <2>5. \A f \in Fibers : f = cbFiber[t] \/ fstate'[f] = fstate[f]
      BY <1>0, <2>1 DEF TypeOK
    <2>6. ASSUME NEW u \in Threads PROVE StateOf(u)'
      <3>1. CASE u = t
        <4>1. job'[t] = None
          BY <1>0, <2>1 DEF FiberInv, StateOf
        <4>2. pc'[t] = "switch" /\ fstate'[cbFiber'[t]] = state
          BY <1>0, <2>1 DEF TypeOK
        <4>3. None \notin Fibers
          BY SchedulerAssumption
        <4> QED
          BY <3>1, <4>1, <4>2, <4>3 DEF StateOf, Working
      <3>2. CASE u # t
        <4>1. StateOf(u) /\ pc'[u] = pc[u] /\ (pc[u] \in Working => cbFiber[u] # None)
          BY <1>0, <2>1, <3>2 DEF FiberInv, HandInv, TypeOK
        <4>2. cbFiber[u] \in Fibers => fstate'[cbFiber[u]] = fstate[cbFiber[u]]
          BY <2>4, <2>5, <3>2
        <4>3. job[u] \in Fibers => fstate'[job[u]] = fstate[job[u]]
          BY <2>4, <2>5
        <4>4. cbFiber[u] \in Fibers \cup {None}
          BY <1>0 DEF TypeOK
        <4> QED
          BY <2>1, <4>1, <4>2, <4>3, <4>4 DEF StateOf, Working
      <3> QED
        BY <3>1, <3>2
    <2>7. \A i \in DOMAIN tasks : tasks[i] \in Fibers => fstate'[tasks[i]] \in Resumable
      BY <1>0, <2>4, <2>5 DEF FiberInv
    <2> QED
      BY <2>1, <2>2, <2>3, <2>6, <2>7 DEF FiberInv
  <1> USE SchedulerAssumption
  <1> USE DEF ExclusiveInv, OffInv, Exclusive, Holds, FiberInv, StateOf, AssertionsHold,
              HandInv, TypeOK, Working, Resumable, Range, mainVars, queueVars, loopVars,
              fiberVars
  <1>1. ASSUME NEW j \in Jobs, AddJob(j),
               UNCHANGED <<mainVars, pc, job, cbFiber, fiberVars, aborted>>
        PROVE  Goal
    BY <1>1 DEF AddJob
  <1>2. CASE Start
    BY <1>2 DEF Start
  <1>3. ASSUME NEW w \in Workers, Spawn(w) PROVE Goal
    BY <1>3 DEF Spawn
  <1>4. ASSUME NEW w \in Workers, PublishId(w) PROVE Goal
    BY <1>4 DEF PublishId
  <1>5. CASE StartReturns
    BY <1>5 DEF StartReturns
  <1>6. CASE Stop
    BY <1>6 DEF Stop
  <1>7. CASE StopReturns
    BY <1>7 DEF StopReturns
  <1>9. ASSUME NEW t \in Threads, CountUp(t) PROVE Goal
    BY <1>9 DEF CountUp
  <1>17. ASSUME NEW t \in Threads, JobEnds(t) PROVE Goal
    BY <1>17 DEF JobEnds
  <1>18. ASSUME NEW t \in Threads, SwitchBack(t) PROVE Goal
    BY <1>18 DEF SwitchBack
  <1>19. ASSUME NEW t \in Threads, CountDownLoad(t) PROVE Goal
    BY <1>19 DEF CountDownLoad
  <1>20. ASSUME NEW t \in Threads, CountDownStore(t) PROVE Goal
    BY <1>20 DEF CountDownStore
  <1>22. ASSUME NEW t \in Threads, DispatchEnded(t) PROVE Goal
    BY <1>22 DEF DispatchEnded
  <1>23. ASSUME NEW t \in Threads, DispatchSuspended(t) PROVE Goal
    BY <1>23 DEF DispatchSuspended
  <1>24. ASSUME NEW t \in Threads, IdleTurn(t) PROVE Goal
    BY <1>24 DEF IdleTurn
  <1>25. CASE UNCHANGED vars
    BY <1>25 DEF vars
  <1> HIDE DEF Goal
  <1>26. ASSUME NEW t \in Runners, RunStep(t) PROVE Goal
    <2>1. ASSUME NEW j \in Jobs, JobAdds(t, j) PROVE Goal
      BY <2>1, <1>1 DEF JobAdds
    <2> QED
      BY <1>26, <2>1, <1>8, <1>9, <1>10, <1>12, <1>13, <1>14, <1>16, <1>17, <1>18,
         <1>19, <1>20, <1>21, <1>22, <1>23
      DEF RunStep, YieldToReady, YieldToSuspended
  <1>27. ASSUME NEW j \in Jobs, MainAdds(j) PROVE Goal
    BY <1>27, <1>1 DEF MainAdds
  <1> QED
    BY <1>2, <1>3, <1>4, <1>5, <1>6, <1>7, <1>24, <1>25, <1>26, <1>27, NextCases

\* The inductive invariant behind FibersAreExclusive and NoAssertionFails.
LEMMA ExclusiveInvariant == Spec => []ExclusiveInv
  <1>1. Init => ExclusiveInv
    BY InitTypeOK, InitExclusive DEF ExclusiveInv
  <1>2. ExclusiveInv /\ [Next]_vars => ExclusiveInv'
    BY TypeStep, ExclusiveStep DEF ExclusiveInv
  <1> QED
    BY <1>1, <1>2, PTL DEF Spec

\* A fiber is never in two places, for every number of threads and jobs.
THEOREM FibersAreExclusive == Spec => []Exclusive
  <1>1. ExclusiveInv => Exclusive
    BY DEF ExclusiveInv
  <1> QED
    BY <1>1, ExclusiveInvariant, PTL

\* No assertion of the fibers that run() handles fails.
THEOREM NoAssertionFails == Spec => []AssertionsHold
  <1>1. ExclusiveInv => AssertionsHold
    BY DEF ExclusiveInv
  <1> QED
    BY <1>1, ExclusiveInvariant, PTL

-----------------------------------------------------------------------------
(* No job is left behind *)

\* A callable is bound to a fiber only while the fiber exists and has not
\* ended, and a bound fiber that is nowhere is suspended.
BoundInv ==
  \A f \in Fibers :
    /\ fstate[f] \in {"FREE", "INIT", "TERM", "ERROR"} => fcb[f] = None
    /\ fcb[f] # None => \/ fstate[f] = "SUSPENDED"
                        \/ \E t \in Threads : Holds(t, f)
                        \/ f \in Range(tasks)

\* A thread is in run().
Live(t) == t \in Runners /\ pc[t] \notin {"off", "done"}

\* While the scheduler is stopping, somebody is left to run what is queued.
LiveInv ==
  /\ mainPc = "built" => \A t \in Threads : pc[t] = "off"
  /\ mainPc \in {"starting", "started"} => isStop = FALSE
  /\ mainPc \in {"built", "starting", "started"} =>
       \A t \in Threads : idleFiber[t] # "TERM" /\ pc[t] # "done"
  /\ \A w \in Workers : w \in spawned <=> pc[w] # "off"
  /\ mainPc \notin {"built", "starting"} => spawned = Workers
  /\ pc[Root] # "off" => CallerJoin /\ mainPc \in {"stopping", "stopped"}
  /\ CallerJoin /\ mainPc \in {"stopping", "stopped"} => pc[Root] # "off"
  /\ \A t \in Threads : pc[t] \in {"off", "done"} => cbFiber[t] = None
  /\ mainPc = "stopped" => \A t \in Runners : pc[t] = "done"
  /\ (\E i \in DOMAIN tasks : ThreadId(tasks[i]) = -1) /\ mainPc \in {"stopping", "stopped"}
       => \E t \in Threads : Live(t)

JobInv == BoundInv /\ LiveInv

\* Before start() there is no fiber that a job could be bound to.
LEMMA InitJob == Init => JobInv
  <1> SUFFICES ASSUME Init PROVE JobInv
    OBVIOUS
  <1>1. BoundInv
    BY DEF Init, BoundInv
  <1>2. LiveInv
    BY RunnersAreThreads DEF Init, LiveInv
  <1> QED
    BY <1>1, <1>2 DEF JobInv

\* A thread that takes a step inside run() is itself the one that is left.
LEMMA RunnerStaysLive ==
  ASSUME TypeOK, LiveInv, NEW t \in Runners, pc[t] \notin {"off", "done"},
         NEW p, p \notin {"off", "done"}, pc' = [pc EXCEPT ![t] = p],
         UNCHANGED mainVars,
         \A u \in Threads : u # t => cbFiber'[u] = cbFiber[u],
         \A u \in Threads : idleFiber'[u] = "TERM" => idleFiber[u] = "TERM" \/ isStop
  PROVE  LiveInv'
  <1>1. t \in Threads /\ Root \in Threads /\ Workers \subseteq Threads /\ Runners \subseteq Threads
    BY RunnersAreThreads
  <1>2. UNCHANGED <<mainPc, spawned, threadIds, isStop>>
    BY DEF mainVars
  <1>3. /\ pc'[t] \notin {"off", "done"}
        /\ \A u \in Threads : u # t => pc'[u] = pc[u]
        /\ \A u \in Threads : pc'[u] \in {"off", "done"} => u # t
    BY <1>1 DEF TypeOK
  <1>4. Live(t)'
    BY <1>3 DEF Live
  <1>5. mainPc # "built" /\ mainPc # "stopped"
    BY <1>1 DEF LiveInv
  <1>6. mainPc \in {"starting", "started"} => isStop = FALSE
    BY DEF LiveInv
  <1>7. mainPc \in {"built", "starting", "started"} =>
          \A u \in Threads : idleFiber'[u] # "TERM" /\ pc'[u] # "done"
    BY <1>3, <1>5, <1>6 DEF LiveInv
  <1>8. \A w \in Workers : w \in spawned <=> pc'[w] # "off"
    BY <1>1, <1>3 DEF LiveInv
  <1>9. /\ pc'[Root] # "off" => CallerJoin /\ mainPc \in {"stopping", "stopped"}
        /\ CallerJoin /\ mainPc \in {"stopping", "stopped"} => pc'[Root] # "off"
    BY <1>1, <1>3 DEF LiveInv
  <1>10. \A u \in Threads : pc'[u] \in {"off", "done"} => cbFiber'[u] = None
    BY <1>3 DEF LiveInv
  <1>11. mainPc \notin {"built", "starting"} => spawned = Workers
    BY DEF LiveInv
  <1> QED
    BY <1>1, <1>2, <1>4, <1>5, <1>6, <1>7, <1>8, <1>9, <1>10, <1>11 DEF LiveInv

\* BoundInv does not look at the positions of the threads.
LEMMA BoundUnchanged ==
  ASSUME BoundInv, UNCHANGED <<fstate, fcb, cbFiber, job>>,
         Range(tasks) \subseteq Range(tasks')
  PROVE  BoundInv'
  BY DEF BoundInv, Holds

\* addJob puts one entry at the end of tasks_ and moves no other.
LEMMA AddJobExtends ==
  ASSUME TypeOK, NEW e \in Jobs \cup Fibers, tasks' = Append(tasks, e)
  PROVE  Range(tasks) \subseteq Range(tasks') /\ e \in Range(tasks')
  <1>1. /\ Len(tasks') = Len(tasks) + 1
        /\ \A i \in 1 .. Len(tasks) : tasks'[i] = tasks[i]
        /\ tasks'[Len(tasks) + 1] = e
        /\ DOMAIN tasks = 1 .. Len(tasks) /\ DOMAIN tasks' = 1 .. Len(tasks) + 1
        /\ Len(tasks) \in Nat
    BY DEF TypeOK
  <1> QED
    BY <1>1 DEF Range

\* The main thread, in start() and stop(), loses no job.
LEMMA MainJobStep ==
  ASSUME ExclusiveInv, JobInv,
         \/ \E j \in Jobs : MainAdds(j)
         \/ Start
         \/ \E w \in Workers : Spawn(w) \/ PublishId(w)
         \/ StartReturns
         \/ Stop
         \/ StopReturns
  PROVE  JobInv'
  <1> USE RunnersAreThreads, NoneIsNothing
  <1> USE DEF mainVars, queueVars, loopVars, fiberVars
  <1>0. TypeOK /\ OffInv /\ BoundInv /\ LiveInv
    BY DEF ExclusiveInv, JobInv
  <1>1. ASSUME NEW j \in Jobs, MainAdds(j) PROVE JobInv'
    <2>1. BoundInv'
      BY <1>0, <1>1, AddJobExtends, BoundUnchanged DEF MainAdds, AddJob
    <2>2. LiveInv'
      BY <1>0, <1>1 DEF MainAdds, AddJob, LiveInv
    <2> QED
      BY <2>1, <2>2 DEF JobInv
  <1>2. CASE Start
    BY <1>0, <1>2, BoundUnchanged DEF Start, LiveInv, JobInv
  <1>3. ASSUME NEW w \in Workers, Spawn(w) PROVE JobInv'
    <2>1. BoundInv'
      BY <1>0, <1>3, BoundUnchanged DEF Spawn
    <2>2. LiveInv'
      BY <1>0, <1>3, SchedulerAssumption DEF Spawn, LiveInv, OffInv, TypeOK
    <2> QED
      BY <2>1, <2>2 DEF JobInv
  <1>4. ASSUME NEW w \in Workers, PublishId(w) PROVE JobInv'
    BY <1>0, <1>4, BoundUnchanged DEF PublishId, LiveInv, JobInv
  <1>5. CASE StartReturns
    BY <1>0, <1>5, BoundUnchanged DEF StartReturns, LiveInv, JobInv
  <1>6. CASE Stop
    <2>1. BoundInv'
      BY <1>0, <1>6, BoundUnchanged DEF Stop
    <2>2. PICK t \in Threads : Live(t)'
      <3>1. CASE CallerJoin
        BY <1>0, <1>6, <3>1 DEF Stop, Live, Runners, TypeOK
      <3>2. CASE ~CallerJoin
        <4>1. PICK w \in Workers : TRUE
          BY <3>2, SchedulerAssumption
        <4>2. pc[w] \notin {"off", "done"} /\ pc' = pc
          BY <1>0, <1>6, <3>2 DEF Stop, LiveInv
        <4> QED
          BY <4>1, <4>2 DEF Live, Runners
      <3> QED
        BY <3>1, <3>2
    <2>3. LiveInv'
      BY <1>0, <1>6, <2>2, SchedulerAssumption DEF Stop, LiveInv, OffInv, TypeOK
    <2> QED
      BY <2>1, <2>3 DEF JobInv
  <1>7. CASE StopReturns
    <2>1. BoundInv'
      BY <1>0, <1>7, BoundUnchanged DEF StopReturns
    <2>2. \A u \in Threads : ~Live(u)
      BY <1>7 DEF StopReturns, Live
    <2>3. LiveInv'
      BY <1>0, <1>7, <2>2 DEF StopReturns, LiveInv
    <2> QED
      BY <2>1, <2>3 DEF JobInv
  <1> QED
    BY <1>1, <1>2, <1>3, <1>4, <1>5, <1>6, <1>7

\* A thread inside run(), in a job or in the idle fiber loses no job.
LEMMA RunJobStep ==
  ASSUME ExclusiveInv, JobInv, NEW t \in Runners, RunStep(t) \/ IdleTurn(t)
  PROVE  JobInv'
  <1> USE RunnersAreThreads, NoneIsNothing
  <1> USE DEF mainVars, queueVars, loopVars, fiberVars
  <1>0. /\ TypeOK /\ HandInv /\ Exclusive /\ FiberInv /\ StateOf(t)
        /\ BoundInv /\ LiveInv
        /\ t \in Threads
    BY DEF ExclusiveInv, JobInv, FiberInv
  <1>1. CASE TakeJob(t)
    <2>1. LiveInv'
      BY <1>0, <1>1, RunnerStaysLive DEF TakeJob
    <2>2. PICK i \in DOMAIN tasks :
            /\ job' = [job EXCEPT ![t] = tasks[i]]
            /\ \A k \in DOMAIN tasks : k # i => tasks[k] \in Range(tasks')
      BY <1>0, <1>1, TakeJobProps
    <2>3. job[t] = None
      BY <1>0, <1>1 DEF TakeJob, StateOf
    <2>4. ASSUME NEW f \in Fibers
          PROVE  /\ \A u \in Threads : Holds(u, f) => Holds(u, f)'
                 /\ f \in Range(tasks) => f \in Range(tasks') \/ Holds(t, f)'
      <3>1. ASSUME NEW u \in Threads, Holds(u, f) PROVE Holds(u, f)'
        BY <1>0, <1>1, <2>2, <2>3, <3>1 DEF TakeJob, Holds, TypeOK
      <3>2. ASSUME f \in Range(tasks), f \notin Range(tasks') PROVE Holds(t, f)'
        <4>1. PICK k \in DOMAIN tasks : tasks[k] = f
          BY <3>2 DEF Range
        <4>2. k = i
          BY <2>2, <3>2, <4>1
        <4> QED
          BY <1>0, <2>2, <4>1, <4>2 DEF Holds, TypeOK
      <3> QED
        BY <3>1, <3>2
    <2>5. BoundInv'
      BY <1>0, <1>1, <2>4 DEF TakeJob, BoundInv
    <2> QED
      BY <2>1, <2>5 DEF JobInv
  <1>2. CASE CountUp(t)
    BY <1>0, <1>2, RunnerStaysLive, BoundUnchanged DEF CountUp, JobInv
  <1>3. CASE FindNothing(t)
    <2>1. CASE idleFiber[t] = "TERM"
      <3>1. /\ pc[t] = "fetch"
            /\ pc' = [pc EXCEPT ![t] = "done"]
            /\ cbFiber' = [cbFiber EXCEPT ![t] = None]
            /\ fstate' = [f \in Fibers |-> IF f = cbFiber[t] THEN "FREE" ELSE fstate[f]]
            /\ UNCHANGED <<mainVars, tasks, job, idleFiber, fcb>>
        BY <1>3, <2>1 DEF FindNothing
      <3>2. \A i \in DOMAIN tasks : ThreadId(tasks[i]) # -1
        BY <1>3 DEF FindNothing, Runnable
      <3>3. mainPc \notin {"built", "starting", "started", "stopped"}
        BY <1>0, <2>1, <3>1 DEF LiveInv
      <3>4. LiveInv'
        BY <1>0, <3>1, <3>2, <3>3 DEF LiveInv, TypeOK
      <3>5. ASSUME NEW f \in Fibers, fcb'[f] # None
            PROVE  /\ fstate'[f] = fstate[f] /\ f # cbFiber[t]
                   /\ fstate[f] \notin {"FREE", "INIT", "TERM", "ERROR"}
        BY <1>0, <3>1, <3>5 DEF BoundInv, StateOf, Working
      <3>6. BoundInv'
        BY <1>0, <3>1, <3>5 DEF BoundInv, Holds, TypeOK
      <3> QED
        BY <3>4, <3>6 DEF JobInv
    <2>2. CASE idleFiber[t] # "TERM"
      <3>1. /\ pc[t] = "fetch"
            /\ pc' = [pc EXCEPT ![t] = "idle"]
            /\ idleFiber' = [idleFiber EXCEPT ![t] = "RUNNING"]
            /\ UNCHANGED <<mainVars, tasks, job, cbFiber, fcb, fstate>>
        BY <1>3, <2>2 DEF FindNothing
      <3> QED
        BY <1>0, <3>1, RunnerStaysLive, BoundUnchanged DEF JobInv, TypeOK
    <2> QED
      BY <2>1, <2>2
  <1>4. CASE ResumeFiber(t)
    <2>1. /\ pc[t] = "resume"
          /\ job[t] \in Fibers
          /\ cbFiber' = [cbFiber EXCEPT ![t] = job[t]]
          /\ fstate' = [g \in Fibers |-> IF g = job[t] THEN "RUNNING"
                                         ELSE IF g = cbFiber[t] THEN "FREE"
                                         ELSE fstate[g]]
          /\ job' = [job EXCEPT ![t] = None]
          /\ pc' = [pc EXCEPT ![t] = "run"]
          /\ UNCHANGED <<mainVars, tasks, fcb, idleFiber>>
      BY <1>4, ResumeFiberProps
    <2>2. LiveInv'
      BY <1>0, <2>1, RunnerStaysLive DEF TypeOK
    <2>3. ASSUME NEW f \in Fibers, fcb[f] # None, f # job[t]
          PROVE  fstate'[f] = fstate[f] /\ f # cbFiber[t]
      BY <1>0, <2>1, <2>3 DEF BoundInv, StateOf, Working
    <2>4. \A f \in Fibers, u \in Threads : Holds(u, f) /\ f # cbFiber[t] => Holds(u, f)'
      BY <1>0, <2>1 DEF Holds, TypeOK
    <2>5. ASSUME NEW f \in Fibers
          PROVE  /\ fstate'[f] \in {"FREE", "INIT", "TERM", "ERROR"} => fcb[f] = None
                 /\ fcb[f] # None => \/ fstate'[f] = "SUSPENDED"
                                     \/ \E u \in Threads : Holds(u, f)'
                                     \/ f \in Range(tasks)
      <3>1. CASE f = job[t]
        BY <1>0, <2>1, <3>1 DEF Holds, TypeOK
      <3>2. CASE f # job[t] /\ fcb[f] # None
        BY <1>0, <2>3, <2>4, <3>2 DEF BoundInv
      <3> QED
        BY <3>1, <3>2
    <2>6. BoundInv'
      BY <2>1, <2>5 DEF BoundInv
    <2> QED
      BY <2>2, <2>6 DEF JobInv
  <1>5. CASE ResetAndResume(t)
    <2>1. /\ pc[t] = "resume"
          /\ cbFiber[t] \in Fibers
          /\ cbFiber' = cbFiber
          /\ fstate' = [fstate EXCEPT ![cbFiber[t]] = "RUNNING"]
          /\ fcb' = [fcb EXCEPT ![cbFiber[t]] = job[t]]
          /\ job[t] \in Jobs
          /\ job' = [job EXCEPT ![t] = None]
          /\ pc' = [pc EXCEPT ![t] = "run"]
          /\ UNCHANGED <<mainVars, tasks, idleFiber>>
      BY <1>5, ResetAndResumeProps
    <2>2. LiveInv'
      BY <1>0, <2>1, RunnerStaysLive DEF TypeOK
    <2>3. \A f \in Fibers, u \in Threads : Holds(u, f) => Holds(u, f)'
      BY <1>0, <2>1, SchedulerAssumption DEF Holds, TypeOK
    <2>4. BoundInv'
      BY <1>0, <2>1, <2>3 DEF BoundInv, Holds, TypeOK
    <2> QED
      BY <2>2, <2>4 DEF JobInv
  <1>6. CASE NewAndResume(t)
    <2>1. /\ pc[t] = "resume"
          /\ cbFiber[t] = None
          /\ job[t] \in Jobs
          /\ job' = [job EXCEPT ![t] = None]
          /\ pc' = [pc EXCEPT ![t] = "run"]
          /\ UNCHANGED <<mainVars, tasks, idleFiber>>
      BY <1>6, NewAndResumeProps
    <2>2. PICK f \in Fibers :
            /\ fstate[f] = "FREE"
            /\ cbFiber' = [cbFiber EXCEPT ![t] = f]
            /\ fstate' = [fstate EXCEPT ![f] = "RUNNING"]
            /\ fcb' = [fcb EXCEPT ![f] = job[t]]
      BY <1>6, NewAndResumeProps
    <2>3. LiveInv'
      BY <1>0, <2>1, <2>2, RunnerStaysLive DEF TypeOK
    <2>4. \A g \in Fibers, u \in Threads : Holds(u, g) => Holds(u, g)'
      BY <1>0, <2>1, <2>2, SchedulerAssumption DEF Holds, TypeOK
    <2>5. BoundInv'
      BY <1>0, <2>1, <2>2, <2>4 DEF BoundInv, Holds, TypeOK
    <2> QED
      BY <2>3, <2>5 DEF JobInv
  <1>7. ASSUME NEW j \in Jobs, JobAdds(t, j) PROVE JobInv'
    <2>1. pc' = [pc EXCEPT ![t] = "run"] /\ pc[t] = "run"
      BY <1>0, <1>7 DEF JobAdds, TypeOK
    <2>2. LiveInv'
      BY <1>0, <1>7, <2>1, RunnerStaysLive DEF JobAdds
    <2>3. BoundInv'
      BY <1>0, <1>7, AddJobExtends, BoundUnchanged DEF JobAdds, AddJob
    <2> QED
      BY <2>2, <2>3 DEF JobInv
  <1>8. ASSUME NEW state \in {"READY", "SUSPENDED"}, Yield(t, state) PROVE JobInv'
    <2>1. LiveInv'
      BY <1>0, <1>8, RunnerStaysLive DEF Yield
    <2>2. cbFiber[t] \in Fibers
      BY <1>0, <1>8 DEF Yield, HandInv, TypeOK, Working
    <2>3. BoundInv'
      BY <1>0, <1>8, <2>2 DEF Yield, BoundInv, Holds, TypeOK
    <2> QED
      BY <2>1, <2>3 DEF JobInv
  <1>9. CASE JobEnds(t)
    <2>1. LiveInv'
      BY <1>0, <1>9, RunnerStaysLive DEF JobEnds
    <2>2. BoundInv'
      BY <1>0, <1>9 DEF JobEnds, BoundInv, Holds, TypeOK
    <2> QED
      BY <2>1, <2>2 DEF JobInv
  <1>10. CASE SwitchBack(t) \/ CountDownLoad(t) \/ CountDownStore(t)
    BY <1>0, <1>10, RunnerStaysLive, BoundUnchanged
    DEF SwitchBack, CountDownLoad, CountDownStore, JobInv
  <1>11. CASE DispatchReady(t)
    <2>1. /\ pc[t] = "dispatch" /\ cbFiber[t] \in Fibers
          /\ tasks' = Append(tasks, cbFiber[t])
          /\ cbFiber' = [cbFiber EXCEPT ![t] = None]
          /\ pc' = [pc EXCEPT ![t] = "fetch"]
          /\ UNCHANGED <<mainVars, job, idleFiber, fstate, fcb>>
      BY <1>0, <1>11 DEF DispatchReady, Readd, HandInv, TypeOK, Working
    <2>2. LiveInv'
      BY <1>0, <2>1, RunnerStaysLive DEF TypeOK
    <2>3. Range(tasks) \subseteq Range(tasks') /\ cbFiber[t] \in Range(tasks')
      BY <1>0, <2>1, AddJobExtends
    <2>4. \A f \in Fibers, u \in Threads :
            Holds(u, f) => Holds(u, f)' \/ f = cbFiber[t]
      BY <1>0, <2>1 DEF Holds, TypeOK
    <2>5. BoundInv'
      BY <1>0, <2>1, <2>3, <2>4 DEF BoundInv
    <2> QED
      BY <2>2, <2>5 DEF JobInv
  <1>12. CASE DispatchEnded(t)
    <2>1. LiveInv'
      BY <1>0, <1>12, RunnerStaysLive DEF DispatchEnded
    <2>2. BoundInv'
      BY <1>0, <1>12 DEF DispatchEnded, BoundInv, Holds, TypeOK
    <2> QED
      BY <2>1, <2>2 DEF JobInv
  <1>13. CASE DispatchSuspended(t)
    <2>1. /\ pc[t] = "dispatch" /\ cbFiber[t] \in Fibers
          /\ fstate[cbFiber[t]] = "SUSPENDED"
          /\ fstate' = fstate
          /\ cbFiber' = [cbFiber EXCEPT ![t] = None]
          /\ pc' = [pc EXCEPT ![t] = "fetch"]
          /\ UNCHANGED <<mainVars, tasks, job, idleFiber, fcb>>
      BY <1>0, <1>13 DEF DispatchSuspended, HandInv, TypeOK, Working, StateOf
    <2>2. LiveInv'
      BY <1>0, <2>1, RunnerStaysLive DEF TypeOK
    <2>3. \A f \in Fibers, u \in Threads :
            Holds(u, f) => Holds(u, f)' \/ f = cbFiber[t]
      BY <1>0, <2>1 DEF Holds, TypeOK
    <2>4. BoundInv'
      BY <1>0, <2>1, <2>3 DEF BoundInv
    <2> QED
      BY <2>2, <2>4 DEF JobInv
  <1>14. CASE IdleTurn(t)
    <2>1. /\ pc[t] = "idle"
          /\ pc' = [pc EXCEPT ![t] = "fetch"]
          /\ UNCHANGED <<mainVars, tasks, job, cbFiber, fcb, fstate>>
          /\ \A u \in Threads : idleFiber'[u] = "TERM" => idleFiber[u] = "TERM" \/ isStop
      BY <1>0, <1>14 DEF IdleTurn, IsStop, TypeOK
    <2> QED
      BY <1>0, <2>1, RunnerStaysLive, BoundUnchanged DEF JobInv
  <1> QED
    BY <1>1, <1>2, <1>3, <1>4, <1>5, <1>6, <1>7, <1>8, <1>9, <1>10, <1>11, <1>12,
       <1>13, <1>14
    DEF RunStep, YieldToReady, YieldToSuspended

\* Every step of the scheduler keeps JobInv.
LEMMA JobStep ==
  ASSUME ExclusiveInv, JobInv, [Next]_vars
  PROVE  JobInv'
  <1>1. CASE UNCHANGED vars
    BY <1>1 DEF vars, mainVars, queueVars, loopVars, fiberVars, JobInv, BoundInv,
       LiveInv, Holds, Live
  <1>2. CASE Next
    BY <1>1, <1>2, NextCases, MainJobStep, RunJobStep
  <1> QED
    BY <1>1, <1>2

\* The inductive invariant behind NothingLeftBehind.
LEMMA JobInvariant == Spec => [](ExclusiveInv /\ JobInv)
  <1>1. Init => JobInv
    BY InitJob
  <1>2. ExclusiveInv /\ JobInv /\ [Next]_vars => JobInv'
    BY JobStep
  <1> QED
    BY <1>1, <1>2, ExclusiveInvariant, PTL DEF Spec

\* Once every thread has left run(), nobody and nothing that is queued has a
\* fiber, and an unpinned job has ended or is suspended.
LEMMA NothingLeft ==
  ASSUME ExclusiveInv, JobInv, mainPc \in {"stopping", "stopped"},
         \A t \in Runners : pc[t] = "done"
  PROVE  /\ InHand = {}
         /\ \A j \in added \cap Unpinned : Status(j) \in {"parked", "ended"}
  <1>0. TypeOK /\ FiberInv /\ BoundInv /\ LiveInv
    BY DEF ExclusiveInv, JobInv
  <1>1. \A t \in Threads : pc[t] \in {"off", "done"}
    BY <1>0 DEF LiveInv, Threads, Runners
  <1>2. \A t \in Threads : cbFiber[t] = None /\ job[t] = None
    BY <1>0, <1>1 DEF LiveInv, FiberInv, StateOf
  <1>3. \A i \in DOMAIN tasks : ThreadId(tasks[i]) # -1
    BY <1>0, <1>1 DEF LiveInv, Live
  <1>4. /\ Range(tasks) \cap Fibers = {}
        /\ Waiting = Range(tasks) \ {None}
        /\ InHand = {}
    <2>1. Range(tasks) \cap Fibers = {}
      BY <1>3, SchedulerAssumption DEF Range, ThreadId
    <2> QED
      BY <1>2, <2>1, NoneIsNothing DEF Waiting, InHand
  <1>5. ASSUME NEW j \in added \cap Unpinned
        PROVE  Status(j) \in {"parked", "ended"}
    <2>1. j \notin Waiting
      BY <1>0, <1>3, <1>4 DEF TypeOK, Unpinned, Range, ThreadId
    <2>2. ASSUME HasFiber(j, Fibers)
          PROVE  HasFiber(j, {f \in Fibers : fstate[f] = "SUSPENDED"})
      <3>1. PICK f \in Fibers : fcb[f] = j
        BY <2>2 DEF HasFiber
      <3>2. fcb[f] # None
        BY <1>0, <3>1, NoneIsNothing DEF TypeOK
      <3>3. ~\E t \in Threads : Holds(t, f)
        BY <1>2, NoneIsNothing DEF Holds
      <3>4. f \notin Range(tasks)
        BY <1>4
      <3>5. fstate[f] = "SUSPENDED"
        BY <1>0, <3>2, <3>3, <3>4 DEF BoundInv
      <3> QED
        BY <3>1, <3>5 DEF HasFiber
    <2> QED
      BY <1>4, <2>1, <2>2 DEF Status, HasFiber
  <1> QED
    BY <1>4, <1>5

\* When stop() has returned, every unpinned job that was added has ended or is
\* suspended, although isStop() reads a counter that may be wrong.
THEOREM NothingLeftBehind == Spec => []NoJobLeftBehind
  <1>1. ASSUME ExclusiveInv, JobInv PROVE NoJobLeftBehind
    BY <1>1, NothingLeft DEF NoJobLeftBehind, JobInv, LiveInv
  <1> QED
    BY <1>1, JobInvariant, PTL

-----------------------------------------------------------------------------
(* A callable is in one place at a time *)

OneCopy(j) ==
  /\ \A i, k \in DOMAIN tasks : tasks[i] = j /\ tasks[k] = j => i = k
  /\ \A t, u \in Threads : job[t] = j /\ job[u] = j => t = u
  /\ \A f, g \in Fibers : fcb[f] = j /\ fcb[g] = j => f = g
  /\ \A t \in Threads : job[t] = j => j \notin Range(tasks)
  /\ \A f \in Fibers : fcb[f] = j => j \notin Waiting
  /\ j \notin added => j \notin Waiting /\ ~HasFiber(j, Fibers)

OnceInv == \A j \in Jobs : OneCopy(j)

PoolInv == ExclusiveInv /\ JobInv /\ OnceInv

\* A step that leaves the places alone.
LEMMA OnceUnchanged ==
  ASSUME OnceInv, UNCHANGED <<tasks, job, fcb, added>>
  PROVE  OnceInv'
  BY DEF OnceInv, OneCopy, Waiting, HasFiber

\* addJob queues a callable that was nowhere, by the client or by another job.
LEMMA AddJobOnce ==
  ASSUME PoolInv, NEW j \in Jobs, AddJob(j), UNCHANGED <<job, fcb>>
  PROVE  OnceInv'
  <1>1. TypeOK /\ OnceInv
    BY DEF PoolInv, ExclusiveInv
  <1>2. /\ j \notin added /\ added' = added \cup {j}
        /\ tasks' = Append(tasks, j)
    BY DEF AddJob
  <1>3. /\ DOMAIN tasks' = 1 .. Len(tasks) + 1 /\ DOMAIN tasks = 1 .. Len(tasks)
        /\ \A i \in DOMAIN tasks : tasks'[i] = tasks[i]
        /\ tasks'[Len(tasks) + 1] = j
        /\ Len(tasks) \in Nat
    BY <1>1, <1>2 DEF TypeOK
  <1>4. Range(tasks') = Range(tasks) \cup {j}
    BY <1>3 DEF Range
  <1>5. j \notin Waiting /\ ~HasFiber(j, Fibers)
    BY <1>1, <1>2 DEF OnceInv, OneCopy
  <1>6. Waiting' = Waiting \cup {j}
    BY <1>4, NoneIsNothing DEF Waiting
  <1>7. j \notin Range(tasks) /\ \A t \in Threads : job[t] # j
    BY <1>5, NoneIsNothing DEF Waiting
  <1>8. ASSUME NEW b \in Jobs PROVE OneCopy(b)'
    <2>1. OneCopy(b)
      BY <1>1 DEF OnceInv
    <2>2. \A i, k \in DOMAIN tasks' : tasks'[i] = b /\ tasks'[k] = b => i = k
      BY <1>3, <1>7, <2>1 DEF OneCopy, Range
    <2>3. \A t \in Threads : job[t] = b => b \notin Range(tasks')
      BY <1>4, <1>7, <2>1 DEF OneCopy
    <2>4. \A f \in Fibers : fcb[f] = b => b \notin Waiting'
      BY <1>5, <1>6, <2>1 DEF OneCopy, HasFiber
    <2>5. b \notin added' => b \notin Waiting' /\ ~HasFiber(b, Fibers)'
      BY <1>2, <1>6, <2>1 DEF OneCopy, HasFiber
    <2> QED
      BY <2>1, <2>2, <2>3, <2>4, <2>5 DEF OneCopy
  <1> QED
    BY <1>8 DEF OnceInv

\* TakeJob moves one entry from tasks_ into the hand of the thread.
LEMMA TakeJobWaiting ==
  ASSUME TypeOK, FiberInv, NEW t \in Threads, TakeJob(t)
  PROVE  Waiting' = Waiting
  <1>1. PICK i \in DOMAIN tasks :
          /\ job' = [job EXCEPT ![t] = tasks[i]]
          /\ \A k \in DOMAIN tasks' :
               \E m \in DOMAIN tasks \ {i} : tasks'[k] = tasks[m]
          /\ \A k \in DOMAIN tasks : k # i => tasks[k] \in Range(tasks')
    BY TakeJobProps
  <1>2. job[t] = None
    BY DEF TakeJob, FiberInv, StateOf
  <1>3. Range(tasks') \subseteq Range(tasks)
    BY <1>1 DEF Range
  <1>4. Range(tasks) \subseteq Range(tasks') \cup {tasks[i]}
    BY <1>1 DEF Range
  <1>5. {job'[u] : u \in Threads} = {job[u] : u \in Threads \ {t}} \cup {tasks[i]}
    BY <1>1 DEF TypeOK
  <1>6. tasks[i] \in Range(tasks)
    BY DEF Range
  <1>7. {job[u] : u \in Threads} = {job[u] : u \in Threads \ {t}} \cup {None}
    BY <1>2
  <1> QED
    BY <1>3, <1>4, <1>5, <1>6, <1>7 DEF Waiting

LEMMA TakeJobOnce ==
  ASSUME PoolInv, NEW t \in Threads, TakeJob(t)
  PROVE  OnceInv'
  <1>0. TypeOK /\ FiberInv /\ OnceInv
    BY DEF PoolInv, ExclusiveInv
  <1>1. PICK i \in DOMAIN tasks :
          /\ job' = [job EXCEPT ![t] = tasks[i]]
          /\ \A k \in DOMAIN tasks' :
               \E m \in DOMAIN tasks \ {i} : tasks'[k] = tasks[m]
          /\ \A k, l \in DOMAIN tasks' : \E m, n \in DOMAIN tasks \ {i} :
               /\ tasks'[k] = tasks[m] /\ tasks'[l] = tasks[n]
               /\ m = n => k = l
    BY <1>0, TakeJobProps
  <1>2. Waiting' = Waiting
    BY <1>0, TakeJobWaiting
  <1>3. UNCHANGED <<fcb, added>>
    BY DEF TakeJob, fiberVars
  <1>4. ASSUME NEW b \in Jobs PROVE OneCopy(b)'
    <2>1. OneCopy(b)
      BY <1>0 DEF OnceInv
    <2>2. \A k, l \in DOMAIN tasks' : tasks'[k] = b /\ tasks'[l] = b => k = l
      BY <1>1, <2>1 DEF OneCopy
    <2>3. Range(tasks') \subseteq Range(tasks)
      BY <1>1 DEF Range
    <2>4. \A u \in Threads : job'[u] = IF u = t THEN tasks[i] ELSE job[u]
      BY <1>0, <1>1 DEF TypeOK
    <2>5. \A u, v \in Threads : job'[u] = b /\ job'[v] = b => u = v
      BY <2>1, <2>4 DEF OneCopy, Range
    <2>6. tasks[i] = b => b \notin Range(tasks')
      BY <1>1, <2>1 DEF OneCopy, Range
    <2>7. \A u \in Threads : job'[u] = b => b \notin Range(tasks')
      BY <2>1, <2>3, <2>4, <2>6 DEF OneCopy
    <2> QED
      BY <1>2, <1>3, <2>1, <2>2, <2>5, <2>7 DEF OneCopy, HasFiber
  <1> QED
    BY <1>4 DEF OnceInv

\* A callable goes from the hand of run() into the fiber f, which had none.
LEMMA BindOnce ==
  ASSUME PoolInv, NEW t \in Threads, NEW f \in Fibers, fcb[f] = None,
         job[t] \in Jobs, fcb' = [fcb EXCEPT ![f] = job[t]],
         job' = [job EXCEPT ![t] = None], UNCHANGED <<tasks, added>>
  PROVE  OnceInv'
  <1>0. TypeOK /\ OnceInv
    BY DEF PoolInv, ExclusiveInv
  <1>1. job[t] \in Waiting
    BY NoneIsNothing DEF Waiting
  <1>2. \A u \in Threads : job'[u] = IF u = t THEN None ELSE job[u]
    BY <1>0 DEF TypeOK
  <1>3. Waiting' \subseteq Waiting
    BY <1>2 DEF Waiting
  <1>4. \A g \in Fibers : fcb'[g] = IF g = f THEN job[t] ELSE fcb[g]
    BY <1>0 DEF TypeOK
  <1>5. ASSUME NEW b \in Jobs PROVE OneCopy(b)'
    <2>1. OneCopy(b) /\ b # None
      BY <1>0, NoneIsNothing DEF OnceInv
    <2>2. job[t] = b => b \notin Waiting'
      BY <1>2, <2>1 DEF OneCopy, Waiting
    <2>3. \A g, h \in Fibers : fcb'[g] = b /\ fcb'[h] = b => g = h
      BY <1>1, <1>4, <2>1 DEF OneCopy
    <2>4. \A g \in Fibers : fcb'[g] = b => b \notin Waiting'
      BY <1>3, <1>4, <2>1, <2>2 DEF OneCopy
    <2>5. b \notin added => b \notin Waiting' /\ ~HasFiber(b, Fibers)'
      BY <1>1, <1>3, <1>4, <2>1 DEF OneCopy, HasFiber
    <2>6. \A u, v \in Threads : job'[u] = b /\ job'[v] = b => u = v
      BY <1>2, <2>1 DEF OneCopy
    <2>7. \A u \in Threads : job'[u] = b => b \notin Range(tasks)
      BY <1>2, <2>1 DEF OneCopy
    <2> QED
      BY <2>1, <2>3, <2>4, <2>5, <2>6, <2>7 DEF OneCopy
  <1> QED
    BY <1>5 DEF OnceInv

\* A thread that lets go of a fiber, or whose fiber loses its callable, puts no
\* callable anywhere.
LEMMA OnceShrinks ==
  ASSUME PoolInv, added' = added,
         \A f \in Fibers : fcb'[f] \in {fcb[f], None},
         \A u \in Threads : job'[u] = job[u] \/ job'[u] \notin Jobs,
         \A i, k \in DOMAIN tasks' : tasks'[i] = tasks'[k] /\ tasks'[i] \in Jobs
            => i \in DOMAIN tasks /\ k \in DOMAIN tasks /\ tasks[i] = tasks[k],
         \A i \in DOMAIN tasks' : tasks'[i] \in Jobs => i \in DOMAIN tasks /\ tasks[i] = tasks'[i]
  PROVE  OnceInv'
  <1>1. OnceInv
    BY DEF PoolInv
  <1>2. ASSUME NEW b \in Jobs PROVE OneCopy(b)'
    <2>1. OneCopy(b) /\ b # None
      BY <1>1, NoneIsNothing DEF OnceInv
    <2>2. b \in Range(tasks') => b \in Range(tasks)
      BY DEF Range
    <2>3. b \in Waiting' => b \in Waiting
      BY <2>1, <2>2 DEF Waiting
    <2>4. \A i, k \in DOMAIN tasks' : tasks'[i] = b /\ tasks'[k] = b => i = k
      BY <2>1 DEF OneCopy
    <2>5. \A u, v \in Threads : job'[u] = b /\ job'[v] = b => u = v
      BY <2>1 DEF OneCopy
    <2>6. \A u \in Threads : job'[u] = b => b \notin Range(tasks')
      BY <2>1, <2>2 DEF OneCopy
    <2>7. \A f \in Fibers : fcb'[f] = b => fcb[f] = b
      BY <2>1
    <2> QED
      BY <2>1, <2>3, <2>4, <2>5, <2>6, <2>7 DEF OneCopy, HasFiber
  <1> QED
    BY <1>2 DEF OnceInv

\* DispatchReady, with the queue seen as a function.
LEMMA DispatchReadyProps ==
  ASSUME PoolInv, NEW t \in Threads, DispatchReady(t)
  PROVE  /\ pc[t] = "dispatch" /\ cbFiber[t] \in Fibers
         /\ tasks \in Seq(Jobs \cup Fibers)
         /\ tasks' = Append(tasks, cbFiber[t])
         /\ Range(tasks') = Range(tasks) \cup {cbFiber[t]}
         /\ cbFiber' = [cbFiber EXCEPT ![t] = None]
         /\ UNCHANGED <<added, job, fcb>>
  <1>0. TypeOK /\ HandInv
    BY DEF PoolInv, ExclusiveInv
  <1>1. /\ pc[t] = "dispatch" /\ cbFiber[t] \in Fibers
        /\ tasks \in Seq(Jobs \cup Fibers)
        /\ tasks' = Append(tasks, cbFiber[t])
        /\ cbFiber' = [cbFiber EXCEPT ![t] = None]
        /\ UNCHANGED <<added, job, fcb>>
    BY <1>0 DEF DispatchReady, Readd, HandInv, TypeOK, Working, fiberVars
  <1>2. /\ DOMAIN tasks' = 1 .. Len(tasks) + 1 /\ DOMAIN tasks = 1 .. Len(tasks)
        /\ \A i \in DOMAIN tasks : tasks'[i] = tasks[i]
        /\ tasks'[Len(tasks) + 1] = cbFiber[t]
        /\ Len(tasks) \in Nat
    BY <1>1
  <1>3. Range(tasks') = Range(tasks) \cup {cbFiber[t]}
    BY <1>2 DEF Range
  <1> QED
    BY <1>1, <1>3

\* A callable stays in one place whatever a thread in run() does.
LEMMA RunOnceStep ==
  ASSUME PoolInv, NEW t \in Runners, RunStep(t) \/ IdleTurn(t)
  PROVE  OnceInv'
  <1> USE RunnersAreThreads, NoneIsNothing
  <1> USE DEF queueVars, loopVars, fiberVars
  <1>0. /\ ExclusiveInv /\ JobInv /\ OnceInv
        /\ TypeOK /\ FiberInv /\ StateOf(t) /\ BoundInv /\ t \in Threads
    BY DEF PoolInv, ExclusiveInv, FiberInv, JobInv
  <1>1. CASE TakeJob(t)
    BY <1>1, TakeJobOnce
  <1>2. CASE CountUp(t) \/ SwitchBack(t) \/ CountDownLoad(t) \/ CountDownStore(t) \/ IdleTurn(t)
    BY <1>0, <1>2, OnceUnchanged
    DEF CountUp, SwitchBack, CountDownLoad, CountDownStore, IdleTurn
  <1>3. CASE FindNothing(t)
    BY <1>0, <1>3, OnceUnchanged DEF FindNothing
  <1>4. CASE ResumeFiber(t)
    <2>1. /\ UNCHANGED <<tasks, added, fcb>>
          /\ job' = [job EXCEPT ![t] = None]
      BY <1>0, <1>4, ResumeFiberProps
    <2>2. \A u \in Threads : job'[u] = job[u] \/ job'[u] \notin Jobs
      BY <1>0, <2>1 DEF TypeOK
    <2> QED
      BY <2>1, <2>2, OnceShrinks
  <1>5. CASE ResetAndResume(t)
    <2>1. /\ cbFiber[t] \in Fibers /\ fstate[cbFiber[t]] = "INIT"
          /\ job[t] \in Jobs
          /\ fcb' = [fcb EXCEPT ![cbFiber[t]] = job[t]]
          /\ job' = [job EXCEPT ![t] = None]
          /\ UNCHANGED <<tasks, added>>
      BY <1>0, <1>5, ResetAndResumeProps
    <2>2. fcb[cbFiber[t]] = None
      BY <1>0, <2>1 DEF BoundInv
    <2> QED
      BY <1>0, <2>1, <2>2, BindOnce
  <1>6. CASE NewAndResume(t)
    <2>1. /\ job[t] \in Jobs
          /\ \E f \in Fibers : fstate[f] = "FREE" /\ fcb' = [fcb EXCEPT ![f] = job[t]]
          /\ job' = [job EXCEPT ![t] = None]
          /\ UNCHANGED <<tasks, added>>
      BY <1>0, <1>6, NewAndResumeProps
    <2>2. PICK f \in Fibers : fstate[f] = "FREE" /\ fcb' = [fcb EXCEPT ![f] = job[t]]
      BY <2>1
    <2>3. fcb[f] = None
      BY <1>0, <2>2 DEF BoundInv
    <2> QED
      BY <1>0, <2>1, <2>2, <2>3, BindOnce
  <1>7. ASSUME NEW j \in Jobs, JobAdds(t, j) PROVE OnceInv'
    BY <1>7, AddJobOnce DEF JobAdds
  <1>8. ASSUME NEW state, Yield(t, state) PROVE OnceInv'
    BY <1>0, <1>8, OnceUnchanged DEF Yield
  <1>9. CASE JobEnds(t) \/ DispatchEnded(t)
    <2>1. /\ UNCHANGED <<tasks, job, added>>
          /\ fcb' = [fcb EXCEPT ![cbFiber[t]] = None]
      BY <1>9 DEF JobEnds, DispatchEnded
    <2>2. \A f \in Fibers : fcb'[f] \in {fcb[f], None}
      BY <1>0, <2>1 DEF TypeOK
    <2> QED
      BY <2>1, <2>2, OnceShrinks
  <1>10. CASE DispatchReady(t)
    <2>1. /\ cbFiber[t] \in Fibers /\ tasks \in Seq(Jobs \cup Fibers)
          /\ tasks' = Append(tasks, cbFiber[t])
          /\ UNCHANGED <<job, added, fcb>>
      BY <1>10, <1>0, DispatchReadyProps
    <2>2. cbFiber[t] \notin Jobs
      BY <2>1, SchedulerAssumption
    <2>3. \A i \in DOMAIN tasks' : tasks'[i] \in Jobs => i \in DOMAIN tasks /\ tasks[i] = tasks'[i]
      BY <2>1, <2>2
    <2> QED
      BY <2>1, <2>3, OnceShrinks
  <1>11. CASE DispatchSuspended(t)
    BY <1>0, <1>11, OnceUnchanged DEF DispatchSuspended
  <1> QED
    BY <1>1, <1>2, <1>3, <1>4, <1>5, <1>6, <1>7, <1>8, <1>9, <1>10, <1>11
    DEF RunStep, YieldToReady, YieldToSuspended

\* The inductive invariant behind the refinement.
LEMMA PoolInvariant == Spec => []PoolInv
  <1>1. Init => OnceInv
    <2> SUFFICES ASSUME Init PROVE OnceInv
      OBVIOUS
    <2>1. Waiting = {} /\ \A f \in Fibers : fcb[f] = None
      BY DEF Init, Waiting, Range
    <2> QED
      BY <2>1, NoneIsNothing DEF Init, OnceInv, OneCopy, HasFiber, Range
  <1>2. PoolInv /\ [Next]_vars => OnceInv'
    <2> SUFFICES ASSUME PoolInv, [Next]_vars PROVE OnceInv'
      OBVIOUS
    <2> USE DEF queueVars, loopVars, fiberVars
    <2>0. OnceInv
      BY DEF PoolInv
    <2>1. CASE UNCHANGED vars
      BY <2>0, <2>1, OnceUnchanged DEF vars
    <2>2. ASSUME NEW j \in Jobs, MainAdds(j) PROVE OnceInv'
      BY <2>2, AddJobOnce DEF MainAdds
    <2>3. CASE Start \/ StartReturns \/ Stop \/ StopReturns
      BY <2>0, <2>3, OnceUnchanged DEF Start, StartReturns, Stop, StopReturns
    <2>4. ASSUME NEW w \in Workers, Spawn(w) \/ PublishId(w) PROVE OnceInv'
      BY <2>0, <2>4, OnceUnchanged DEF Spawn, PublishId
    <2> QED
      BY <2>1, <2>2, <2>3, <2>4, NextCases, RunOnceStep
  <1>3. PoolInv /\ ExclusiveInv' /\ JobInv' /\ OnceInv' => PoolInv'
    BY DEF PoolInv
  <1>4. ExclusiveInv /\ JobInv /\ OnceInv => PoolInv
    BY DEF PoolInv
  <1> QED
    BY <1>1, <1>2, <1>3, <1>4, JobInvariant, PTL DEF Spec

-----------------------------------------------------------------------------
(* The status of a job follows from its one place *)

\* What Status says, read off the place of the job: none is ever "lost".
StatusFacts ==
  \A j \in Jobs :
    /\ j \notin added => Status(j) = "new"
    /\ j \in Waiting => j \in added /\ Status(j) = "waiting"
    /\ \A f \in Fibers : fcb[f] = j =>
         /\ j \in added
         /\ f \in Waiting => Status(j) = "waiting"
         /\ f \in InHand => f \notin Waiting /\ Status(j) = "running"
         /\ f \notin Waiting \cup InHand => Status(j) = "parked"
    /\ j \in added \ Waiting /\ ~HasFiber(j, Fibers) => Status(j) = "ended"
    /\ Status(j) = "running" => \E f \in InHand : fcb[f] = j

LEMMA StatusByPlace == PoolInv => StatusFacts
  <1> SUFFICES ASSUME PoolInv, NEW j \in Jobs
               PROVE  /\ j \notin added => Status(j) = "new"
                      /\ j \in Waiting => j \in added /\ Status(j) = "waiting"
                      /\ \A f \in Fibers : fcb[f] = j =>
                           /\ j \in added
                           /\ f \in Waiting => Status(j) = "waiting"
                           /\ f \in InHand => f \notin Waiting /\ Status(j) = "running"
                           /\ f \notin Waiting \cup InHand => Status(j) = "parked"
                      /\ j \in added \ Waiting /\ ~HasFiber(j, Fibers) => Status(j) = "ended"
                      /\ Status(j) = "running" => \E f \in InHand : fcb[f] = j
    BY DEF StatusFacts
  <1>0. OneCopy(j) /\ Exclusive /\ BoundInv /\ TypeOK
    BY DEF PoolInv, OnceInv, ExclusiveInv, JobInv
  <1>1. j # None /\ j \notin Fibers
    BY NoneIsNothing, SchedulerAssumption
  <1>2. \A f \in Fibers : f \in InHand => f \notin Waiting
    <2> SUFFICES ASSUME NEW f \in Fibers, NEW t \in Threads, cbFiber[t] = f
                 PROVE  f \notin Waiting
      BY DEF InHand
    <2>1. f \notin Range(tasks)
      BY <1>0 DEF Exclusive, Holds
    <2>2. \A u \in Threads : job[u] # f
      BY <1>0 DEF Exclusive, Holds
    <2> QED
      BY <2>1, <2>2 DEF Waiting
  <1>3. ASSUME NEW f \in Fibers, fcb[f] = j
        PROVE  /\ j \in added
               /\ f \in Waiting => Status(j) = "waiting"
               /\ f \in InHand => Status(j) = "running"
               /\ f \notin Waiting \cup InHand => Status(j) = "parked"
    <2>1. j \in added /\ j \notin Waiting
      BY <1>0, <1>3 DEF OneCopy, HasFiber
    <2>2. \A where \in SUBSET Fibers : HasFiber(j, where) <=> f \in where
      BY <1>0, <1>3 DEF OneCopy, HasFiber
    <2>3. InHand \in SUBSET Fibers
      BY DEF InHand
    <2>4. f \notin Waiting \cup InHand => fstate[f] = "SUSPENDED"
      <3> SUFFICES ASSUME f \notin Waiting, f \notin InHand PROVE fstate[f] = "SUSPENDED"
        OBVIOUS
      <3>1. f # None
        BY NoneIsNothing
      <3>2. f \notin Range(tasks) /\ \A t \in Threads : job[t] # f
        BY <3>1 DEF Waiting
      <3>3. \A t \in Threads : cbFiber[t] # f
        BY DEF InHand
      <3> QED
        BY <1>0, <1>1, <1>3, <3>2, <3>3 DEF BoundInv, Holds
    <2>5. f \in Waiting => HasFiber(j, Waiting \cap Fibers)
      BY <2>2
    <2>6. f \notin Waiting => ~HasFiber(j, Waiting \cap Fibers)
      BY <2>2
    <2>7. fstate[f] = "SUSPENDED" => HasFiber(j, {g \in Fibers : fstate[g] = "SUSPENDED"})
      BY <2>2
    <2>8. HasFiber(j, InHand) <=> f \in InHand
      BY <2>2, <2>3
    <2> QED
      BY <1>2, <2>1, <2>4, <2>5, <2>6, <2>7, <2>8 DEF Status
  <1>4. j \in Waiting => j \in added
    BY <1>0 DEF OneCopy
  <1>5. ASSUME ~HasFiber(j, Fibers)
        PROVE  \A where \in SUBSET Fibers : ~HasFiber(j, where)
    BY <1>5 DEF HasFiber
  <1>6. j \in added \ Waiting /\ ~HasFiber(j, Fibers) => Status(j) = "ended"
    <2>1. InHand \in SUBSET Fibers /\ Waiting \cap Fibers \in SUBSET Fibers
      BY DEF InHand
    <2> QED
      BY <1>5, <2>1 DEF Status
  <1>7. Status(j) = "running" => \E f \in InHand : fcb[f] = j
    BY DEF Status, HasFiber
  <1> QED
    BY <1>2, <1>3, <1>4, <1>6, <1>7 DEF Status

\* The same in the state after a step.
LEMMA StatusByPlaceNext == PoolInv' => StatusFacts'
  BY StatusByPlace, PTL

\* Every job has exactly one of the places.
LEMMA StatusCases ==
  ASSUME PoolInv, NEW j \in Jobs
  PROVE  Status(j) \in {"new", "waiting", "running", "parked", "ended"}
  <1>1. StatusFacts
    BY StatusByPlace
  <1>2. CASE HasFiber(j, Fibers)
    BY <1>1, <1>2 DEF StatusFacts, HasFiber
  <1>3. CASE ~HasFiber(j, Fibers)
    BY <1>1, <1>3 DEF StatusFacts
  <1> QED
    BY <1>2, <1>3

\* A job whose place a step does not touch keeps its status.
SamePlace(j) ==
  /\ j \in added' <=> j \in added
  /\ j \in Waiting' <=> j \in Waiting
  /\ \A f \in Fibers : fcb'[f] = j <=> fcb[f] = j
  /\ \A f \in Fibers : fcb[f] = j =>
       (f \in Waiting' <=> f \in Waiting) /\ (f \in InHand' <=> f \in InHand)

LEMMA SameStatus ==
  ASSUME PoolInv, PoolInv', NEW j \in Jobs, SamePlace(j)
  PROVE  Status(j)' = Status(j)
  <1>1. StatusFacts /\ StatusFacts'
    BY StatusByPlace, StatusByPlaceNext
  <1>2. CASE \E f \in Fibers : fcb[f] = j
    BY <1>1, <1>2 DEF StatusFacts, SamePlace
  <1>3. CASE ~\E f \in Fibers : fcb[f] = j
    BY <1>1, <1>3 DEF StatusFacts, SamePlace, HasFiber
  <1> QED
    BY <1>2, <1>3

-----------------------------------------------------------------------------
(* A thread that is in no job leaves a slot free *)

Active == {j \in Jobs : Status(j) = "running"}

\* Every running job has a fiber in the hand of a thread of its own, and none
\* of them is t.
LEMMA SlotFree ==
  ASSUME PoolInv, NEW t \in Runners, \A j \in Jobs : cbFiber[t] = None \/ fcb[cbFiber[t]] # j
  PROVE  Cardinality(Active) < Cardinality(Runners)
  <1>0. TypeOK /\ Exclusive /\ LiveInv /\ OnceInv
    BY DEF PoolInv, ExclusiveInv, JobInv
  <1>1. IsFiniteSet(Runners)
    BY SchedulerAssumption, FS_AddElement, FS_EmptySet DEF Runners
  <1>2. \A j \in Active : \E u \in Runners \ {t} : cbFiber[u] \in Fibers /\ fcb[cbFiber[u]] = j
    <2> SUFFICES ASSUME NEW j \in Active
                 PROVE  \E u \in Runners \ {t} : cbFiber[u] \in Fibers /\ fcb[cbFiber[u]] = j
      OBVIOUS
    <2>1. PICK f \in InHand : fcb[f] = j
      BY StatusByPlace DEF Active, StatusFacts
    <2>2. PICK u \in Threads : cbFiber[u] = f /\ f \in Fibers
      BY DEF InHand
    <2>3. u \in Runners
      BY <1>0, <2>2, NoneIsNothing DEF LiveInv, Threads, Runners
    <2>4. u # t
      BY <2>1, <2>2, NoneIsNothing DEF Active
    <2> QED
      BY <2>1, <2>2, <2>3, <2>4
  <1> DEFINE runner == [j \in Active |-> CHOOSE u \in Runners \ {t} :
                                           cbFiber[u] \in Fibers /\ fcb[cbFiber[u]] = j]
  <1>3. \A j \in Active : runner[j] \in Runners \ {t} /\ fcb[cbFiber[runner[j]]] = j
    BY <1>2
  <1>4. runner \in Injection(Active, Runners \ {t})
    <2>1. runner \in [Active -> Runners \ {t}]
      BY <1>3
    <2>2. \A j, k \in Active : runner[j] = runner[k] => j = k
      BY <1>3
    <2> HIDE DEF runner
    <2> QED
      BY <2>1, <2>2 DEF Injection, IsInjective
  <1> HIDE DEF runner
  <1>5. /\ IsFiniteSet(Runners \ {t})
        /\ Cardinality(Runners \ {t}) = Cardinality(Runners) - 1
    BY <1>1, FS_RemoveElement
  <1>6. IsFiniteSet(Active) /\ Cardinality(Active) <= Cardinality(Runners \ {t})
    BY <1>4, <1>5, FS_Injection
  <1>7. Cardinality(Runners) \in Nat /\ Cardinality(Active) \in Nat
    BY <1>1, <1>6, FS_CardinalityType
  <1> QED
    BY <1>5, <1>6, <1>7

-----------------------------------------------------------------------------
(* Steps of the scheduler are steps of the pool *)

PoolStutters == UNCHANGED <<[j \in Jobs |-> Status(j)], mainPc = "stopped">>

\* The pool counts as the scheduler does, and it has a slot for every runner.
LEMMA PoolRunning ==
  Pool!Running = Active /\ Pool!Cardinality(Active) = Cardinality(Active)
  BY DEF Pool!Running, Active, Pool!Cardinality, Cardinality

\* A step that touches no place is no step of the pool.
LEMMA NoMove ==
  ASSUME PoolInv, PoolInv', \A j \in Jobs : SamePlace(j), mainPc' = mainPc
  PROVE  PoolStutters
  BY SameStatus DEF PoolStutters

\* A step that touches the places of one job moves it.
LEMMA MoveOne ==
  ASSUME PoolInv, PoolInv', NEW b \in Jobs, \A j \in Jobs \ {b} : SamePlace(j),
         NEW from, NEW to, Status(b) = from, Status(b)' = to, mainPc' = mainPc
  PROVE  Pool!Move(b, from, to)
  <1>1. \A j \in Jobs \ {b} : Status(j)' = Status(j)
    BY SameStatus
  <1>2. [j \in Jobs |-> Status(j)]' = [[j \in Jobs |-> Status(j)] EXCEPT ![b] = to]
    BY <1>1
  <1> QED
    BY <1>2 DEF Pool!Move

\* What becomes of the fibers in hand when a thread exchanges its own.
LEMMA HandChange ==
  ASSUME PoolInv, NEW t \in Threads, NEW x \in Fibers \cup {None},
         cbFiber' = [cbFiber EXCEPT ![t] = x]
  PROVE  /\ \A g \in Fibers : g # x /\ g # cbFiber[t] => (g \in InHand' <=> g \in InHand)
         /\ x \in Fibers => x \in InHand'
         /\ x # cbFiber[t] => cbFiber[t] \notin InHand'
  <1>1. TypeOK /\ Exclusive
    BY DEF PoolInv, ExclusiveInv
  <1>2. \A u \in Threads : cbFiber'[u] = IF u = t THEN x ELSE cbFiber[u]
    BY <1>1 DEF TypeOK
  <1>3. \A g \in Fibers : g \in InHand <=> \E u \in Threads : cbFiber[u] = g
    BY DEF InHand
  <1>4. \A g \in Fibers : g \in InHand' <=> \E u \in Threads : cbFiber'[u] = g
    BY DEF InHand
  <1>5. InHand' \subseteq Fibers
    BY DEF InHand
  <1> QED
    BY <1>1, <1>2, <1>3, <1>4, <1>5 DEF Exclusive, Holds, TypeOK

\* What becomes of the waiting entries when a thread uses the one it took.
LEMMA TakenChange ==
  ASSUME PoolInv, NEW t \in Threads, job[t] # None,
         job' = [job EXCEPT ![t] = None], tasks' = tasks
  PROVE  /\ \A x : x # job[t] => (x \in Waiting' <=> x \in Waiting)
         /\ job[t] \in Waiting
         /\ job[t] \notin Waiting'
  <1>1. TypeOK /\ Exclusive /\ OnceInv
    BY DEF PoolInv, ExclusiveInv
  <1>2. \A u \in Threads : job'[u] = IF u = t THEN None ELSE job[u]
    BY <1>1 DEF TypeOK
  <1>3. job[t] \notin Range(tasks) /\ \A u \in Threads : job[u] = job[t] => u = t
    <2>1. CASE job[t] \in Jobs
      BY <1>1, <2>1 DEF OnceInv, OneCopy
    <2>2. CASE job[t] \in Fibers
      BY <1>1, <2>2 DEF Exclusive, Holds
    <2> QED
      BY <1>1, <2>1, <2>2 DEF TypeOK
  <1> QED
    BY <1>2, <1>3 DEF Waiting

\* The job in a fiber that is taken from the queue is dispatched.
LEMMA ResumeFiberStep ==
  ASSUME PoolInv, PoolInv', NEW t \in Runners, ResumeFiber(t)
  PROVE  PoolStutters \/ \E j \in Jobs : Pool!Dispatch(j)
  <1> USE RunnersAreThreads, NoneIsNothing
  <1>0. TypeOK /\ StateOf(t) /\ BoundInv /\ LiveInv /\ StatusFacts /\ StatusFacts'
    BY StatusByPlace, StatusByPlaceNext DEF PoolInv, ExclusiveInv, FiberInv, JobInv
  <1>1. /\ pc[t] = "resume" /\ job[t] \in Fibers
        /\ cbFiber' = [cbFiber EXCEPT ![t] = job[t]]
        /\ job' = [job EXCEPT ![t] = None]
        /\ UNCHANGED <<mainPc, tasks, added, fcb>>
    BY ResumeFiberProps DEF PoolInv, mainVars
  <1>2. \A j \in Jobs : cbFiber[t] = None \/ fcb[cbFiber[t]] # j
    BY <1>0, <1>1 DEF StateOf, BoundInv, Working, TypeOK
  <1>3. /\ \A g \in Fibers : g # job[t] /\ g # cbFiber[t] => (g \in InHand' <=> g \in InHand)
        /\ job[t] \in InHand'
    BY <1>1, HandChange
  <1>4. /\ \A x : x # job[t] => (x \in Waiting' <=> x \in Waiting)
        /\ job[t] \in Waiting
    BY <1>1, TakenChange
  <1>5. \A j \in Jobs : fcb[job[t]] # j => SamePlace(j)
    BY <1>1, <1>2, <1>3, <1>4, SchedulerAssumption DEF SamePlace
  <1>6. CASE fcb[job[t]] = None
    BY <1>1, <1>5, <1>6, NoMove
  <1>7. ASSUME NEW b \in Jobs, fcb[job[t]] = b
        PROVE  Pool!Dispatch(b)
    <2>1. Status(b) = "waiting" /\ Status(b)' = "running"
      BY <1>0, <1>1, <1>3, <1>4, <1>7 DEF StatusFacts
    <2>2. Pool!Move(b, "waiting", "running")
      BY <1>1, <1>5, <1>7, <2>1, MoveOne
    <2>3. mainPc # "stopped"
      BY <1>0, <1>1 DEF LiveInv
    <2>4. Cardinality(Active) < Cardinality(Runners)
      BY <1>2, SlotFree
    <2> QED
      BY <2>2, <2>3, <2>4, PoolRunning DEF Pool!Dispatch
  <1> QED
    BY <1>0, <1>1, <1>6, <1>7 DEF TypeOK

\* A callable that run() puts into a fiber is dispatched.
LEMMA BindStep ==
  ASSUME PoolInv, PoolInv', NEW t \in Runners, ResetAndResume(t) \/ NewAndResume(t)
  PROVE  \E j \in Jobs : Pool!Dispatch(j)
  <1> USE RunnersAreThreads, NoneIsNothing
  <1>0. /\ ExclusiveInv /\ TypeOK /\ StateOf(t) /\ BoundInv /\ LiveInv /\ StatusFacts /\ StatusFacts'
        /\ OnceInv
    BY StatusByPlace, StatusByPlaceNext DEF PoolInv, ExclusiveInv, FiberInv, JobInv
  <1>1. /\ pc[t] = "resume" /\ job[t] \in Jobs
        /\ job' = [job EXCEPT ![t] = None]
        /\ UNCHANGED <<mainPc, tasks, added>>
    BY <1>0, ResetAndResumeProps, NewAndResumeProps DEF mainVars
  <1>2. PICK f \in Fibers : /\ fcb[f] = None
                            /\ cbFiber[t] \in {f, None}
                            /\ cbFiber' = [cbFiber EXCEPT ![t] = f]
                            /\ fcb' = [fcb EXCEPT ![f] = job[t]]
    <2>1. CASE ResetAndResume(t)
      <3>1. /\ cbFiber[t] \in Fibers /\ fstate[cbFiber[t]] = "INIT"
            /\ cbFiber' = cbFiber
            /\ fcb' = [fcb EXCEPT ![cbFiber[t]] = job[t]]
        BY <1>0, <2>1, ResetAndResumeProps
      <3>2. fcb[cbFiber[t]] = None
        BY <1>0, <3>1 DEF BoundInv
      <3>3. cbFiber' = [cbFiber EXCEPT ![t] = cbFiber[t]]
        BY <1>0, <3>1 DEF TypeOK
      <3> QED
        BY <3>1, <3>2, <3>3
    <2>2. CASE NewAndResume(t)
      <3>1. /\ cbFiber[t] = None
            /\ \E f \in Fibers : /\ fstate[f] = "FREE"
                                 /\ cbFiber' = [cbFiber EXCEPT ![t] = f]
                                 /\ fcb' = [fcb EXCEPT ![f] = job[t]]
        BY <1>0, <2>2, NewAndResumeProps
      <3> QED
        BY <1>0, <3>1 DEF BoundInv
    <2> QED
      BY <2>1, <2>2
  <1>3. /\ \A g \in Fibers : g # f => (g \in InHand' <=> g \in InHand)
        /\ f \in InHand'
    BY <1>2, HandChange
  <1>4. /\ \A x : x # job[t] => (x \in Waiting' <=> x \in Waiting)
        /\ job[t] \in Waiting
    BY <1>1, TakenChange
  <1>5. \A g \in Fibers : fcb'[g] = IF g = f THEN job[t] ELSE fcb[g]
    BY <1>0, <1>2 DEF TypeOK
  <1>6. \A j \in Jobs \ {job[t]} : SamePlace(j)
    BY <1>1, <1>2, <1>3, <1>4, <1>5, SchedulerAssumption DEF SamePlace
  <1>7. Status(job[t]) = "waiting"
    BY <1>0, <1>1, <1>4 DEF StatusFacts
  <1>8. \A j \in Jobs : j = job[t] => Status(j)' = "running"
    BY <1>0, <1>2, <1>3, <1>5 DEF StatusFacts
  <1>9. ASSUME NEW b \in Jobs, b = job[t] PROVE Pool!Dispatch(b)
    <2>1. Pool!Move(b, "waiting", "running")
      BY <1>1, <1>6, <1>7, <1>8, <1>9, MoveOne
    <2>2. mainPc # "stopped"
      BY <1>0, <1>1 DEF LiveInv
    <2>3. Cardinality(Active) < Cardinality(Runners)
      BY <1>2, SlotFree
    <2> QED
      BY <2>1, <2>2, <2>3, PoolRunning DEF Pool!Dispatch
  <1> QED
    BY <1>1, <1>9

\* addJob submits the job to a pool that is not closed.
LEMMA AddStep ==
  ASSUME PoolInv, PoolInv', NEW j \in Jobs, AddJob(j),
         UNCHANGED <<mainPc, job, cbFiber, fcb>>, mainPc # "stopped"
  PROVE  Pool!Submit(j)
  <1>0. TypeOK /\ OnceInv /\ StatusFacts /\ StatusFacts'
    BY StatusByPlace, StatusByPlaceNext DEF PoolInv, ExclusiveInv
  <1>1. /\ j \notin added /\ added' = added \cup {j}
        /\ tasks' = Append(tasks, j)
    BY DEF AddJob
  <1>2. Range(tasks') = Range(tasks) \cup {j}
    <2>1. /\ DOMAIN tasks' = 1 .. Len(tasks) + 1 /\ DOMAIN tasks = 1 .. Len(tasks)
          /\ \A i \in DOMAIN tasks : tasks'[i] = tasks[i]
          /\ tasks'[Len(tasks) + 1] = j
          /\ Len(tasks) \in Nat
      BY <1>0, <1>1 DEF TypeOK
    <2> QED
      BY <2>1 DEF Range
  <1>3. Waiting' = Waiting \cup {j}
    BY <1>2, NoneIsNothing DEF Waiting
  <1>4. \A b \in Jobs \ {j} : SamePlace(b)
    BY <1>1, <1>3, SchedulerAssumption DEF SamePlace, InHand
  <1>5. Status(j) = "new" /\ Status(j)' = "waiting"
    BY <1>0, <1>1, <1>3 DEF StatusFacts
  <1> QED
    BY <1>4, <1>5, MoveOne DEF Pool!Submit

\* The callable of a fiber has returned or thrown.
LEMMA JobEndsStep ==
  ASSUME PoolInv, PoolInv', NEW t \in Runners, JobEnds(t)
  PROVE  PoolStutters \/ \E j \in Jobs : Pool!End(j)
  <1> USE RunnersAreThreads, NoneIsNothing
  <1> USE DEF mainVars, queueVars, loopVars, fiberVars
  <1>0. TypeOK /\ HandInv /\ OnceInv /\ StatusFacts /\ StatusFacts'
    BY StatusByPlace, StatusByPlaceNext DEF PoolInv, ExclusiveInv
  <1>1. /\ cbFiber[t] \in Fibers
        /\ fcb' = [fcb EXCEPT ![cbFiber[t]] = None]
        /\ UNCHANGED <<mainPc, tasks, added, job, cbFiber>>
    BY <1>0 DEF JobEnds, HandInv, Working, TypeOK
  <1>2. InHand' = InHand /\ Waiting' = Waiting
    BY <1>1 DEF InHand, Waiting
  <1>3. cbFiber[t] \in InHand
    BY <1>1 DEF InHand
  <1>4. \A g \in Fibers : fcb'[g] = IF g = cbFiber[t] THEN None ELSE fcb[g]
    BY <1>0, <1>1 DEF TypeOK
  <1>5. \A j \in Jobs : fcb[cbFiber[t]] # j => SamePlace(j)
    BY <1>1, <1>2, <1>4 DEF SamePlace
  <1>6. CASE fcb[cbFiber[t]] = None
    BY <1>1, <1>5, <1>6, NoMove
  <1>7. ASSUME NEW b \in Jobs, fcb[cbFiber[t]] = b PROVE Pool!End(b)
    <2>1. Status(b) = "running"
      BY <1>0, <1>1, <1>3, <1>7 DEF StatusFacts
    <2>2. b \in added /\ b \notin Waiting
      BY <1>0, <1>1, <1>7 DEF StatusFacts, OnceInv, OneCopy
    <2>3. ~HasFiber(b, Fibers)'
      BY <1>0, <1>1, <1>4, <1>7 DEF HasFiber, OnceInv, OneCopy
    <2>4. Status(b)' = "ended"
      BY <1>0, <1>1, <1>2, <2>2, <2>3 DEF StatusFacts
    <2> QED
      BY <1>1, <1>5, <1>7, <2>1, <2>4, MoveOne DEF Pool!End
  <1> QED
    BY <1>0, <1>1, <1>6, <1>7 DEF TypeOK

\* run() lets go of a fiber: it is queued again, or left to whoever wakes it.
LEMMA LetGoStep ==
  ASSUME PoolInv, PoolInv', NEW t \in Runners,
         DispatchReady(t) \/ DispatchSuspended(t)
  PROVE  PoolStutters \/ \E j \in Jobs : Pool!GiveUp(j) \/ Pool!Park(j)
  <1> USE RunnersAreThreads, NoneIsNothing
  <1> USE DEF mainVars, queueVars, loopVars, fiberVars
  <1> DEFINE f == cbFiber[t]
  <1>0. TypeOK /\ HandInv /\ StatusFacts /\ StatusFacts'
    BY StatusByPlace, StatusByPlaceNext DEF PoolInv, ExclusiveInv
  <1>1. /\ f \in Fibers
        /\ cbFiber' = [cbFiber EXCEPT ![t] = None]
        /\ UNCHANGED <<mainPc, added, job, fcb>>
        /\ Range(tasks') = Range(tasks) \/ Range(tasks') = Range(tasks) \cup {f}
    <2>1. CASE DispatchReady(t)
      BY <2>1, DispatchReadyProps DEF DispatchReady, Readd
    <2>2. CASE DispatchSuspended(t)
      BY <2>2, <1>0 DEF DispatchSuspended, HandInv, Working, TypeOK
    <2> QED
      BY <2>1, <2>2
  <1> HIDE DEF f
  <1>2. /\ \A g \in Fibers : g # f => (g \in InHand' <=> g \in InHand)
        /\ f \notin InHand'
    BY <1>1, HandChange DEF f
  <1>3. f \in InHand
    BY <1>1 DEF InHand, f
  <1>4. Waiting' = Waiting \/ Waiting' = Waiting \cup {f}
    BY <1>1 DEF Waiting
  <1>5. \A j \in Jobs : fcb[f] # j => SamePlace(j)
    BY <1>1, <1>2, <1>4, SchedulerAssumption DEF SamePlace
  <1>6. CASE fcb[f] = None
    BY <1>1, <1>5, <1>6, NoMove
  <1>7. ASSUME NEW b \in Jobs, fcb[f] = b PROVE Pool!GiveUp(b) \/ Pool!Park(b)
    <2>1. Status(b) = "running" /\ f \notin Waiting
      BY <1>0, <1>1, <1>3, <1>7 DEF StatusFacts
    <2>2. CASE f \in Waiting'
      <3>1. Status(b)' = "waiting"
        BY <1>0, <1>1, <1>7, <2>2 DEF StatusFacts
      <3> QED
        BY <1>1, <1>5, <1>7, <2>1, <3>1, MoveOne DEF Pool!GiveUp
    <2>3. CASE f \notin Waiting'
      <3>1. Status(b)' = "parked"
        BY <1>0, <1>1, <1>2, <1>7, <2>3 DEF StatusFacts
      <3> QED
        BY <1>1, <1>5, <1>7, <2>1, <3>1, MoveOne DEF Pool!Park
    <2> QED
      BY <2>2, <2>3
  <1> QED
    BY <1>0, <1>1, <1>6, <1>7 DEF TypeOK

\* The steps of run() that its clients do not see.
LEMMA HiddenRunStep ==
  ASSUME PoolInv, PoolInv', NEW t \in Runners,
         \/ TakeJob(t) \/ CountUp(t) \/ FindNothing(t)
         \/ YieldToReady(t) \/ YieldToSuspended(t) \/ SwitchBack(t)
         \/ CountDownLoad(t) \/ CountDownStore(t) \/ DispatchEnded(t)
         \/ IdleTurn(t)
  PROVE  PoolStutters
  <1> USE RunnersAreThreads, NoneIsNothing
  <1> USE DEF mainVars, queueVars, loopVars, fiberVars
  <1>0. TypeOK /\ HandInv /\ FiberInv /\ StateOf(t) /\ BoundInv
    BY DEF PoolInv, ExclusiveInv, FiberInv, JobInv
  <1>1. ASSUME UNCHANGED <<added, fcb, cbFiber>>, Waiting' = Waiting
        PROVE  \A j \in Jobs : SamePlace(j)
    BY <1>1 DEF SamePlace, InHand
  <1>2. ASSUME UNCHANGED <<tasks, job>> PROVE Waiting' = Waiting
    BY <1>2 DEF Waiting
  <1>3. CASE TakeJob(t)
    BY <1>0, <1>1, <1>3, TakeJobWaiting, NoMove DEF TakeJob
  <1>4. CASE \/ CountUp(t) \/ SwitchBack(t) \/ CountDownLoad(t) \/ CountDownStore(t)
             \/ IdleTurn(t)
    BY <1>1, <1>2, <1>4, NoMove
    DEF CountUp, SwitchBack, CountDownLoad, CountDownStore, IdleTurn
  <1>5. CASE YieldToReady(t) \/ YieldToSuspended(t)
    BY <1>1, <1>2, <1>5, NoMove DEF YieldToReady, YieldToSuspended, Yield
  <1>6. CASE DispatchEnded(t)
    <2>1. /\ cbFiber[t] \in Fibers /\ fstate[cbFiber[t]] \in {"TERM", "ERROR"}
          /\ fcb' = [fcb EXCEPT ![cbFiber[t]] = None]
          /\ UNCHANGED <<mainPc, tasks, added, job, cbFiber>>
      BY <1>0, <1>6 DEF DispatchEnded, HandInv, Working, TypeOK
    <2>2. fcb' = fcb
      BY <1>0, <2>1 DEF BoundInv, TypeOK
    <2> QED
      BY <1>1, <1>2, <2>1, <2>2, NoMove
  <1>7. CASE FindNothing(t)
    <2>1. CASE idleFiber[t] # "TERM"
      BY <1>1, <1>2, <1>7, <2>1, NoMove DEF FindNothing
    <2>2. CASE idleFiber[t] = "TERM"
      <3>1. /\ pc[t] = "fetch"
            /\ cbFiber' = [cbFiber EXCEPT ![t] = None]
            /\ UNCHANGED <<mainPc, tasks, added, job, fcb>>
        BY <1>7, <2>2 DEF FindNothing
      <3>2. \A j \in Jobs : cbFiber[t] = None \/ fcb[cbFiber[t]] # j
        BY <1>0, <3>1 DEF StateOf, BoundInv, Working, TypeOK
      <3>3. \A g \in Fibers : g # cbFiber[t] => (g \in InHand' <=> g \in InHand)
        BY <3>1, HandChange
      <3>4. \A j \in Jobs : SamePlace(j)
        BY <1>2, <3>1, <3>2, <3>3 DEF SamePlace
      <3> QED
        BY <3>1, <3>4, NoMove
    <2> QED
      BY <2>1, <2>2
  <1> QED
    BY <1>3, <1>4, <1>5, <1>6, <1>7

\* Every step is a step of the pool or changes nothing that its clients see.
LEMMA PoolStep ==
  ASSUME PoolInv, PoolInv', [Next]_vars
  PROVE  [Pool!Next]_<<[j \in Jobs |-> Status(j)], mainPc = "stopped">>
  <1> DEFINE Goal == [Pool!Next]_<<[j \in Jobs |-> Status(j)], mainPc = "stopped">>
  <1> SUFFICES Goal
    OBVIOUS
  <1> USE RunnersAreThreads
  <1>0. ExclusiveInv /\ JobInv /\ LiveInv
    BY DEF PoolInv, JobInv
  <1>1. PoolStutters => Goal
    BY DEF PoolStutters
  <1>2. ASSUME NEW j \in Jobs,
               \/ Pool!Submit(j) \/ Pool!Dispatch(j) \/ Pool!GiveUp(j)
               \/ Pool!Park(j) \/ Pool!End(j)
        PROVE  Goal
    BY <1>2 DEF Pool!Next
  <1>3. Pool!Close => Goal
    BY DEF Pool!Next
  <1> HIDE DEF Goal
  <1> USE DEF mainVars, queueVars, loopVars, fiberVars
  <1>4. ASSUME UNCHANGED <<tasks, job, added, fcb, cbFiber, mainPc>> PROVE Goal
    <2>1. \A j \in Jobs : SamePlace(j)
      BY <1>4 DEF SamePlace, Waiting, InHand
    <2> QED
      BY <1>1, <1>4, <2>1, NoMove
  <1>5. ASSUME UNCHANGED <<tasks, job, added, fcb, cbFiber>>,
               mainPc # "stopped", mainPc' # "stopped"
        PROVE  Goal
    <2>1. \A j \in Jobs : SamePlace(j)
      BY <1>5 DEF SamePlace, Waiting, InHand
    <2>2. \A j \in Jobs : Status(j)' = Status(j)
      BY <2>1, SameStatus
    <2> QED
      BY <1>1, <1>5, <2>2 DEF PoolStutters
  <1>6. CASE UNCHANGED vars
    BY <1>4, <1>6 DEF vars
  <1>7. ASSUME NEW j \in Jobs, MainAdds(j) PROVE Goal
    BY <1>2, <1>7, AddStep DEF MainAdds
  <1>8. CASE Start \/ StartReturns \/ Stop
    BY <1>5, <1>8 DEF Start, StartReturns, Stop
  <1>9. ASSUME NEW w \in Workers, Spawn(w) \/ PublishId(w) PROVE Goal
    BY <1>4, <1>9 DEF Spawn, PublishId
  <1>10. CASE StopReturns
    <2>1. /\ mainPc = "stopping" /\ mainPc' = "stopped"
          /\ \A t \in Runners : pc[t] = "done"
          /\ UNCHANGED <<tasks, job, added, fcb, cbFiber>>
      BY <1>10 DEF StopReturns
    <2>2. \A j \in Jobs : Status(j)' = Status(j)
      <3>1. \A j \in Jobs : SamePlace(j)
        BY <2>1 DEF SamePlace, Waiting, InHand
      <3> QED
        BY <3>1, SameStatus
    <2>3. /\ InHand = {}
          /\ \A j \in added \cap Unpinned : Status(j) \in {"parked", "ended"}
      BY <1>0, <2>1, NothingLeft
    <2>4. Pool!Running = {}
      BY <2>3, StatusByPlace DEF Pool!Running, StatusFacts
    <2>5. \A j \in Unpinned : j \in Jobs /\ Status(j) # "waiting"
      BY <2>3, StatusByPlace DEF StatusFacts, Unpinned
    <2>6. UNCHANGED [j \in Jobs |-> Status(j)]
      BY <2>2
    <2>7. Pool!Close
      BY <2>1, <2>4, <2>5, <2>6 DEF Pool!Close
    <2> QED
      BY <1>3, <2>7
  <1>11. ASSUME NEW t \in Runners, RunStep(t) \/ IdleTurn(t) PROVE Goal
    <2>1. ASSUME NEW j \in Jobs, JobAdds(t, j) PROVE Goal
      <3>1. mainPc # "stopped"
        BY <1>0, <2>1 DEF JobAdds, LiveInv
      <3> QED
        BY <1>2, <2>1, <3>1, AddStep DEF JobAdds
    <2>2. CASE ResumeFiber(t)
      BY <1>1, <1>2, <2>2, ResumeFiberStep
    <2>3. CASE ResetAndResume(t) \/ NewAndResume(t)
      BY <1>2, <2>3, BindStep
    <2>4. CASE JobEnds(t)
      BY <1>1, <1>2, <2>4, JobEndsStep
    <2>5. CASE DispatchReady(t) \/ DispatchSuspended(t)
      BY <1>1, <1>2, <2>5, LetGoStep
    <2> QED
      BY <1>1, <1>11, <2>1, <2>2, <2>3, <2>4, <2>5, HiddenRunStep DEF RunStep
  <1> QED
    BY <1>6, <1>7, <1>8, <1>9, <1>10, <1>11, NextCases

\* The scheduler is the pool its clients see: a job is run once, on one thread
\* at a time and on no more than there are, is never lost between its fibers,
\* and none that any thread may run is left when stop() returns.
THEOREM SchedulerIsAPool == Spec => ImplementsPool
  <1>1. Init => Pool!Init
    <2> SUFFICES ASSUME Init PROVE Pool!Init
      OBVIOUS
    <2>1. \A j \in Jobs : Status(j) = "new"
      BY DEF Init, Status
    <2>2. mainPc # "stopped"
      BY DEF Init
    <2> QED
      BY <2>1, <2>2 DEF Pool!Init
  <1>2. PoolInv /\ PoolInv' /\ [Next]_vars
          => [Pool!Next]_<<[j \in Jobs |-> Status(j)], mainPc = "stopped">>
    BY PoolStep
  <1> QED
    BY <1>1, <1>2, PoolInvariant, PTL DEF Spec, ImplementsPool, Pool!Spec

-----------------------------------------------------------------------------
(* The counter of active threads *)

\* One thread executes run(): with two the count goes wrong, because the
\* decrement is a load and a store that no lock protects (ActiveCountExact).
OneRunner == \E r \in Threads : Runners = {r}

\* What the counter is, and what the thread has loaded, at each position.
CountOf(t) ==
  /\ pc[t] \in {"resume", "run", "switch", "load"} => active = 1
  /\ pc[t] = "store" => active = 1 /\ loaded[t] = 1
  /\ pc[t] = "count" => active = 0 /\ loaded[t] = 0
  /\ pc[t] \in {"off", "fetch", "dispatch", "idle", "done"} => active = 0

CountInv ==
  /\ \A u \in Threads \ Runners : pc[u] = "off"
  /\ \A t \in Runners : CountOf(t)

\* The thread that takes a step is the only one in run().
LEMMA CountByPosition ==
  ASSUME TypeOK, CountInv, OneRunner, NEW t \in Runners, NEW p,
         pc' = [pc EXCEPT ![t] = p], CountOf(t)'
  PROVE  CountInv'
  <1>1. PICK r \in Threads : Runners = {r}
    BY DEF OneRunner
  <1>2. t = r /\ t \in Threads
    BY <1>1
  <1>3. \A u \in Threads \ Runners : pc'[u] = pc[u]
    BY DEF TypeOK
  <1> QED
    BY <1>1, <1>2, <1>3 DEF CountInv

\* The counter is exact after every step of a scheduler with one runner.
LEMMA CountStep ==
  ASSUME ExclusiveInv, CountInv, OneRunner, [Next]_vars
  PROVE  CountInv'
  <1> USE RunnersAreThreads
  <1> USE DEF mainVars, queueVars, loopVars, fiberVars
  <1>0. TypeOK /\ OffInv /\ HandInv
    BY DEF ExclusiveInv
  <1>1. CASE UNCHANGED <<pc, active, loaded>>
    BY <1>1 DEF CountInv, CountOf
  <1>2. ASSUME NEW j \in Jobs, MainAdds(j) PROVE CountInv'
    BY <1>1, <1>2 DEF MainAdds
  <1>3. CASE Start \/ StartReturns \/ StopReturns
    BY <1>1, <1>3 DEF Start, StartReturns, StopReturns
  <1>4. ASSUME NEW t \in Runners, pc[t] = "off", pc' = [pc EXCEPT ![t] = "fetch"],
               UNCHANGED <<active, loaded>>
        PROVE  CountInv'
    <2>1. CountOf(t)'
      BY <1>0, <1>4 DEF CountInv, CountOf, TypeOK
    <2> QED
      BY <1>0, <1>4, <2>1, CountByPosition
  <1>5. ASSUME NEW w \in Workers, Spawn(w) \/ PublishId(w) PROVE CountInv'
    <2>1. CASE PublishId(w)
      BY <1>1, <2>1 DEF PublishId
    <2>2. CASE Spawn(w)
      <3>1. w \in Runners /\ pc[w] = "off"
        BY <1>0, <2>2 DEF Spawn, OffInv, Runners
      <3> QED
        BY <1>4, <2>2, <3>1 DEF Spawn
    <2> QED
      BY <1>5, <2>1, <2>2
  <1>6. CASE Stop
    <2>1. CASE CallerJoin
      <3>1. Root \in Runners /\ pc[Root] = "off"
        BY <1>0, <1>6, <2>1 DEF Stop, OffInv, Runners
      <3> QED
        BY <1>4, <1>6, <2>1, <3>1 DEF Stop
    <2>2. CASE ~CallerJoin
      BY <1>1, <1>6, <2>2 DEF Stop
    <2> QED
      BY <2>1, <2>2
  <1>7. ASSUME NEW t \in Runners, RunStep(t) \/ IdleTurn(t) PROVE CountInv'
    <2>0. t \in Threads /\ CountOf(t)
      BY DEF CountInv
    <2>1. CASE \E j \in Jobs : JobAdds(t, j)
      BY <1>1, <2>1 DEF JobAdds
    <2>2. ASSUME NEW p, pc' = [pc EXCEPT ![t] = p], UNCHANGED <<active, loaded>>,
                 \/ pc[t] \in {"resume", "run", "switch"} /\ p \in {"run", "switch", "load"}
                 \/ pc[t] \in {"fetch", "dispatch", "idle"} /\ p \in {"fetch", "idle", "done"}
          PROVE  CountInv'
      <3>1. CountOf(t)'
        BY <1>0, <2>0, <2>2 DEF CountOf, TypeOK
      <3> QED
        BY <1>0, <2>2, <3>1, CountByPosition
    <2>3. CASE TakeJob(t)
      <3>1. /\ pc[t] = "fetch" /\ pc' = [pc EXCEPT ![t] = "count"]
            /\ loaded' = [loaded EXCEPT ![t] = active] /\ active' = active
        BY <2>3 DEF TakeJob
      <3>2. CountOf(t)'
        BY <1>0, <2>0, <3>1 DEF CountOf, TypeOK
      <3> QED
        BY <1>0, <3>1, <3>2, CountByPosition
    <2>4. CASE CountUp(t)
      <3>1. /\ pc[t] = "count" /\ pc' = [pc EXCEPT ![t] = "resume"]
            /\ active' = loaded[t] + 1 /\ loaded' = loaded
        BY <2>4 DEF CountUp
      <3>2. CountOf(t)'
        BY <1>0, <2>0, <3>1 DEF CountOf, TypeOK
      <3> QED
        BY <1>0, <3>1, <3>2, CountByPosition
    <2>5. CASE CountDownLoad(t)
      <3>1. /\ pc[t] = "load" /\ pc' = [pc EXCEPT ![t] = "store"]
            /\ loaded' = [loaded EXCEPT ![t] = active] /\ active' = active
        BY <2>5 DEF CountDownLoad
      <3>2. CountOf(t)'
        BY <1>0, <2>0, <3>1 DEF CountOf, TypeOK
      <3> QED
        BY <1>0, <3>1, <3>2, CountByPosition
    <2>6. CASE CountDownStore(t)
      <3>1. /\ pc[t] = "store" /\ pc' = [pc EXCEPT ![t] = "dispatch"]
            /\ active' = loaded[t] - 1 /\ loaded' = loaded
        BY <2>6 DEF CountDownStore
      <3>2. CountOf(t)'
        BY <1>0, <2>0, <3>1 DEF CountOf, TypeOK
      <3> QED
        BY <1>0, <3>1, <3>2, CountByPosition
    <2>7. CASE FindNothing(t)
      BY <2>2, <2>7 DEF FindNothing
    <2>8. CASE ResumeFiber(t) \/ ResetAndResume(t) \/ NewAndResume(t)
      <3>1. pc[t] = "resume" /\ pc' = [pc EXCEPT ![t] = "run"] /\ UNCHANGED <<active, loaded>>
        BY <2>8 DEF ResumeFiber, ResetAndResume, NewAndResume, Resume
      <3> QED
        BY <2>2, <3>1
    <2>9. ASSUME NEW state, Yield(t, state) PROVE CountInv'
      BY <2>2, <2>9 DEF Yield
    <2>10. CASE JobEnds(t)
      BY <2>2, <2>10 DEF JobEnds
    <2>11. CASE SwitchBack(t)
      BY <2>2, <2>11 DEF SwitchBack
    <2>12. CASE DispatchReady(t) \/ DispatchEnded(t) \/ DispatchSuspended(t)
      <3>1. /\ pc[t] = "dispatch" /\ pc' = [pc EXCEPT ![t] = "fetch"]
            /\ UNCHANGED <<active, loaded>>
        BY <2>12 DEF DispatchReady, Readd, DispatchEnded, DispatchSuspended
      <3> QED
        BY <2>2, <3>1
    <2>13. CASE IdleTurn(t)
      BY <2>2, <2>13 DEF IdleTurn
    <2> QED
      BY <1>7, <2>1, <2>3, <2>4, <2>5, <2>6, <2>7, <2>8, <2>9, <2>10, <2>11, <2>12, <2>13
      DEF RunStep, YieldToReady, YieldToSuspended
  <1>8. CASE UNCHANGED vars
    BY <1>1, <1>8 DEF vars
  <1> QED
    BY <1>2, <1>3, <1>5, <1>6, <1>7, <1>8, NextCases

\* Before start() nobody is active.
LEMMA InitCount == Init => CountInv
  BY RunnersAreThreads DEF Init, CountInv, CountOf
=============================================================================
