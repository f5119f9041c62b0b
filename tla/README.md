# Verification of the coroutine server library (Zserver)

TLA+ models of `src/base`: the coroutine scheduler, its fibers, the epoll event
manager, the wake-ups of its threads, the timers, the hooked `sleep()`, the
configuration variables and the logger. TLC checks the models on small
instances. TLAPS proves the central safety properties of the scheduler, of its
sleepers, of the timers, of the wake-ups, of the descriptor events, of the
configuration and of the logger for every number of threads, jobs, fibers, timers,
descriptors, callbacks, lines and days, and that the scheduler implements the pool
its clients see. Where such a property is true of the code in some configurations
only, its theorem names them.

## The system

| Component | State | Operations | Talks to |
|---|---|---|---|
| `Scheduler` | `tasks_`, `threadIds_`, `threads_`, `avtiveThreadCount_`, `idleThreadCount_`, `isStop_`, `rootFiber_`, under one `mutex_` (not all accesses hold it) | constructor, `addJob`, `addMultiJob`, `start`, `stop`, `run` (on every thread), `idle`, `isStop`, `tickle` | fibers (resume), threads (create, join), its subclass (virtual `idle`, `isStop`, `tickle`) |
| `Fiber` | `state_`, `cb_`, stack and context; per thread `CurFiber`, `MainFiber`, `SchedulerFiber` | constructor, `reset`, `resume`/`yield`, `call`/`back`, `YieldToReady`, `YieldToSuspended`, `MainFun` | the scheduler's main fiber |
| `IoManager` | `fdContexts_` and the event bits (`mutex_`), handlers and epoll registration (`fdMutex_` of each context), atomic `pendingEventCount_`, the pipe | `addEvent`, `delEvent`, `cancelEvent`, `cancalAll`, `idle`, `isStop`, `tickle` | is a `Scheduler` and a `TimerManager`; the kernel's epoll |
| `TimerManager`, `Timer` | `timers_`, a set ordered by deadline (`mutex_`) | `addTimer`, `addConditionTimer`, `cancel`, `refresh`, `getNextTime`, `getExpireCallback`, `empty` | `IoManager::idle` polls it; `minTimerChange` writes to the pipe |
| `Hook` | thread-local flag `hook` | `sleep` | adds a timer that re-adds the fiber, then suspends the fiber |
| `Thread`, `Lock` | pthread handle, semaphore; pthread locks | create, join; lock, unlock | used everywhere |
| `Config` | registry of named variables, change callbacks | `Create`, `lookup`, `setVal`, `getVal`, YAML loading | the fiber's stack size |
| `Logger`, `LogAppend` | `level_`, `appenders_`, `formater_` (`mutex_`); of a file appender `filename_`, `filestream_`, `lastOpenTime_` (a mutex of its own) | `log`, `addAppend`, `delAppend`, `setFormatter`, `setLevel`; `log` and `reopen` of an appender | everything logs; the clock and the file system |
| `LoggerFormat` | `pattern_`, `formats_` | `init` parses the pattern, `format` writes a line | an appender has one |

How they interact: `run()` on each thread takes jobs from `tasks_` and resumes a
fiber for each; when there is none it resumes the thread's idle fiber. In an
`IoManager` that fiber computes the time to the next timer, waits in
`epoll_wait`, moves expired callbacks and the handlers of ready descriptors into
`tasks_`, and yields to `run()`. A byte in a pipe wakes waiting threads.

What is hard, and what must hold:

* **Scheduler.** The active counter is decremented without the lock, and between
  that decrement and the re-adding of a ready fiber the scheduler looks empty.
  A job must be run once, by one thread at a time, and `stop()` must return, but
  not before the work is done.
* **Fiber.** Objects are kept and reused. A fiber must be in one place, in the
  state that place calls for; otherwise two threads run on one stack.
* **Timers.** The set's key changes; deadlines of different timers coincide; the
  time to sleep is stale when it is used; wake-up bytes are taken by others. A
  timer must be collected when it is due.
* **IoManager.** Each operation is two or three locked sections under different
  locks, dispatch works on a raw pointer, the kernel reports an edge once and
  possibly to two threads. Counter, bits and kernel registration must agree.
* **Wake-ups.** A job, a timer and `stop()` write one byte to a pipe. The pipe is
  level-triggered: a byte is reported to every thread that waits, any of them may
  take it, and each turn reads one at most. The write end blocks, and the writer
  holds a lock meanwhile. No job may be forgotten while all threads sleep.
* **Logger.** Threads log while others change the appenders. Whether the log file
  is changed depends on the time a line was created, the new name on the time it is
  written. A file may fail to open. The parser of patterns scans back after a mistake.
* **Config.** Callbacks run under the lock of a variable, before the value is
  stored; ids come from a counter that variables share without sharing a lock. A
  client must not miss a change, nor delete another's callback.
* **Shutdown with sleepers.** `IoManager::isStop()` combines three reads made at
  different moments.

The complete list, line by line, is in `PROJECT.json` under `hazards`.

## The modules

| Module | Models |
|---|---|
| `JobPool` | what a client is promised: a job is waiting, running, parked or ended, at most one running job per thread, nothing left waiting or running once the pool is closed |
| `Scheduler` | `Scheduler.{h,cpp}` with the fibers it resumes (`Fiber.cpp`) and the creation and join of threads. One start and one stop |
| `SchedulerProofs` | proofs about `Scheduler`, with the one that it implements `JobPool` |
| `TimerManager` | `Timer.{h,cpp}` and the idle threads that wait for timers |
| `TimerManagerProofs` | proofs about `TimerManager` |
| `IoScheduler` | extends `Scheduler`: `IoManager::idle` and `isStop` replace the inherited ones, jobs call the hooked `sleep()` |
| `IoSchedulerProofs` | proofs about `IoScheduler`; extends `SchedulerProofs` |
| `IoEvents` | descriptor events: the four operations, `triggerEvent`, the dispatch loop, with epoll as an external component |
| `IoEventsProofs` | proofs about `IoEvents` |
| `Wakeup` | who is awake: the pipe and its capacity, the locks held during `tickle()`, the whole loop of `IoManager::idle`, `stop()` |
| `WakeupProofs` | proofs about `Wakeup` |
| `Config` | the configuration variables of `Config.{h,cpp}`: registry, change callbacks, documents |
| `ConfigProofs` | proofs about `Config` |
| `Logger` | `Logger`, `StdoutLogAppend` and `FileLogAppend` of `Logger.{h,cpp}`, with days |
| `LoggerProofs` | proofs about `Logger` |
| `LoggerFormat` | the parser of patterns, and a reference definition of their meaning |
| `LoggerFormatProofs` | proofs about `LoggerFormat` |
| `MC...` | instances of each for TLC |

### Scheduler

Each thread has a position `pc` in `run()`: `fetch` (top of the loop), `count`
(job popped, counter loaded, lock still held), `resume`, `run` (a job executes),
`switch` (state set, context not yet saved), `load` and `store` (the two halves
of the unlocked `--avtiveThreadCount_`), `dispatch` (the if-chain after it),
`idle`, `done`. `TakeJob` and `CountUp` are the locked pop. It is split because
the unlocked decrement can fall between the load and the store of the increment;
`mutex` records that the lock is held meanwhile. Every other locked section is
one action. A `Fiber` is an object of a pool `Fibers`, with `fstate` and `fcb`;
`FREE` means that there is no such object. There must be as many fibers as jobs
can need at once, or the model stops where the program would allocate: the
instances have one per job. A queue entry is a job (its callable) or a fiber.

`threadIds_[it->threadId]` past the end of the vector is a choice (`garbage` in
`TakeJob`). An assertion sets `aborted`. After undefined behaviour or an abort a
model takes no further step.

The fiber that `stop()` enters with `rootFiber_->call()` is folded into its
thread: `Stop` puts `Root` at the top of `run()`.

A job's callable may add jobs, yield READY or SUSPENDED, return or throw.
`YieldToTerm` is not modelled; nothing calls it.

### IoScheduler

`ArmTimer` and `FallAsleep` are the two halves of `sleep()`, `WakerAdds` is the
timer's callback, run as a job of its own. `SeeTimers` and `SeeScheduler` are the
reads of `isStop()` (no descriptors here, `pendingEventCount_` is zero), `Collect`
is `getExpireCallback` and `QueueBatch` `addMultiJob`. When a timer expires is
left open. A fiber that is resumed before its context is saved sets `corrupt`
when the assertion of `resume()` does not catch it.

### TimerManager

`timers` is a set in which two elements never have equal deadlines, because the
comparator sees deadlines only: `AddTimer` drops a timer whose deadline is
taken and returns the other one, `Cancel` and `Refresh` find whatever has the
same deadline, `Expire` rearms repeating timers and drops those that collide.
Every one of these functions holds the mutex throughout and is one action. The
loop of an idle thread is four: `Poll`, `Wake`, `Expire` and `ReadByte`. The
timeout counts from `getNextTime`. `gettimeofday` does not go back.

### IoEvents

`AddFirst`, `RemoveFirst`, `CancelAllFirst` are the sections under
`IoManager::mutex_`; `AddSecond`, `DelSecond`, `CancelSecond`, `CancelAllSecond`
those under `fdMutex_`; `Erase` is the last section of `delEvent` and
`cancelEvent`. `Dispatch` and `Fire` are a poller's work on one event, and hold
`fdMutex` in between. They load the bits and store them later, because
`addEvent` changes them under the other lock. `EpollCtl`, `Edge`, `Drain` and
`Reported` are the kernel: edge-triggered; a descriptor that is ready when it is
registered or modified is reported. A report of an error or a hang-up alone
(`EPOLLERR`, `EPOLLHUP` without `EPOLLIN` and `EPOLLOUT`) is left out: descriptors
stay healthy. Users are assumed to be disciplined: they
register an event when it is not registered, and remove it only while they have
not been called. The constant `OneThread` says whether they run as jobs on the
only poller's thread or anywhere, and `Outsiders` which of them are on a thread
without a scheduler, so that `addEvent` records a null one.

### Wakeup

`Scheduler` has the fibers and the counter, `IoScheduler` the torn read of
`isStop()`, and both leave out how threads sleep. `Wakeup` is the other half: the
fibers are gone, the counter is exact (`Active`), and the pipe is there.
`Tickle(t, next)` is the `write()` of one byte. When the pipe is full the thread
goes to `write` and keeps the lock it holds (`queueLock` or `timerLock`); `Write`
is the end of that call, with the unlock after it. When the pipe has room,
`AddJob`, `AddTimer`, `Readd` (the READY fiber) and `QueueBatch` (`addMultiJob`)
are one step each. `SeeTimers`, `SeeTasks` and `GetNextTime` are the reads
`idle()` makes before `epoll_wait`; `PollReports` and `PollTimesOut` its
returns; `Expire`, `QueueBatch` and `Dispatch` what follows. `addEvent` registers
the pipe without `EPOLLET` (`IoManager.cpp:141`) and `idle()` does not re-arm it, so
`PollReports` is enabled in every thread that waits as long as there is a byte, and
`PollTimesOut` only when there is none. `Dispatch` reads one byte if the pipe was
reported and the byte is still there: the read end does not block. `StopTickles` is
the loop of `stop()`.

Which entry a thread takes and which timers expire is left open; a job may be
bound to a thread, and a timer's callback may be an empty function, which
`addMultiJob` queues like any other.

### Config

`Create` is the constructor with the locked look-up and insertion of
`Config::create`; it returns its instance in any case. `AddCallback`,
`AddCount`, `AddInsert` and `AddReturn` are the four accesses of `addCallback`
to its static counter, of which there is one for each type; the variable's lock
is held from the first to the last. `SetBegin`, `Notify` and `SetStore` are
`setVal`, with one `Notify` for each callback. `LoadNext` is one turn of
`loadFromYaml`; a document is the list of names and texts that
`listAllYamlMembers` makes of it. `handle`, `home`, `used` and `view` are what
the clients know: the id they were given, where they added their callback, and
what it was told. Look-ups and `getVal` only read. Callbacks do not throw. The
instance has two variables of one name, so that the second is created but not
registered.

### Logger

`Make` is the macro: it looks at the level and creates the line with its time.
`Check` is the second look at the level inside `log()`; both read it without a
lock. `Enter`, one `ConsoleLog` or `FileLog` for each appender, and `Leave` are
the loop under the logger's mutex. `rest` is what the iterator has still to visit.
`FileLog` is all of `FileLogAppend::log`: `DayIsOver`, `reopen()` (`Rename` and
`Opened`) and the write. A stream is `good`, `bad` (a write has failed) or `closed`
(it could not be opened). The failures of `open()` and of the write are choices.
A day is a number of ticks; `daySeconds` is fixed, and a day on which the clock
changes for summer or back is shorter or longer than that. `Midnight` is what
`getTodayMidnightTimestamp` returns: it gives `mktime` the `tm_isdst` of the present,
so that after the change (`ClockChange`) the result is 23:00 of the day before on
the short day and 01:00 on the long one. `Date` is the date that `strTime` makes of
that. A file is known by the dates that `reopen()` has put into its name.

### LoggerFormat

`init()` with one action for each branch of its two loops: `Plain` and
`Percent` are the outer loop, `NameEnds`, `BraceCloses` and `Advance` the inner
one, `Unterminated`, `Directive` and `Finish` what follows. A pattern is a
sequence of characters, of which there are letters that name an item, letters
that do not, `%`, the braces, and any other. `Reference` is written without the
code: the set of all patterns that can be put together from text and items, each
with its meaning. It is a recursive function over the length.

## The runs

| Run | Instance | Shows |
|---|---|---|
| `jobs` | 1 worker and the constructing thread, 2 jobs, one bound to the worker | types, exclusive fibers, no assertion fails, the scheduler implements `JobPool`, `stop()` leaves nothing behind, every job is run (fairness) |
| `timers` | 3 timers (one repeating, one with period 0), 2 idle threads | the set stays ordered, no timer is slept through, a due timer is collected (fairness) |
| `sleep` | 1 thread, 2 sleepers, their callbacks and a yielding job | sleepers return, `stop()` returns (fairness), but not while somebody sleeps |
| `events` | 2 descriptors, 3 handlers, users on the poller's thread | counter, bits and kernel agree, a handler is queued once, and is queued when ready (fairness) |
| `wakeup` | 1 worker and the caller; an ordinary job, one bound to the worker that yields READY, a timer, a timer with an empty callback; a pipe of 2 bytes | the threads do not all sleep while there is work, every job is run and `stop()` returns (fairness), with the exceptions named there |
| `config` | 2 variables of one name, 2 threads, 3 callbacks, a document with a bad entry | an id names its callback, no client misses a change |
| `logger` | 2 threads, 2 lines, 2 levels, a console and a file, 2 days of 2 to 4 ticks | the iterator stays valid, appenders agree on the order of lines, a line is in a file of its day or a later one, a day has one file, or as many more as the changes of the clock explain |
| `format` | every pattern of at most 6 characters, of 6 kinds | a pattern is understood as it was written, mistakes show, no character is lost, the parser ends (fairness) |
| `count` | 2 workers, 2 jobs | **violated**: the counter of active threads loses an update |
| `keeps` | 3 timers, 1 thread | **violated**: a timer is dropped because another has its deadline |
| `lost` | 1 worker and the caller, a sleeper and a yielding job | **violated**: `stop()` returns with a sleeper suspended |
| `full` | 2 workers, 3 jobs, a pipe of 2 bytes | **violated**: a full pipe stops everybody who could empty it |

A run that is expected to be violated states what a comment or an assertion in
the source says and shows that the code does otherwise; `findings` in
`PROJECT.json` quotes both.

`sleep` and `lost` belong together. With one thread, a job that falls asleep is
seen by `isStop()`, because that thread is the one that looks. With two threads
and a job that yields READY, the window between `--avtiveThreadCount_` and
`addJob(cbFiber)` lets one thread leave, and the torn read of `isStop()` lets the
last one leave too.

`wakeup` and `full` belong together in the same way. Each turn of `idle()` reads one
byte, so writers can be ahead of the readers by any number. When the pipe is full
(the real one holds 65536 bytes), `addJob` waits in `write()` with `mutex_` held,
and every thread that could read may be waiting for `mutex_` before it gets to
`epoll_wait`. `full` shows that state (`Frozen`); `wakeup` shows that a job may be
left in it, and otherwise in two cases only that have nothing to do with the pipe:
it is bound to a thread that has left `run()`, or it is a timer that was added while
`idle()` was in the middle of `isStop()`.

`count` shows what `jobs` and `sleep` do not depend on: the increment of one worker,
under the lock, and the decrement of the other, outside of it, are interleaved. In
`jobs` the counter may be wrong too, and its properties hold nevertheless; `sleep`
has one thread, with which the counter is right.

### Bounds

`MaxYield` = 1: each job yields once; that is enough to be re-added, to migrate
and to be reused. Two jobs suffice for reuse of a fiber, for one job adding the
other and for both threads being busy. Two threads are what every interleaving
found here needs. A `Capacity` of 2 is enough for a pipe that has no byte, one byte
that two threads are reported, and no room; the proofs are about any capacity.
`MaxClock` = 2 or 3 with periods 0, 1, 2 makes deadlines coincide, expire late, and
repeat. Three handlers on two descriptors allow a
descriptor to be registered, removed or fired, and registered again. Counters
need no bound: their growth is bounded by the number of jobs, or of bytes. The
runs `config` and `logger` use symmetry, and check no liveness. In `config` each
callback is added once and may be deleted; three are enough for an id to be given
out, returned and passed over, and two values for a change and for a set that
changes nothing. In `logger` two lines are what two appenders can put in different
orders; days of two to four ticks, where `daySeconds` is three, are shorter than,
equal to and longer than it, with ticks before and after the change of the clock, and
the second day is the one a file changes for. The day before the first is of the
usual length, and is there for the dates that go back to it.
In `format` six characters hold an item with a format of two characters, an item
with a shorter one between texts, three items, and every mistake inside, before
and after those.

### Fairness

`Scheduler`: each thread in `run()` takes its next step again and again (weak
fairness), and `start()` and `stop()` run to their ends. The operating system
schedules runnable threads, and a mutex is held for a bounded number of steps.
This includes the step of the job itself: jobs are assumed to yield or end at
last. Nobody has to add a job or to call `stop()`. `IoScheduler` adds strong
fairness for the expiry of each armed timer: an idle thread comes round at least
every three seconds, and time passes. It has to be strong because `Collect` is
enabled only while some thread is at that point of its loop. `Wakeup` assumes the
same two things: weak fairness of each thread's next step, whatever it is, and
strong fairness for the expiry of each timer. That includes `PollTimesOut`,
because `epoll_wait` is never called with more than `MaxTimeOut`, three seconds.
A thread blocked in `write()` has no step to take until somebody reads.
`LoggerFormat` is sequential: it goes on while it can. `TimerManager`: a
thread whose `epoll_wait` is over goes on. The clock is not fair; the property is
about timers that are due. `IoEvents`: pollers go on, an operation that has begun
is finished, queued handlers are run. `FiresWhenReady` does not hold without the
re-arming `MOD`; edges by themselves are not fair.

## What is proved

All theorems hold for every value of the constants that the named assumptions
(`SchedulerAssumption`, `IoAssumption`, `TimerAssumption`, `WakeupAssumption`,
`EventAssumption`, `ConfigAssumption`, `LoggerAssumption`,
`LoggerFormatAssumption`) allow. Those say that the constants are what their
comments call them: `None` is no thread, job, handler, id or time; there are
finitely many workers and callbacks, since the code counts them; there is a
descriptor; each sleeper has a callback of its own, which is not bound to a thread;
a letter is neither a `%` nor a brace.

Two hypotheses come besides. `SingleEvent` is that of the last three theorems about
`IoEvents`. `OneRunner` says that one thread executes `run()`, a worker or the
caller: one thread with `callerJoin` or without, the first of which is what
`IoManager()` defaults to. It is that of `IoFibersAreExclusive` and
`NobodyOversleeps`. With two runners these are false of the code: the run `lost`
violates `NoSleeperLost`, and a timer resumes a fiber that another thread is still
running.

| Theorem | States | Rests on |
|---|---|---|
| `TypeCorrect` | `Spec => []TypeOK` of `Scheduler` | `HandInv`: `run()` has a fiber in `cbFiber` where it uses it |
| `FibersAreExclusive` | `Spec => []Exclusive` | `ExclusiveInv` |
| `NoAssertionFails` | `Spec => []AssertionsHold` | `ExclusiveInv` |
| `NothingLeftBehind` | `Spec => []NoJobLeftBehind` | `JobInv` |
| `SchedulerIsAPool` | `Spec => ImplementsPool`, the refinement of `JobPool` | `ExclusiveInv`, `JobInv`, `OnceInv` |
| `IoTypes` | `IoSpec => []IoTypeOK` of `IoScheduler` | `IoTypeInv` |
| `IoFibersAreExclusive` | `OneRunner => (IoSpec => [](Exclusive /\ AssertionsHold /\ ~corrupt))` | `ExclusiveInv`, in `PoolOfOneInv` |
| `NobodyOversleeps` | `OneRunner => (IoSpec => []NoSleeperLost)` | `SleepInv`, in `PoolOfOneInv` |
| `TimerTypes` | `Spec => []TypeOK` of `TimerManager` | `TimerInv` |
| `KeysStayDistinct` | `Spec => []KeysDistinct` | `TimerInv` |
| `NoTimerSleptThrough` | `Spec => []SomeoneWatches` | `TimerInv` |
| `WakeupTypes` | `Spec => []TypeOK` of `Wakeup` | `WakeInv` |
| `NoWakeUpLost` | `Spec => []WokenForWork` | `WakeInv` |
| `EventTypes` | `Spec => []TypeOK` of `IoEvents` | `TypeInv` |
| `CounterExact` | `SingleEvent => (Spec => []PendingExact)` | `EventInv` |
| `KernelAgrees` | `SingleEvent => (Spec => []Watched)` | `EventInv` |
| `JobsOnce` | `SingleEvent => (Spec => []FiredOnce)` | `EventInv` |
| `ConfigTypes` | `Spec => []TypeOK` of `Config` | `ConfigInv` |
| `HandlesAreOwn` | `Spec => []OwnHandle` | `ConfigInv` |
| `NobodyIsStale` | `Spec => []Informed` | `ConfigInv` |
| `LoggerTypes` | `Spec => []TypeOK` of `Logger` | `TimeInv` |
| `LinesFitTheirDay` | `Spec => DayFits` | `TimeInv` |
| `OneFileADay` | `Spec => []OneFilePerDay` | `TimeInv`, `DatesInv` |
| `ListStaysValid` | `Spec => []IteratorValid` | `LoopInv` |
| `AppendersAgree` | `Spec => []SameOrder` | `LineInv` |
| `FormatTypes` | `Spec => []TypeOK` of `LoggerFormat` | `FormatInv` |
| `StepsLeadForward` | `Spec => [][Forward]_vars`: the outer index, the part of the pass and the inner index increase, in this order | `FormatInv` |

*Exclusive fibers.* `Exclusive` alone is not inductive: that a fiber taken from
the queue is held by nobody else is not enough to know that it may be resumed or
reset. `ExclusiveInv` adds, for each place a fiber can be in, the state it has
there (`FiberInv`): RUNNING in the hands of a thread that executes it, ended when
kept, READY or SUSPENDED in the queue, and so on. Then the assertions of
`resume()`, `reset()` and `~Fiber` follow.

*Nothing left behind.* `isStop()` reads a counter that may be wrong, so the
argument cannot go through the counter. `LiveInv` says instead that while an
unbound entry is in the queue of a stopping scheduler, some thread is still in
`run()`: the thread that added it is in `run()` itself, and a thread leaves only
at the top of the loop, when the queue has nothing for it. `BoundInv` says
that a callable bound to a fiber is in a hand, in the queue, or suspended.

*Nobody oversleeps.* All steps of `IoScheduler` but two are steps of `Scheduler`, or
change nothing of it (`SchedulerStep`); so `ExclusiveInv`, `JobInv` and `CountInv` have
to be shown again for `WakerAdds` and `QueueBatch` only. `CountInv` says at which
positions of the only runner the counter is 1: `isStop()` reads it, and with one
runner nothing falls between its load and its store. `ExclusiveInv` had to be
stated for this: an entry of the queue that is a fiber is READY or SUSPENDED
(`Resumable`), because it is a suspended fiber that a timer adds. That the timer adds
it while nobody else has it is `SleepInv`. Between `addTimer` and the yield the sleeper
is the job that runs, and its callback cannot run before the yield, since there is
nobody to run it (`ArmedInv`). A sleeper whom nobody has woken is bound to a suspended fiber that is
neither queued nor taken, and his callback is on its way: armed, in the
`batch` of the idle loop, queued, taken, or being run (`AsleepInv`, `WakerComing`).
Conversely a suspended fiber is that of such a sleeper, or of one who has been woken
and is queued (`ParkedInv`). `IdleInv` is about `isStop()`: when its first read has
found no timer none can come before the second, for timers are added by jobs; and
the runner is in `isStop()` only with an empty `batch`. So when it ends, the
callback of a sleeper is nowhere on its way, hence there is no sleeper; and a job
that has not ended is suspended, hence a sleeper, by `JobInv`.

*No timer slept through.* `DeadlineInv` (no deadline is further away than its
timer's period) makes `refresh()` and rearming move deadlines forward only, so a
thread that watched the first deadline still does. `AddTimer` writes a byte when
the new timer is first. A thread takes a byte only on its way back to
`getNextTime`.

*No wake-up lost.* Whoever queues a job writes a byte or is about to, and while there
is a byte a thread that calls `epoll_wait` does not wait. A byte may be read by a
thread that another byte was meant for, but that thread has come out of `epoll_wait`
and scans the queue before it can wait again (`WillScan`), so the last byte may go.
`RunnerInv` says that only threads that run jobs are in the loop, so that a thread on
its way is one that can take an unbound entry, and that Main, if it does not join,
never is. `AddedInv` says that what is in the queue has been added: the exemption of
empty callbacks in `WokenForWork` is about those. The case that carries the proof is
the thread that finds nothing and goes to sleep: it has seen the queue without an
unbound entry under `queueLock`.

*The pool.* Each of `TakeJob`, `BindOnce`, `YieldToReady` and the rest has to be
one step of `JobPool` or none, and what a client sees of a job (`Status`) is put
together from the places that its callable can be in: the queue, the hand of
`run()`, a fiber, and the hand or the queue that fiber is in. `OnceInv` says that a
callable is in one place, once; without it a step that moves one copy would show
the client a job that waits and runs at the same time. `ExclusiveInv` gives the same
for fibers. That `JobPool`'s close is allowed when `stop()` returns is `JobInv`. That
it never has more running jobs than threads needs `Workers` to be finite.

*Descriptor events.* `PendingExact` and `Watched` are about quiet moments, and an operation
is two or three locked sections, so `UserOK` says for each point between two
sections what the sections before have left undone: after `AddFirst` the bit is
set, and the kernel has not been told (`AddOK`); after `RemoveFirst` the bit is
gone, and handler and registration are there (`RemoveOK`); after `CancelAllFirst` the
context is gone from `fdContexts_`, and its bits are still set (`AllOK`). `IdleOK`
is the rest: bit, handler, scheduler and registration agree, and an edge is in the
ready list, in a batch, or being fired. `PollInv` says that what a poller has in
hand belongs to a user who still waits; this is what keeps the raw pointer alive,
and the context of each descriptor its own. The count is that of `Counted`: what the
kernel watches, and what is being fired, since the re-arming comes before the handler and the
count after it. Every conjunct of `SingleEvent` is needed: TLC refutes `PendingExact`
and `Watched` with both events on one descriptor, `PendingExact` and
`NothingUndefined` with users on other threads, and `FiredOnce` with a fiber as a
handler (below).

*Configuration.* An id is good only while the counter belongs to one variable, and
that is what the code does not ensure; so `OwnInv` speaks of a variable whose type no
other has. It says that the ids up to the counter are given out, that a client's id
leads to its callback, and that a client whose callback is not due knows the value.
The four accesses of `addCallback` are four steps, and `OwnOp` says what the first
of them has left for the next. `CountInv` bounds the counter by the callbacks added,
so that ids do not run out.

*Logger.* `TimeInv` has the calendar (days follow each other, and the clock changes
within them), lines that were made in the past, and, for each file, that the time
`reopen()` compares with is one that `Midnight` can return on a day with its last
date (`Starts`): the midnight, 01:00 on a long day, 23:00 if the next day is short.
That the days are in order for every number of days is an induction; `LeastNatural`
stands for it, by way of the first day that is an exception. `OfTheDay` is what
`DayFits` needs of `daySeconds`: a line that does not change the file was made before
the end of the file's day, if neither that day nor the next is short. `OneFileADay`
adds `DatesInv`. The same date may come again, but each time with a later time of
opening; `Turn` numbers the times that a date can have, and a date has come as often
as its last time allows. `LoopInv` says that
only the thread that holds the mutex is in the loop, that `rest` is the end of the
list, which changes under that mutex only, and that no appender is in the list twice:
nobody adds one twice. An appender that has been visited is therefore not ahead any
more. `LineInv` says that an appender has a line at most once, and that while a line is on its
way the appenders visited have it last, and the others do not have it; hence two
appenders agree.

*Patterns.* `init()` has an index for each of its two loops, and sets the outer one
back when a brace has no end. `FormatInv` says that the inner index is ahead of
the outer one, and in the pattern while its loop goes on; with the types of the
entries found so far it is inductive. `StepsLeadForward` is the safety half of
`Terminates`: each pass ends, and moves the outer index.

Only model-checked: the liveness properties `JobsComplete`, `StopCompletes`,
`SleepersReturn`, `DueIsCollected`, `FiresWhenReady`, `JobsRun`, `StopEnds` and
`Terminates`, since liveness under fairness is out of the prover's reach; and of
`LoggerFormat`, `UnderstoodAsWritten`, `MistakesShow` and `NothingLost`. What these
say of patterns of every length is an induction over recursive definitions: the
reference, and the filter and the concatenation of sequences.

## Disagreements with the code that no run states

The models contain these behaviours; the properties above either hold in spite of
them or stop there.

* `threadIds_` is read past its end when a job is bound to a thread whose id
  `start()` has not pushed yet (`Scheduler.cpp:209`, `:106`).
* A bound job that yields READY is re-added without its thread
  (`Scheduler.cpp:248`).
* Two repeating timers that are rearmed to the same deadline become one
  (`Timer.cpp:149`).
* `cancel()` after the expiry erases `end()` (`Timer.cpp:23`).
* `delEvent` asserts when the event has been dispatched and its handler has not
  run (`IoManager.cpp:203`).
* `delEvent` on another thread and the dispatch of the same event both decrement
  `pendingEventCount_` (`IoManager.cpp:232`, `:532`).
* A fiber registered after a callable has fired is never resumed: the callable
  is still in `cb`, and is queued again (`IoManager.cpp:23`). `FiredOnce` with a
  callable and a fiber as handlers.
* `stop()` does not return after a lost decrement of `avtiveThreadCount_`
  (`Scheduler.cpp:243`, run `count`): `StopCompletes` in the instance of `jobs` with both jobs unbound.
* A report of a hang-up or an error alone re-arms the descriptor with the operation
  for no event, `DEL`, while its events are still set (`IoManager.cpp:519`).
* `addEvent` on a thread that has no scheduler records a null one
  (`IoManager.cpp:155`), which `triggerEvent` calls: `NothingUndefined` with an
  outsider.
* A change callback that throws is caught around all of `setVal` (`Config.h:346`):
  those before it were told a value that is not stored.
* The callback of a sleeper's timer resumes it on another thread before it has
  yielded (`Hook.cpp:70`): `AssertionsHold` in the instance of `lost` without the
  yielding job.
* `DEL` instead of `MOD` when an event remains (`IoManager.cpp:520`): `Watched`
  with one descriptor that is watched for reading and writing.
* The second of two edges calls `addJob` of a null scheduler (`IoManager.cpp:32`):
  `NothingUndefined` with one descriptor and two pollers.
* Two configuration variables of one type: `addCallback` on both at once loses an
  increment or returns the other's id (`Config.h:389`). `OwnHandle` and `Informed`
  exempt them.
* `Config::create` returns `true` for a name that is taken and no value otherwise,
  and `ConfigVar::Create` hands out the unregistered instance, which documents do
  not set (`Config.h:258`, `:320`).
* A name with an upper-case letter is refused before it is converted, and the set
  of characters lacks `9` (`Config.cpp:10`, `:31`, `:66`).
* A thread that takes an empty callback goes to sleep without another look at the
  queue (`Scheduler.cpp:264`), until something else wakes it or `MaxTimeOut` ends.
* A timer that a job adds while the idle fiber is between the two halves of
  `isStop()` is left behind (`IoManager.cpp:412`), as are jobs bound to a thread
  that has gone (`Scheduler.cpp:209`).
* `stop()` itself may wait for room in the pipe (`Scheduler.cpp:129`).
* After `stop()` the destructor of `IoManager` calls `stop()` again
  (`IoManager.cpp:93`), whose `rootFiber_->call()` ends in `ZZG_ASSERT(false)`
  (`Fiber.cpp:136`) when the caller joins.
* The second `%` of `%%` is parsed again, so that `%%d` is a `%` and an item
  (`Logger.cpp:422`). `MistakesShow` exempts such patterns.
* `setLevel` logs lines *of* the level too: `Logger.h:211` says greater
  (“大于level_”), `Logger.cpp:95` refuses smaller ones only.
* The name of a log file grows by a date with each change (`Logger.cpp:196`).
  On a day of 25 hours one more file is opened in the last hour, whose midnight is
  01:00. On a day of 23 hours a file that is opened after the clock has changed gets
  the date of the day before, and one opened before is changed an hour late
  (`util.cpp:236`). `OneFilePerDay` counts these files, and `DayFits` exempts the
  files of a short day and of the day before one.
* After a failed write the stream stays `bad` for good: `reopen()` closes good
  streams only and `open()` fails on one that is open. After a failed `open()`
  the lines of a day are dropped (`Logger.cpp:191`).

## What is not modelled

* A second `stop()`, `start()` after `stop()`, destruction of the scheduler, the
  thread-local pointers, stacks.
* `idleThreadCount_`, which nothing reads.
* Clocks that go back, 32-bit overflow of `seconds*1000`, 64-bit overflow of
  deadlines; errors of `epoll_wait` other than an interruption.
* Error and hang-up reports of descriptors.
* Callbacks that throw, or that read or set their own variable (they wait for
  themselves), the
  conversions of `LexicalCast`, and `getCallback`, which does not compile once it
  is used.
* `LoggerManager`, a table that is filled when it is constructed and locked for
  each look-up; the text that the items of a format write; appenders that are
  shared by two loggers.
* `Lock`, thin wrappers of pthread's locks, whose meaning the actions of the other
  modules assume; `Singleton`, `NoCopyable`; the back traces and string functions
  of `util`.
* The programs under `test/` and `main.cpp`, which make no assertions.

## Plan

Done: `JobPool`, `Scheduler`, `TimerManager`, `IoScheduler`, `IoEvents`,
`Wakeup`, `Config`, `Logger`, `LoggerFormat`; proofs about all of them. Next, in
this order:

1. `Lifecycle`: `start` and `stop` more than once, and `call`/`back` of the root
   fiber.
2. The conversions of seconds to milliseconds, and of names of variables, as
   functions over bounded inputs.
