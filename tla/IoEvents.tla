------------------------------ MODULE IoEvents ------------------------------
(***************************************************************************)
(* File descriptor events of base/IoManager.{h,cpp}: addEvent, delEvent,   *)
(* cancelEvent and cancalAll, called by the users of the descriptors, and  *)
(* the part of idle() that dispatches what epoll_wait reports.             *)
(*                                                                         *)
(* fdContexts_ and the event bits are changed under IoManager::mutex_, the *)
(* handlers and the kernel's registration under FdContext::fdMutex_, so an *)
(* operation is two or three locked sections, and each is an action.  The  *)
(* dispatch of one descriptor is several, because triggerEvent changes the *)
(* event bits without IoManager::mutex_: Dispatch and Fire each load them, *)
(* and the next Fire stores.                                               *)
(***************************************************************************)
EXTENDS Integers, FiniteSets, Functions

CONSTANTS
  Fds,        \* file descriptors
  Types,      \* the event types in use: "READ", "WRITE"
  Callbacks,  \* handlers that are callables; each is registered at most once
  FiberHandlers,  \* handlers that are fibers: addEvent without a callable
  Contexts,   \* FdContext objects: the memory they may occupy
  Pollers,    \* threads that execute idle()
  Removers,   \* the users that also call delEvent, cancelEvent and cancalAll
  Outsiders,  \* the users whose thread is none of a scheduler's
  OneThread,  \* do the users run as jobs on the only poller's thread?
  None

Handlers == Callbacks \cup FiberHandlers

\* A user of one event of one descriptor; it does one thing at a time.
Users == Fds \X Types

ASSUME EventAssumption ==
  /\ Fds # {}
  /\ Types \subseteq {"READ", "WRITE"}
  /\ Callbacks \cap FiberHandlers = {}
  /\ Removers \subseteq Users
  /\ Outsiders \subseteq Users
  /\ OneThread \in BOOLEAN
  /\ OneThread => Outsiders = {} /\ \E p \in Pollers : Pollers = {p}
  /\ None \notin Handlers \cup Contexts

VARIABLES
  fdContexts,  \* fdContexts_
  ctx,         \* the FdContext objects
  pending,     \* pendingEventCount_ (negative stands for the wrapped value)
  reg,         \* the kernel's registration of a descriptor
  ready,       \* what a descriptor is ready for
  rdlist,      \* the kernel's ready list
  op,          \* the operation a user is in the middle of
  mine,        \* the handler that a user knows to be registered
  used,        \* the handlers registered so far
  jobs,        \* the handlers that addJob was given and that have not run
  fired,       \* how often a handler was given to addJob
  fdMutex,     \* the poller that holds fdMutex_ of a context, or None
  pc,          \* where a poller is: away, dispatching, firing
  batch,       \* the events that its epoll_wait reported
  cur,         \* the event that it is dispatching
  seen,        \* the event bits as it last loaded them
  fault        \* what has gone wrong beyond repair

ctxVars    == <<fdContexts, ctx, pending>>
kernelVars == <<reg, ready, rdlist>>
userVars   == <<op, mine, used>>
jobVars    == <<jobs, fired>>
pollVars   == <<fdMutex, pc, batch, cur, seen>>
vars == <<ctxVars, kernelVars, userVars, jobVars, pollVars, fault>>

NewContext(f) ==
  [fd |-> f, event |-> {}, cb |-> [y \in Types |-> None],
   fiber |-> [y \in Types |-> None], scheduler |-> [y \in Types |-> FALSE]]

NoOp == [kind |-> "none", con |-> None, ctl |-> "none", h |-> None]
NoEvent == [con |-> None, types |-> {}]
Unregistered == [on |-> FALSE, interest |-> {}, con |-> None]

Init ==
  /\ fdContexts = [f \in Fds |-> None]
  /\ ctx = [c \in Contexts |-> NewContext(CHOOSE f \in Fds : TRUE)]
  /\ pending = 0
  /\ reg = [f \in Fds |-> Unregistered]
  /\ ready = [f \in Fds |-> {}]
  /\ rdlist = {}
  /\ op = [u \in Users |-> NoOp]
  /\ mine = [u \in Users |-> None]
  /\ used = {}
  /\ jobs = {}
  /\ fired = [h \in Handlers |-> 0]
  /\ fdMutex = [c \in Contexts |-> None]
  /\ pc = [t \in Pollers |-> "away"]
  /\ batch = [t \in Pollers |-> {}]
  /\ cur = [t \in Pollers |-> NoEvent]
  /\ seen = [t \in Pollers |-> {}]
  /\ fault = "none"

\* A context exists as long as somebody holds a shared_ptr to it; epoll, and
\* with it a poller, holds a raw pointer only.
Exists(c) == c \in Range(fdContexts) \/ \E u \in Users : op[u].con = c

NobodyBusy == \A u \in Users : op[u] = NoOp
PollersAway == \A t \in Pollers : pc[t] = "away"

-----------------------------------------------------------------------------
(* epoll *)

\* epoll_ctl fails unless it adds what is missing or changes what is there.
CtlSucceeds(ctl, f) == reg[f].on = (ctl # "ADD")

\* A descriptor that is ready for what it is now registered for is reported
\* (again), edge-triggered or not.
EpollCtl(ctl, f, interest, c) ==
  IF CtlSucceeds(ctl, f)
  THEN /\ reg' = [reg EXCEPT ![f] =
            IF ctl = "DEL" THEN Unregistered
            ELSE [on |-> TRUE, interest |-> interest, con |-> c]]
       /\ rdlist' = IF ctl = "DEL" THEN rdlist \ {f}
                    ELSE IF ready[f] \cap interest # {} THEN rdlist \cup {f}
                    ELSE rdlist
       /\ UNCHANGED ready
  ELSE UNCHANGED kernelVars

\* New data, or new room, on a descriptor: an edge.
Edge(f, y) ==
  /\ ready' = [ready EXCEPT ![f] = @ \cup {y}]
  /\ rdlist' = IF y \in reg[f].interest THEN rdlist \cup {f} ELSE rdlist
  /\ UNCHANGED <<ctxVars, reg, userVars, jobVars, pollVars, fault>>

\* Somebody reads the data or fills the room.
Drain(f, y) ==
  /\ y \in ready[f]
  /\ ready' = [ready EXCEPT ![f] = @ \ {y}]
  /\ UNCHANGED <<ctxVars, reg, rdlist, userVars, jobVars, pollVars, fault>>

-----------------------------------------------------------------------------
(* FdContext::triggerEvent *)

\* Mutant: only the fiber is looked at.
PickedFiber(c, y) == ctx[c].fiber[y]

\* The handler that triggerEvent picks: cb, which nobody ever clears, goes
\* before fiber.
Picked(c, y) == IF ctx[c].cb[y] # None THEN ctx[c].cb[y] ELSE ctx[c].fiber[y]

\* addJob is called through EventContext::scheduler, which may be null.
Crashes(c, y) == Picked(c, y) # None /\ ~ctx[c].scheduler[y]

\* The handlers of the types go to addJob, once for each type.
Queue(c, types) ==
  LET handlers == {Picked(c, y) : y \in {z \in types : ~Crashes(c, z)}} \ {None} IN
  /\ jobs' = jobs \cup handlers
  /\ fired' = [h \in Handlers |-> IF h \in handlers /\ fired[h] < 2
                                  THEN fired[h] + 1 ELSE fired[h]]
  /\ fault' = IF \E y \in types : Crashes(c, y) THEN "null scheduler" ELSE fault

\* Mutant: triggerEvent changes nothing in the context.
TriggeredNothing(c, types, bits) == ctx[c]

\* What triggerEvent leaves in the context, given the bits that it stores.
Triggered(c, types, bits) ==
  [ctx[c] EXCEPT !.event = bits,
                 !.scheduler = [y \in Types |-> @[y] /\ y \notin types]]

-----------------------------------------------------------------------------
(* addEvent *)

\* A user starts an operation.
Begin(u) ==
  /\ op[u] = NoOp
  /\ OneThread => NobodyBusy /\ PollersAway

\* Mutant: the new context does not learn its descriptor.
CreatedWithoutFd(f, y) == [NewContext(f) EXCEPT !.event = {y}, !.fd = None]

Created(f, y) == [NewContext(f) EXCEPT !.event = {y}]

\* Mutant: a descriptor that has a context is added to epoll again.
AlwaysAdd(found) == "ADD"

AddCtl(found) == IF found = None THEN "ADD" ELSE "MOD"

\* Under mutex_: find or create the context and set the event bit.
AddFirst(u, h) ==
  LET f == u[1]
      y == u[2]
      found == fdContexts[f]
  IN
  /\ Begin(u)
  /\ mine[u] = None
  /\ h \in Handlers \ used
  /\ used' = used \cup {h}
  /\ \E c \in (IF found = None THEN {d \in Contexts : ~Exists(d)} ELSE {found}) :
       /\ fdContexts' = [fdContexts EXCEPT ![f] = c]
       /\ ctx' = [ctx EXCEPT ![c] =
            IF found = None THEN Created(f, y)
            ELSE [ctx[c] EXCEPT !.event = @ \cup {y}]]
       /\ op' = [op EXCEPT ![u] = [kind |-> "add", con |-> c, h |-> h,
                                       ctl |-> AddCtl(found)]]
  /\ UNCHANGED <<pending, kernelVars, mine, jobVars, pollVars, fault>>

\* The context with the handler h of user u: GetCurrentScheduler() is null on
\* the thread of an outsider; a callable is swapped into cb, a fiber goes into
\* fiber and leaves cb as it is.
Registered(c, u, h) ==
  [ctx[c] EXCEPT !.scheduler[u[2]] = u \notin Outsiders,
                 !.cb[u[2]] = IF h \in Callbacks THEN h ELSE @,
                 !.fiber[u[2]] = IF h \in FiberHandlers THEN h ELSE @]

\* Under fdMutex_: set the handler, tell epoll, count.  When epoll_ctl fails
\* the event bit and the handler stay.
AddSecond(u) ==
  LET o == op[u]
      c == o.con
      succeeds == CtlSucceeds(o.ctl, u[1])
  IN
  /\ o.kind = "add"
  /\ fdMutex[c] = None
  /\ ctx' = [ctx EXCEPT ![c] = Registered(c, u, o.h)]
  /\ EpollCtl(o.ctl, u[1], ctx[c].event, c)
  /\ pending' = IF succeeds THEN pending + 1 ELSE pending
  /\ mine' = [mine EXCEPT ![u] = IF succeeds THEN o.h ELSE None]
  /\ op' = [op EXCEPT ![u] = NoOp]
  /\ UNCHANGED <<fdContexts, used, jobVars, pollVars, fault>>

-----------------------------------------------------------------------------
(* delEvent, cancelEvent *)

\* Mutant: the event is not counted out.
NotCounted(u) == pending' = pending

CountOut(u) ==
  pending' = IF CtlSucceeds(op[u].ctl, u[1]) THEN pending - 1 ELSE pending

\* Under mutex_: clear the event bit.  A user calls either only for an event
\* that it has added and whose handler has not run; ZZG_ASSERT(false) when the
\* event is not there.
RemoveFirst(u, kind) ==
  LET c == fdContexts[u[1]]
      rest == ctx[c].event \ {u[2]}
  IN
  /\ Begin(u)
  /\ u \in Removers
  /\ mine[u] # None
  /\ IF c = None \/ u[2] \notin ctx[c].event
     THEN /\ fault' = "assertion"
          /\ UNCHANGED <<ctx, op>>
     ELSE /\ ctx' = [ctx EXCEPT ![c].event = rest]
          /\ op' = [op EXCEPT ![u] =
               [kind |-> kind, con |-> c, h |-> mine[u],
                ctl |-> IF rest = {} THEN "DEL" ELSE "MOD"]]
          /\ UNCHANGED fault
  /\ UNCHANGED <<fdContexts, pending, kernelVars, mine, used, jobVars, pollVars>>

\* Return, or go on to erase the context.
AfterSecond(u) ==
  /\ mine' = [mine EXCEPT ![u] = None]
  /\ op' = [op EXCEPT ![u] = IF @.ctl = "DEL" /\ CtlSucceeds(@.ctl, u[1])
                             THEN [@ EXCEPT !.kind = "erase"] ELSE NoOp]

\* Under fdMutex_: delEvent drops the handler.
DelSecond(u) ==
  LET c == op[u].con
      y == u[2]
      succeeds == CtlSucceeds(op[u].ctl, u[1])
  IN
  /\ op[u].kind = "del"
  /\ fdMutex[c] = None
  /\ EpollCtl(op[u].ctl, u[1], ctx[c].event, c)
  /\ CountOut(u)
  /\ ctx' = [ctx EXCEPT ![c] =
       IF succeeds THEN [@ EXCEPT !.cb[y] = None, !.fiber[y] = None, !.scheduler[y] = FALSE]
       ELSE @]
  /\ AfterSecond(u)
  /\ UNCHANGED <<fdContexts, used, jobVars, pollVars, fault>>

\* Under fdMutex_: cancelEvent triggers the handler.
CancelSecond(u) ==
  LET c == op[u].con
      y == u[2]
      succeeds == CtlSucceeds(op[u].ctl, u[1])
  IN
  /\ op[u].kind = "cancel"
  /\ fdMutex[c] = None
  /\ EpollCtl(op[u].ctl, u[1], ctx[c].event, c)
  /\ CountOut(u)
  /\ IF succeeds
     THEN /\ Queue(c, {y})
          /\ ctx' = [ctx EXCEPT ![c] = Triggered(c, {y}, ctx[c].event \ {y})]
     ELSE UNCHANGED <<ctx, jobVars, fault>>
  /\ AfterSecond(u)
  /\ UNCHANGED <<fdContexts, used, pollVars>>

\* Under mutex_ again: the descriptor has no event left, whatever context
\* fdContexts_ holds for it now is erased.
Erase(u) ==
  /\ op[u].kind = "erase"
  /\ fdContexts' = [fdContexts EXCEPT ![u[1]] = None]
  /\ op' = [op EXCEPT ![u] = NoOp]
  /\ UNCHANGED <<ctx, pending, kernelVars, mine, used, jobVars, pollVars, fault>>

-----------------------------------------------------------------------------
(* cancalAll *)

\* Under mutex_: the context is erased at once.
CancelAllFirst(u) ==
  LET f == u[1]
      c == fdContexts[f]
  IN
  /\ Begin(u)
  /\ u \in Removers
  /\ mine[u] # None
  /\ fdContexts' = [fdContexts EXCEPT ![f] = None]
  /\ IF c = None \/ ctx[c].event = {}
     THEN fault' = "assertion" /\ UNCHANGED op
     ELSE /\ op' = [op EXCEPT ![u] = [kind |-> "all", con |-> c, ctl |-> "DEL",
                                      h |-> mine[u]]]
          /\ UNCHANGED fault
  /\ UNCHANGED <<ctx, pending, kernelVars, mine, used, jobVars, pollVars>>

\* Under fdMutex_: every event that is left is triggered.
CancelAllSecond(u) ==
  LET f == u[1]
      c == op[u].con
  IN
  /\ op[u].kind = "all"
  /\ fdMutex[c] = None
  /\ EpollCtl("DEL", f, {}, c)
  /\ IF CtlSucceeds("DEL", f)
     THEN /\ Queue(c, ctx[c].event)
          /\ pending' = pending - Cardinality(ctx[c].event)
          /\ ctx' = [ctx EXCEPT ![c] = Triggered(c, ctx[c].event, {})]
     ELSE UNCHANGED <<ctx, pending, jobVars, fault>>
  /\ mine' = [v \in Users |-> IF v[1] = f THEN None ELSE mine[v]]
  /\ op' = [op EXCEPT ![u] = NoOp]
  /\ UNCHANGED <<fdContexts, used, pollVars>>

-----------------------------------------------------------------------------
(* idle() *)

Reported(f) == [con |-> reg[f].con, types |-> ready[f] \cap reg[f].interest]

\* epoll_wait reports the ready list and, edge-triggered, empties it.  A report
\* of an error or a hang-up alone is not modelled: descriptors stay healthy.
\* (idle() would give the operation DEL for it, with the event still set.)
Wait(t) ==
  LET events == {e \in {Reported(f) : f \in rdlist} : e.types # {}} IN
  /\ pc[t] = "away"
  /\ OneThread => NobodyBusy
  /\ events # {}
  /\ batch' = [batch EXCEPT ![t] = events]
  /\ rdlist' = {}
  /\ pc' = [pc EXCEPT ![t] = "dispatching"]
  /\ UNCHANGED <<ctxVars, reg, ready, userVars, jobVars, fdMutex, cur, seen, fault>>

\* Mutant: epoll is not told.
NoRearm(c, remain) == UNCHANGED kernelVars

\* What is left to wait for is deleted: DEL and MOD are the wrong way round.
Rearm(c, remain) == EpollCtl(IF remain # {} THEN "DEL" ELSE "MOD", ctx[c].fd, remain, c)

\* Lock fdMutex_ and tell epoll; a failure is only logged.
Dispatch(t) ==
  /\ pc[t] = "dispatching"
  /\ \E e \in batch[t] :
       LET c == e.con IN
       IF ~Exists(c)
       THEN /\ fault' = "freed context"
            /\ UNCHANGED <<kernelVars, pollVars>>
       ELSE /\ fdMutex[c] = None
            /\ fdMutex' = [fdMutex EXCEPT ![c] = t]
            /\ Rearm(c, ctx[c].event \ e.types)
            /\ batch' = [batch EXCEPT ![t] = @ \ {e}]
            /\ cur' = [cur EXCEPT ![t] = e]
            /\ seen' = [seen EXCEPT ![t] = ctx[c].event]
            /\ pc' = [pc EXCEPT ![t] = "firing"]
            /\ UNCHANGED fault
  /\ UNCHANGED <<ctxVars, userVars, jobVars>>

\* triggerEvent for the next reported type, READ first, whether or not its
\* bit is set; the last one unlocks.
Fire(t) ==
  LET c == cur[t].con
      y == IF "READ" \in cur[t].types THEN "READ" ELSE "WRITE"
      rest == cur[t].types \ {y}
  IN
  /\ pc[t] = "firing"
  /\ IF ~Exists(c)
     THEN /\ fault' = "freed context"
          /\ UNCHANGED <<ctx, pending, jobVars, pollVars>>
     ELSE /\ Queue(c, {y})
          /\ ctx' = [ctx EXCEPT ![c] = Triggered(c, {y}, seen[t] \ {y})]
          /\ pending' = pending - 1
          /\ seen' = [seen EXCEPT ![t] = seen[t] \ {y}]
          /\ cur' = [cur EXCEPT ![t].types = rest]
          /\ IF rest # {} THEN UNCHANGED <<fdMutex, pc>>
             ELSE /\ fdMutex' = [fdMutex EXCEPT ![c] = None]
                  /\ pc' = [pc EXCEPT ![t] = IF batch[t] = {} THEN "away"
                                                              ELSE "dispatching"]
          /\ UNCHANGED batch
  /\ UNCHANGED <<fdContexts, kernelVars, userVars>>

\* run() executes a handler that was queued: its user learns of the event.
Run(h) ==
  /\ h \in jobs
  /\ OneThread => NobodyBusy /\ PollersAway
  /\ jobs' = jobs \ {h}
  /\ mine' = [u \in Users |-> IF mine[u] = h THEN None ELSE mine[u]]
  /\ UNCHANGED <<ctxVars, kernelVars, op, used, fired, pollVars, fault>>

-----------------------------------------------------------------------------

UserStep(u) ==
  \/ \E h \in Handlers : AddFirst(u, h)
  \/ AddSecond(u)
  \/ \E kind \in {"del", "cancel"} : RemoveFirst(u, kind)
  \/ DelSecond(u)
  \/ CancelSecond(u)
  \/ Erase(u)
  \/ CancelAllFirst(u)
  \/ CancelAllSecond(u)

Poller(t) ==
  \/ Wait(t)
  \/ Dispatch(t)
  \/ Fire(t)

Sound == fault = "none"

\* After a fault nothing more is said.
Next ==
  \/ Sound /\ \E u \in Users : UserStep(u)
  \/ Sound /\ \E t \in Pollers : Poller(t)
  \/ Sound /\ \E h \in Handlers : Run(h)
  \/ Sound /\ \E f \in Fds, y \in Types : Edge(f, y) \/ Drain(f, y)
  \/ ~Sound /\ UNCHANGED vars

Spec == Init /\ [][Next]_vars

\* Pollers go on, an operation that has begun is executed to its end, and
\* queued handlers are run.  Nobody has to begin an operation.
Fairness ==
  /\ \A t \in Pollers : WF_vars(Sound /\ Poller(t))
  /\ \A u \in Users : WF_vars(Sound /\ op[u] # NoOp /\ UserStep(u))
  /\ \A h \in Handlers : WF_vars(Sound /\ Run(h))

FairSpec == Spec /\ Fairness

-----------------------------------------------------------------------------
(* Properties *)

TypeOK ==
  /\ fdContexts \in [Fds -> Contexts \cup {None}]
  /\ \A c \in Contexts :
       /\ ctx[c].fd \in Fds
       /\ ctx[c].event \in SUBSET Types
       /\ ctx[c].cb \in [Types -> Callbacks \cup {None}]
       /\ ctx[c].fiber \in [Types -> FiberHandlers \cup {None}]
       /\ ctx[c].scheduler \in [Types -> BOOLEAN]
  /\ pending \in Int
  /\ \A f \in Fds : reg[f].on => reg[f].con \in Contexts
  /\ rdlist \in SUBSET Fds
  /\ mine \in [Users -> Handlers \cup {None}]
  /\ jobs \in SUBSET used
  /\ fired \in [Handlers -> 0 .. 2]
  /\ fdMutex \in [Contexts -> Pollers \cup {None}]

\* Nobody is in the middle of an operation or of a dispatch.
Quiet == Sound /\ NobodyBusy /\ PollersAway

\* The event bits: the events that are waited for.
Armed == {u \in Users : fdContexts[u[1]] # None /\ u[2] \in ctx[fdContexts[u[1]]].event}

\* pendingEventCount_ is the number of events that are waited for
\* ("当前等待执行的事件数量"): isStop() relies on it to stop at last, and not
\* before.
PendingExact == Quiet => pending = Cardinality(Armed)

\* What fdContexts_ says is waited for ("我关心的事件类型") is what the kernel
\* watches, through the same context, and an edge that has come is not missed.
Watched ==
  Quiet => \A u \in Armed :
    /\ u[2] \in reg[u[1]].interest
    /\ reg[u[1]].con = fdContexts[u[1]]
    /\ u[2] \in ready[u[1]] => u[1] \in rdlist

\* One registration gives at most one job, whatever edges, cancels and
\* repeated registrations come together.
FiredOnce == \A h \in Handlers : fired[h] <= 1

\* No null scheduler is called and no freed context is used through the raw
\* pointer that epoll returns.
NothingUndefined == fault \notin {"null scheduler", "freed context"}

\* The handler of an event that was added is queued when its descriptor is
\* ready and stays so, unless its user removes it (or the process asserts).
FiresWhenReady ==
  \A u \in Users, h \in Handlers :
    mine[u] = h /\ u[2] \in ready[u[1]] ~>
      fired[h] > 0 \/ mine[u] # h \/ u[2] \notin ready[u[1]] \/ ~Sound
=============================================================================
