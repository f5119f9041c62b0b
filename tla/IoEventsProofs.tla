--------------------------- MODULE IoEventsProofs ---------------------------
\* What holds of the descriptor events: the types, for every value of the
\* constants; and that the counter, the event bits, the kernel and the handlers
\* agree, for every number of descriptors, callables and contexts, where each
\* descriptor has one event and the users run as jobs on the only poller's
\* thread.
EXTENDS IoEvents, FiniteSetTheorems, TLAPS

-----------------------------------------------------------------------------
(* Types *)

ContextType ==
  [fd : Fds, event : SUBSET Types, cb : [Types -> Callbacks \cup {None}],
   fiber : [Types -> FiberHandlers \cup {None}], scheduler : [Types -> BOOLEAN]]

OpType ==
  [kind : {"none", "add", "del", "cancel", "erase", "all"}, con : Contexts \cup {None},
   ctl : {"none", "ADD", "MOD", "DEL"}, h : Handlers \cup {None}]

RegType == [on : BOOLEAN, interest : SUBSET Types, con : Contexts \cup {None}]

EventType == [con : Contexts \cup {None}, types : SUBSET Types]

\* Who is registered was given to addEvent.
HandlerUse == \A c \in Contexts, y \in Types :
  /\ ctx[c].cb[y] \in used \cup {None}
  /\ ctx[c].fiber[y] \in used \cup {None}

\* An operation that has begun has a context.
OpUse == \A u \in Users :
  /\ op[u] # NoOp => op[u].con \in Contexts
  /\ op[u].kind = "add" => op[u].h \in used

\* The kernel has the context that it was given ...
RegUse == \A f \in Fds :
  /\ reg[f].on => reg[f].con \in Contexts
  /\ reg[f].interest # {} => reg[f].on

\* ... and reports it.
PollUse == \A t \in Pollers :
  /\ \A e \in batch[t] : e.con \in Contexts /\ e.types # {}
  /\ pc[t] = "firing" => cur[t].con \in Contexts /\ cur[t].types # {}

TypeInv ==
  /\ fdContexts \in [Fds -> Contexts \cup {None}]
  /\ ctx \in [Contexts -> ContextType]
  /\ pending \in Int
  /\ reg \in [Fds -> RegType]
  /\ ready \in [Fds -> SUBSET Types]
  /\ rdlist \in SUBSET Fds
  /\ op \in [Users -> OpType]
  /\ mine \in [Users -> Handlers \cup {None}]
  /\ used \in SUBSET Handlers
  /\ jobs \in SUBSET used
  /\ fired \in [Handlers -> 0 .. 2]
  /\ fdMutex \in [Contexts -> Pollers \cup {None}]
  /\ pc \in [Pollers -> {"away", "dispatching", "firing"}]
  /\ batch \in [Pollers -> SUBSET EventType]
  /\ cur \in [Pollers -> EventType]
  /\ seen \in [Pollers -> SUBSET Types]
  /\ HandlerUse
  /\ OpUse
  /\ RegUse
  /\ PollUse

LEMMA NoneIsNothing == None \notin Handlers /\ None \notin Contexts
  BY EventAssumption

LEMMA TypesFinite == ASSUME NEW S \in SUBSET Types PROVE IsFiniteSet(S) /\ Cardinality(S) \in Nat
  <1>1. IsFiniteSet({"READ", "WRITE"})
    <2>1. IsFiniteSet({"READ"})
      BY FS_Singleton
    <2>2. {"READ", "WRITE"} = {"READ"} \cup {"WRITE"}
      OBVIOUS
    <2> QED
      BY <2>1, <2>2, FS_AddElement
  <1>2. S \subseteq {"READ", "WRITE"}
    BY EventAssumption
  <1>3. IsFiniteSet(S)
    BY <1>1, <1>2, FS_Subset
  <1> QED
    BY <1>3, FS_CardinalityType

LEMMA InitTypes == Init => TypeInv
  <1> SUFFICES ASSUME Init
               PROVE  TypeInv
    OBVIOUS
  <1>1. (CHOOSE f \in Fds : TRUE) \in Fds
    BY EventAssumption
  <1>2. NewContext(CHOOSE f \in Fds : TRUE) \in ContextType
    BY <1>1 DEF NewContext, ContextType
  <1>3. Unregistered \in RegType /\ NoOp \in OpType /\ NoEvent \in EventType
    BY DEF Unregistered, RegType, NoOp, OpType, NoEvent, EventType
  <1>4. ctx \in [Contexts -> ContextType]
    BY <1>2 DEF Init
  <1>5. HandlerUse /\ OpUse /\ RegUse /\ PollUse
    BY DEF Init, HandlerUse, OpUse, RegUse, PollUse, NewContext, Unregistered, NoOp, Users
  <1> QED
    BY <1>3, <1>4, <1>5 DEF Init, TypeInv

\* What epoll_ctl leaves.
LEMMA CtlTypes ==
  ASSUME TypeInv, NEW ctl, NEW f \in Fds, NEW interest \in SUBSET Types, NEW c \in Contexts,
         EpollCtl(ctl, f, interest, c)
  PROVE  /\ reg' \in [Fds -> RegType]
         /\ ready' = ready
         /\ rdlist' \in SUBSET Fds
         /\ RegUse'
  <1>1. CASE CtlSucceeds(ctl, f)
    <2> DEFINE r == IF ctl = "DEL" THEN Unregistered
                    ELSE [on |-> TRUE, interest |-> interest, con |-> c]
    <2>1. reg' = [reg EXCEPT ![f] = r] /\ ready' = ready /\ rdlist' \in SUBSET Fds
      BY <1>1 DEF EpollCtl, TypeInv
    <2>2. r \in RegType /\ (r.on => r.con \in Contexts) /\ (r.interest # {} => r.on)
      BY DEF RegType, Unregistered
    <2> HIDE DEF r
    <2> QED
      BY <2>1, <2>2 DEF TypeInv, RegUse
  <1>2. CASE ~ CtlSucceeds(ctl, f)
    BY <1>2 DEF EpollCtl, kernelVars, TypeInv, RegUse
  <1> QED
    BY <1>1, <1>2

\* What triggerEvent leaves.
LEMMA QueueTypes ==
  ASSUME TypeInv, NEW c \in Contexts, NEW types \in SUBSET Types, Queue(c, types)
  PROVE  jobs' \in SUBSET used /\ fired' \in [Handlers -> 0 .. 2]
  <1>1. \A y \in types : Picked(c, y) \in used \cup {None}
    BY DEF TypeInv, HandlerUse, Picked
  <1>2. jobs' \in SUBSET used
    BY <1>1 DEF Queue, TypeInv
  <1>3. \A h \in Handlers : fired[h] \in 0 .. 2 /\ (fired[h] < 2 => fired[h] + 1 \in 0 .. 2)
    BY DEF TypeInv
  <1> QED
    BY <1>2, <1>3 DEF Queue

LEMMA TriggeredTypes ==
  ASSUME TypeInv, NEW c \in Contexts, NEW types \in SUBSET Types, NEW bits \in SUBSET Types
  PROVE  /\ Triggered(c, types, bits) \in ContextType
         /\ Triggered(c, types, bits).cb = ctx[c].cb
         /\ Triggered(c, types, bits).fiber = ctx[c].fiber
  <1> DEFINE sched == [y \in Types |-> ctx[c].scheduler[y] /\ y \notin types]
  <1>1. ctx[c] \in ContextType
    BY DEF TypeInv
  <1>2. sched \in [Types -> BOOLEAN]
    OBVIOUS
  <1>3. Triggered(c, types, bits) = [ctx[c] EXCEPT !.event = bits, !.scheduler = sched]
    BY DEF Triggered
  <1> HIDE DEF sched
  <1> QED
    BY <1>1, <1>2, <1>3 DEF ContextType

LEMMA UserTypes ==
  ASSUME TypeInv, NEW u \in Users
  PROVE  /\ u[1] \in Fds /\ u[2] \in Types
         /\ fdContexts[u[1]] \in Contexts \cup {None}
         /\ op[u] \in OpType /\ (op[u].kind # "none" => op[u].con \in Contexts)
         /\ \A c \in Contexts : ctx[c] \in ContextType
  BY DEF TypeInv, Users, OpUse, NoOp

\* A user's operation keeps the types of what the pollers have.
LEMMA PollTypes ==
  ASSUME TypeInv, UNCHANGED pollVars
  PROVE  /\ fdMutex' \in [Contexts -> Pollers \cup {None}]
         /\ pc' \in [Pollers -> {"away", "dispatching", "firing"}]
         /\ batch' \in [Pollers -> SUBSET EventType]
         /\ cur' \in [Pollers -> EventType]
         /\ seen' \in [Pollers -> SUBSET Types]
         /\ PollUse'
  BY DEF TypeInv, pollVars, PollUse

\* A context whose bits change.
LEMMA BitsProps ==
  ASSUME NEW x \in ContextType, NEW bits \in SUBSET Types
  PROVE  /\ [x EXCEPT !.event = bits] \in ContextType
         /\ [x EXCEPT !.event = bits].event = bits
         /\ [x EXCEPT !.event = bits].fd = x.fd
         /\ [x EXCEPT !.event = bits].cb = x.cb
         /\ [x EXCEPT !.event = bits].fiber = x.fiber
         /\ [x EXCEPT !.event = bits].scheduler = x.scheduler
  BY DEF ContextType

LEMMA AddFirstTypes ==
  ASSUME TypeInv, NEW u \in Users, NEW h \in Handlers, AddFirst(u, h)
  PROVE  TypeInv'
  <1> DEFINE f == u[1]
             found == fdContexts[f]
  <1>1. f \in Fds /\ u[2] \in Types /\ found \in Contexts \cup {None}
    BY UserTypes
  <1>2. PICK c \in (IF found = None THEN {d \in Contexts : ~Exists(d)} ELSE {found}) :
          /\ fdContexts' = [fdContexts EXCEPT ![f] = c]
          /\ ctx' = [ctx EXCEPT ![c] = IF found = None THEN Created(f, u[2])
                                       ELSE [ctx[c] EXCEPT !.event = @ \cup {u[2]}]]
          /\ op' = [op EXCEPT ![u] = [kind |-> "add", con |-> c, h |-> h, ctl |-> AddCtl(found)]]
    BY DEF AddFirst
  <1>3. /\ used' = used \cup {h}
        /\ UNCHANGED <<pending, kernelVars, mine, jobVars, pollVars, fault>>
    BY DEF AddFirst
  <1>4. c \in Contexts
    BY <1>1, <1>2
  <1>5. PICK x \in ContextType :
          /\ ctx' = [ctx EXCEPT ![c] = x]
          /\ \A y \in Types : x.cb[y] \in used \cup {None} /\ x.fiber[y] \in used \cup {None}
    <2>1. CASE found = None
      <3>1. /\ Created(f, u[2]) \in ContextType
            /\ \A y \in Types : Created(f, u[2]).cb[y] = None /\ Created(f, u[2]).fiber[y] = None
        BY <1>1 DEF Created, NewContext, ContextType
      <3>2. ctx' = [ctx EXCEPT ![c] = Created(f, u[2])]
        BY <1>2, <2>1
      <3> QED
        BY <3>1, <3>2
    <2>2. CASE found # None
      <3> DEFINE bits == ctx[c].event \cup {u[2]}
      <3>1. ctx[c] \in ContextType
        BY <1>4 DEF TypeInv
      <3>2. bits \in SUBSET Types
        BY <1>1, <3>1 DEF ContextType
      <3>3. ctx' = [ctx EXCEPT ![c] = [ctx[c] EXCEPT !.event = bits]]
        <4> DEFINE w == IF found = None THEN Created(f, u[2])
                        ELSE [ctx[c] EXCEPT !.event = @ \cup {u[2]}]
        <4>1. ctx' = [ctx EXCEPT ![c] = w]
          BY <1>2
        <4>2. w = [ctx[c] EXCEPT !.event = bits]
          BY <2>2
        <4> HIDE DEF w
        <4> QED
          BY <4>1, <4>2
      <3> HIDE DEF bits
      <3>4. /\ [ctx[c] EXCEPT !.event = bits] \in ContextType
            /\ [ctx[c] EXCEPT !.event = bits].cb = ctx[c].cb
            /\ [ctx[c] EXCEPT !.event = bits].fiber = ctx[c].fiber
        BY <3>1, <3>2, BitsProps
      <3>5. \A y \in Types : ctx[c].cb[y] \in used \cup {None} /\ ctx[c].fiber[y] \in used \cup {None}
        BY <1>4 DEF TypeInv, HandlerUse
      <3> QED
        BY <3>3, <3>4, <3>5
    <2> QED
      BY <2>1, <2>2
  <1>7. ctx' \in [Contexts -> ContextType] /\ HandlerUse'
    <2>1. ctx' \in [Contexts -> ContextType]
      BY <1>4, <1>5 DEF TypeInv
    <2>2. \A d \in Contexts : ctx'[d] = IF d = c THEN x ELSE ctx[d]
      BY <1>4, <1>5 DEF TypeInv
    <2> QED
      BY <1>3, <1>5, <2>1, <2>2 DEF TypeInv, HandlerUse
  <1>8. op' \in [Users -> OpType] /\ OpUse'
    <2>1. [kind |-> "add", con |-> c, h |-> h, ctl |-> AddCtl(found)] \in OpType
      BY <1>4 DEF OpType, AddCtl
    <2> QED
      BY <1>2, <1>3, <1>4, <2>1 DEF TypeInv, OpUse
  <1>9. fdContexts' \in [Fds -> Contexts \cup {None}] /\ used' \in SUBSET Handlers /\ jobs' \in SUBSET used'
    BY <1>1, <1>2, <1>3, <1>4 DEF TypeInv, jobVars
  <1> QED
    BY <1>3, <1>7, <1>8, <1>9, PollTypes DEF TypeInv, kernelVars, jobVars, RegUse

LEMMA AddSecondTypes ==
  ASSUME TypeInv, NEW u \in Users, AddSecond(u)
  PROVE  TypeInv'
  <1> DEFINE c == op[u].con
             h == op[u].h
  <1>1. /\ op[u].kind = "add" /\ c \in Contexts /\ u[1] \in Fds /\ u[2] \in Types
        /\ h \in used /\ h \in Handlers /\ ctx[c] \in ContextType
    BY UserTypes DEF AddSecond, TypeInv, OpUse
  <1>2. /\ ctx' = [ctx EXCEPT ![c] = Registered(c, u, h)]
        /\ EpollCtl(op[u].ctl, u[1], ctx[c].event, c)
        /\ pending' = pending + 1 \/ pending' = pending
        /\ mine' = [mine EXCEPT ![u] = h] \/ mine' = [mine EXCEPT ![u] = None]
        /\ op' = [op EXCEPT ![u] = NoOp]
        /\ UNCHANGED <<fdContexts, used, jobVars, pollVars, fault>>
    BY DEF AddSecond
  <1>3. /\ Registered(c, u, h) \in ContextType
        /\ \A y \in Types : /\ Registered(c, u, h).cb[y] \in used \cup {None}
                              /\ Registered(c, u, h).fiber[y] \in used \cup {None}
    <2> DEFINE x  == ctx[c]
               y  == u[2]
               sc == [x.scheduler EXCEPT ![y] = u \notin Outsiders]
               cb == [x.cb EXCEPT ![y] = IF h \in Callbacks THEN h ELSE @]
               fb == [x.fiber EXCEPT ![y] = IF h \in FiberHandlers THEN h ELSE @]
    <2>1. /\ x.scheduler \in [Types -> BOOLEAN]
          /\ x.cb \in [Types -> Callbacks \cup {None}]
          /\ x.fiber \in [Types -> FiberHandlers \cup {None}]
          /\ \A z \in Types : x.cb[z] \in used \cup {None} /\ x.fiber[z] \in used \cup {None}
      BY <1>1 DEF ContextType, TypeInv, HandlerUse
    <2>2. sc \in [Types -> BOOLEAN]
      BY <1>1, <2>1
    <2>3. cb \in [Types -> Callbacks \cup {None}] /\ \A z \in Types : cb[z] \in used \cup {None}
      BY <1>1, <2>1
    <2>4. fb \in [Types -> FiberHandlers \cup {None}] /\ \A z \in Types : fb[z] \in used \cup {None}
      BY <1>1, <2>1
    <2>5. Registered(c, u, h) = [x EXCEPT !.scheduler = sc, !.cb = cb, !.fiber = fb]
      BY <1>1 DEF Registered, ContextType
    <2> HIDE DEF sc, cb, fb
    <2> QED
      BY <1>1, <2>2, <2>3, <2>4, <2>5 DEF ContextType
  <1>4. ctx' \in [Contexts -> ContextType] /\ HandlerUse'
    BY <1>1, <1>2, <1>3 DEF TypeInv, HandlerUse
  <1>5. reg' \in [Fds -> RegType] /\ ready' = ready /\ rdlist' \in SUBSET Fds /\ RegUse'
    <2>1. ctx[c].event \in SUBSET Types
      BY <1>1 DEF ContextType
    <2> QED
      BY <1>1, <1>2, <2>1, CtlTypes
  <1>6. op' \in [Users -> OpType] /\ OpUse'
    BY <1>2 DEF TypeInv, OpUse, OpType, NoOp
  <1>7. mine' \in [Users -> Handlers \cup {None}] /\ pending' \in Int
    BY <1>1, <1>2 DEF TypeInv
  <1> QED
    BY <1>2, <1>4, <1>5, <1>6, <1>7, PollTypes DEF TypeInv, jobVars

LEMMA RemoveFirstTypes ==
  ASSUME TypeInv, NEW u \in Users, NEW kind \in {"del", "cancel"}, RemoveFirst(u, kind)
  PROVE  TypeInv'
  <1> DEFINE c == fdContexts[u[1]]
             rest == ctx[c].event \ {u[2]}
  <1>1. /\ UNCHANGED <<fdContexts, pending, kernelVars, mine, used, jobVars, pollVars>>
        /\ mine[u] \in Handlers \cup {None}
        /\ c \in Contexts \cup {None}
    BY UserTypes DEF RemoveFirst, TypeInv
  <1>2. CASE UNCHANGED <<ctx, op>>
    BY <1>1, <1>2, PollTypes DEF TypeInv, kernelVars, jobVars, HandlerUse, OpUse, RegUse
  <1>3. CASE /\ c # None
             /\ ctx' = [ctx EXCEPT ![c].event = rest]
             /\ op' = [op EXCEPT ![u] = [kind |-> kind, con |-> c, h |-> mine[u],
                                         ctl |-> IF rest = {} THEN "DEL" ELSE "MOD"]]
    <2>1. c \in Contexts
      BY <1>1, <1>3
    <2>2. /\ ctx[c] \in ContextType
          /\ [ctx[c] EXCEPT !.event = rest] \in ContextType
          /\ [ctx[c] EXCEPT !.event = rest].cb = ctx[c].cb
          /\ [ctx[c] EXCEPT !.event = rest].fiber = ctx[c].fiber
      <3>1. ctx[c] \in ContextType
        BY <2>1 DEF TypeInv
      <3>2. rest \in SUBSET Types
        BY <3>1 DEF ContextType
      <3> HIDE DEF rest
      <3> QED
        BY <3>1, <3>2, BitsProps
    <2>3. ctx' = [ctx EXCEPT ![c] = [ctx[c] EXCEPT !.event = rest]]
      BY <1>3
    <2> HIDE DEF rest
    <2>4. ctx' \in [Contexts -> ContextType] /\ HandlerUse'
      <3>1. ctx' \in [Contexts -> ContextType]
        BY <2>1, <2>2, <2>3 DEF TypeInv
      <3>2. \A d \in Contexts : ctx'[d].cb = ctx[d].cb /\ ctx'[d].fiber = ctx[d].fiber
        BY <2>1, <2>2, <2>3 DEF TypeInv
      <3> QED
        BY <1>1, <3>1, <3>2 DEF TypeInv, HandlerUse
    <2>5. op' \in [Users -> OpType] /\ OpUse'
      <3>1. [kind |-> kind, con |-> c, h |-> mine[u], ctl |-> IF rest = {} THEN "DEL" ELSE "MOD"] \in OpType
        BY <1>1 DEF OpType
      <3> QED
        BY <1>1, <1>3, <2>1, <3>1 DEF TypeInv, OpUse
    <2> QED
      BY <1>1, <2>4, <2>5, PollTypes DEF TypeInv, kernelVars, jobVars, RegUse
  <1> QED
    BY <1>2, <1>3 DEF RemoveFirst

\* delEvent and cancelEvent end in the same way.
LEMMA AfterSecondTypes ==
  ASSUME TypeInv, NEW u \in Users, op[u].kind # "none", AfterSecond(u), used' = used
  PROVE  op' \in [Users -> OpType] /\ OpUse' /\ mine' \in [Users -> Handlers \cup {None}]
  <1> DEFINE o == IF op[u].ctl = "DEL" /\ CtlSucceeds(op[u].ctl, u[1])
                  THEN [op[u] EXCEPT !.kind = "erase"] ELSE NoOp
  <1>1. op[u] \in OpType /\ op[u].con \in Contexts
    BY UserTypes
  <1>2. o \in OpType /\ (o # NoOp => o.con \in Contexts) /\ o.kind # "add"
    BY <1>1 DEF OpType, NoOp
  <1>3. op' = [op EXCEPT ![u] = o] /\ mine' = [mine EXCEPT ![u] = None]
    BY DEF AfterSecond
  <1> HIDE DEF o
  <1> QED
    BY <1>2, <1>3 DEF TypeInv, OpUse

LEMMA DelSecondTypes ==
  ASSUME TypeInv, NEW u \in Users, DelSecond(u)
  PROVE  TypeInv'
  <1> DEFINE c == op[u].con
             y == u[2]
  <1>1. /\ op[u].kind = "del" /\ c \in Contexts /\ u[1] \in Fds /\ y \in Types
        /\ ctx[c] \in ContextType
    BY UserTypes DEF DelSecond
  <1>2. /\ EpollCtl(op[u].ctl, u[1], ctx[c].event, c)
        /\ CountOut(u)
        /\ AfterSecond(u)
        /\ UNCHANGED <<fdContexts, used, jobVars, pollVars, fault>>
    BY DEF DelSecond
  <1>3. \/ ctx' = [ctx EXCEPT ![c] = [ctx[c] EXCEPT !.cb[y] = None, !.fiber[y] = None,
                                                  !.scheduler[y] = FALSE]]
        \/ ctx' = [ctx EXCEPT ![c] = ctx[c]]
    BY DEF DelSecond
  <1>4. ctx' \in [Contexts -> ContextType] /\ HandlerUse'
    <2>1. PICK x \in ContextType :
            /\ ctx' = [ctx EXCEPT ![c] = x]
            /\ \A z \in Types : x.cb[z] \in used \cup {None} /\ x.fiber[z] \in used \cup {None}
      <3> DEFINE x == [ctx[c] EXCEPT !.cb[y] = None, !.fiber[y] = None, !.scheduler[y] = FALSE]
      <3>1. \A z \in Types : ctx[c].cb[z] \in used \cup {None} /\ ctx[c].fiber[z] \in used \cup {None}
        BY <1>1 DEF TypeInv, HandlerUse
      <3>2. x \in ContextType /\ \A z \in Types : x.cb[z] \in used \cup {None} /\ x.fiber[z] \in used \cup {None}
        BY <1>1, <3>1 DEF ContextType
      <3> HIDE DEF x
      <3>3. ctx' = [ctx EXCEPT ![c] = x] \/ ctx' = [ctx EXCEPT ![c] = ctx[c]]
        BY <1>3 DEF x
      <3> QED
        BY <1>1, <3>1, <3>2, <3>3
    <2> QED
      BY <1>1, <1>2, <2>1 DEF TypeInv, HandlerUse
  <1>5. reg' \in [Fds -> RegType] /\ ready' = ready /\ rdlist' \in SUBSET Fds /\ RegUse'
    <2>1. ctx[c].event \in SUBSET Types
      BY <1>1 DEF ContextType
    <2> QED
      BY <1>1, <1>2, <2>1, CtlTypes
  <1>6. op' \in [Users -> OpType] /\ OpUse' /\ mine' \in [Users -> Handlers \cup {None}]
    BY <1>1, <1>2, AfterSecondTypes
  <1>7. pending' \in Int
    BY <1>2 DEF CountOut, TypeInv
  <1> QED
    BY <1>2, <1>4, <1>5, <1>6, <1>7, PollTypes DEF TypeInv, jobVars

\* A context that triggerEvent has changed.
LEMMA TriggeredContext ==
  ASSUME TypeInv, NEW c \in Contexts, NEW types \in SUBSET Types, NEW bits \in SUBSET Types,
         ctx' = [ctx EXCEPT ![c] = Triggered(c, types, bits)], used' = used
  PROVE  ctx' \in [Contexts -> ContextType] /\ HandlerUse'
  BY TriggeredTypes DEF TypeInv, HandlerUse

LEMMA CancelSecondTypes ==
  ASSUME TypeInv, NEW u \in Users, CancelSecond(u)
  PROVE  TypeInv'
  <1> DEFINE c == op[u].con
             y == u[2]
  <1>1. /\ op[u].kind = "cancel" /\ c \in Contexts /\ u[1] \in Fds /\ y \in Types
        /\ ctx[c] \in ContextType
    BY UserTypes DEF CancelSecond
  <1>2. /\ EpollCtl(op[u].ctl, u[1], ctx[c].event, c)
        /\ CountOut(u)
        /\ AfterSecond(u)
        /\ UNCHANGED <<fdContexts, used, pollVars>>
    BY DEF CancelSecond
  <1>3. ctx[c].event \in SUBSET Types /\ ctx[c].event \ {y} \in SUBSET Types /\ {y} \in SUBSET Types
    BY <1>1 DEF ContextType
  <1>4. /\ ctx' \in [Contexts -> ContextType] /\ HandlerUse'
        /\ jobs' \in SUBSET used' /\ fired' \in [Handlers -> 0 .. 2]
    <2>1. CASE UNCHANGED <<ctx, jobVars, fault>>
      BY <1>2, <2>1 DEF TypeInv, HandlerUse, jobVars
    <2>2. CASE /\ Queue(c, {y})
               /\ ctx' = [ctx EXCEPT ![c] = Triggered(c, {y}, ctx[c].event \ {y})]
      BY <1>1, <1>2, <1>3, <2>2, QueueTypes, TriggeredContext
    <2> QED
      BY <2>1, <2>2 DEF CancelSecond
  <1>5. reg' \in [Fds -> RegType] /\ ready' = ready /\ rdlist' \in SUBSET Fds /\ RegUse'
    BY <1>1, <1>2, <1>3, CtlTypes
  <1>6. op' \in [Users -> OpType] /\ OpUse' /\ mine' \in [Users -> Handlers \cup {None}]
    BY <1>1, <1>2, AfterSecondTypes
  <1>7. pending' \in Int
    BY <1>2 DEF CountOut, TypeInv
  <1> QED
    BY <1>2, <1>4, <1>5, <1>6, <1>7, PollTypes DEF TypeInv

LEMMA EraseTypes ==
  ASSUME TypeInv, NEW u \in Users, Erase(u)
  PROVE  TypeInv'
  <1>1. /\ fdContexts' = [fdContexts EXCEPT ![u[1]] = None]
        /\ op' = [op EXCEPT ![u] = NoOp]
        /\ UNCHANGED <<ctx, pending, kernelVars, mine, used, jobVars, pollVars>>
    BY DEF Erase
  <1>2. op' \in [Users -> OpType] /\ OpUse'
    BY <1>1 DEF TypeInv, OpUse, OpType, NoOp
  <1> QED
    BY <1>1, <1>2, PollTypes DEF TypeInv, kernelVars, jobVars, HandlerUse, RegUse

LEMMA CancelAllTypes ==
  ASSUME TypeInv, NEW u \in Users, CancelAllFirst(u) \/ CancelAllSecond(u)
  PROVE  TypeInv'
  <1>1. CASE CancelAllFirst(u)
    <2> DEFINE c == fdContexts[u[1]]
    <2>1. /\ fdContexts' = [fdContexts EXCEPT ![u[1]] = None]
          /\ UNCHANGED <<ctx, pending, kernelVars, mine, used, jobVars, pollVars>>
          /\ c \in Contexts \cup {None}
      BY <1>1, UserTypes DEF CancelAllFirst
    <2>2. \/ op' = op
          \/ c # None /\ op' = [op EXCEPT ![u] = [kind |-> "all", con |-> c, ctl |-> "DEL", h |-> mine[u]]]
      BY <1>1 DEF CancelAllFirst
    <2>3. op' \in [Users -> OpType] /\ OpUse'
      <3>1. c # None => [kind |-> "all", con |-> c, ctl |-> "DEL", h |-> mine[u]] \in OpType
        BY <2>1 DEF OpType, TypeInv
      <3> QED
        BY <2>1, <2>2, <3>1 DEF TypeInv, OpUse
    <2> QED
      BY <2>1, <2>3, PollTypes DEF TypeInv, kernelVars, jobVars, HandlerUse, RegUse
  <1>2. CASE CancelAllSecond(u)
    <2> DEFINE c == op[u].con
    <2>1. /\ op[u].kind = "all" /\ c \in Contexts /\ u[1] \in Fds
          /\ ctx[c] \in ContextType
      BY <1>2, UserTypes DEF CancelAllSecond
    <2>2. /\ EpollCtl("DEL", u[1], {}, c)
          /\ mine' = [v \in Users |-> IF v[1] = u[1] THEN None ELSE mine[v]]
          /\ op' = [op EXCEPT ![u] = NoOp]
          /\ UNCHANGED <<fdContexts, used, pollVars>>
      BY <1>2 DEF CancelAllSecond
    <2>3. ctx[c].event \in SUBSET Types /\ {} \in SUBSET Types /\ Cardinality(ctx[c].event) \in Nat
      BY <2>1, TypesFinite DEF ContextType
    <2>4. /\ ctx' \in [Contexts -> ContextType] /\ HandlerUse'
          /\ jobs' \in SUBSET used' /\ fired' \in [Handlers -> 0 .. 2]
          /\ pending' \in Int
      <3>1. CASE UNCHANGED <<ctx, pending, jobVars, fault>>
        BY <2>2, <3>1 DEF TypeInv, HandlerUse, jobVars
      <3>2. CASE /\ Queue(c, ctx[c].event)
                 /\ pending' = pending - Cardinality(ctx[c].event)
                 /\ ctx' = [ctx EXCEPT ![c] = Triggered(c, ctx[c].event, {})]
        <4>1. jobs' \in SUBSET used' /\ fired' \in [Handlers -> 0 .. 2]
          BY <2>1, <2>2, <2>3, <3>2, QueueTypes
        <4>2. ctx' \in [Contexts -> ContextType] /\ HandlerUse'
          BY <2>1, <2>2, <2>3, <3>2, TriggeredContext
        <4> QED
          BY <2>3, <3>2, <4>1, <4>2 DEF TypeInv
      <3> QED
        BY <1>2, <3>1, <3>2 DEF CancelAllSecond
    <2>5. reg' \in [Fds -> RegType] /\ ready' = ready /\ rdlist' \in SUBSET Fds /\ RegUse'
      BY <2>1, <2>2, <2>3, CtlTypes
    <2>6. op' \in [Users -> OpType] /\ OpUse'
      BY <2>2 DEF TypeInv, OpUse, OpType, NoOp
    <2>7. mine' \in [Users -> Handlers \cup {None}]
      BY <2>2 DEF TypeInv
    <2> QED
      BY <2>2, <2>4, <2>5, <2>6, <2>7, PollTypes DEF TypeInv
  <1> QED
    BY <1>1, <1>2

\* A step of a poller, of the kernel or of run() leaves what users have.
LEMMA WaitTypes ==
  ASSUME TypeInv, NEW t \in Pollers, Wait(t)
  PROVE  TypeInv'
  <1> DEFINE events == {e \in {Reported(f) : f \in rdlist} : e.types # {}}
  <1>1. /\ batch' = [batch EXCEPT ![t] = events]
        /\ rdlist' = {}
        /\ pc' = [pc EXCEPT ![t] = "dispatching"]
        /\ UNCHANGED <<ctxVars, reg, ready, userVars, jobVars, fdMutex, cur, seen, fault>>
    BY DEF Wait
  <1>2. \A e \in events : e \in EventType /\ e.con \in Contexts /\ e.types # {}
    <2> SUFFICES ASSUME NEW f \in rdlist, Reported(f).types # {}
                 PROVE  Reported(f) \in EventType /\ Reported(f).con \in Contexts
      OBVIOUS
    <2>1. f \in Fds /\ reg[f] \in RegType /\ ready[f] \in SUBSET Types
      BY DEF TypeInv
    <2>2. reg[f].interest # {}
      BY DEF Reported
    <2>3. reg[f].con \in Contexts
      BY <2>1, <2>2 DEF TypeInv, RegUse
    <2> QED
      BY <2>1, <2>3 DEF Reported, EventType
  <1> HIDE DEF events
  <1>3. batch' \in [Pollers -> SUBSET EventType] /\ pc' \in [Pollers -> {"away", "dispatching", "firing"}]
    BY <1>1, <1>2 DEF TypeInv
  <1>4. PollUse'
    BY <1>1, <1>2 DEF TypeInv, PollUse
  <1> QED
    BY <1>1, <1>3, <1>4 DEF TypeInv, ctxVars, userVars, jobVars, HandlerUse, OpUse, RegUse

LEMMA DispatchTypes ==
  ASSUME TypeInv, NEW t \in Pollers, Dispatch(t)
  PROVE  TypeInv'
  <1>1. UNCHANGED <<ctxVars, userVars, jobVars>>
    BY DEF Dispatch
  <1>2. CASE UNCHANGED <<kernelVars, pollVars>>
    BY <1>1, <1>2, PollTypes
       DEF TypeInv, ctxVars, kernelVars, userVars, jobVars, HandlerUse, OpUse, RegUse
  <1>3. CASE \E e \in batch[t] :
               /\ fdMutex' = [fdMutex EXCEPT ![e.con] = t]
               /\ Rearm(e.con, ctx[e.con].event \ e.types)
               /\ batch' = [batch EXCEPT ![t] = @ \ {e}]
               /\ cur' = [cur EXCEPT ![t] = e]
               /\ seen' = [seen EXCEPT ![t] = ctx[e.con].event]
               /\ pc' = [pc EXCEPT ![t] = "firing"]
    <2> PICK e \in batch[t] :
               /\ fdMutex' = [fdMutex EXCEPT ![e.con] = t]
               /\ Rearm(e.con, ctx[e.con].event \ e.types)
               /\ batch' = [batch EXCEPT ![t] = @ \ {e}]
               /\ cur' = [cur EXCEPT ![t] = e]
               /\ seen' = [seen EXCEPT ![t] = ctx[e.con].event]
               /\ pc' = [pc EXCEPT ![t] = "firing"]
      BY <1>3
    <2> DEFINE c == e.con
    <2>1. e \in EventType /\ c \in Contexts /\ e.types # {}
      BY DEF TypeInv, PollUse
    <2>2. ctx[c] \in ContextType
      BY <2>1 DEF TypeInv
    <2>3. ctx[c].fd \in Fds /\ ctx[c].event \in SUBSET Types /\ ctx[c].event \ e.types \in SUBSET Types
      BY <2>2 DEF ContextType
    <2>4. reg' \in [Fds -> RegType] /\ ready' = ready /\ rdlist' \in SUBSET Fds /\ RegUse'
      BY <2>1, <2>3, CtlTypes DEF Rearm
    <2>5. /\ fdMutex' \in [Contexts -> Pollers \cup {None}]
          /\ batch' \in [Pollers -> SUBSET EventType]
          /\ cur' \in [Pollers -> EventType]
          /\ seen' \in [Pollers -> SUBSET Types]
          /\ pc' \in [Pollers -> {"away", "dispatching", "firing"}]
      BY <2>1, <2>3 DEF TypeInv
    <2>6. PollUse'
      BY <2>1 DEF TypeInv, PollUse
    <2> QED
      BY <1>1, <2>4, <2>5, <2>6 DEF TypeInv, ctxVars, userVars, jobVars, HandlerUse, OpUse
  <1> QED
    BY <1>2, <1>3 DEF Dispatch

LEMMA FireTypes ==
  ASSUME TypeInv, NEW t \in Pollers, Fire(t)
  PROVE  TypeInv'
  <1> DEFINE c == cur[t].con
             y == IF "READ" \in cur[t].types THEN "READ" ELSE "WRITE"
             rest == cur[t].types \ {y}
  <1>1. UNCHANGED <<fdContexts, kernelVars, userVars>>
    BY DEF Fire
  <1>2. CASE UNCHANGED <<ctx, pending, jobVars, pollVars>>
    BY <1>1, <1>2, PollTypes DEF TypeInv, kernelVars, userVars, jobVars, HandlerUse, OpUse, RegUse
  <1>3. CASE /\ Queue(c, {y})
             /\ ctx' = [ctx EXCEPT ![c] = Triggered(c, {y}, seen[t] \ {y})]
             /\ pending' = pending - 1
             /\ seen' = [seen EXCEPT ![t] = seen[t] \ {y}]
             /\ cur' = [cur EXCEPT ![t].types = rest]
             /\ IF rest # {} THEN UNCHANGED <<fdMutex, pc>>
                ELSE /\ fdMutex' = [fdMutex EXCEPT ![c] = None]
                     /\ pc' = [pc EXCEPT ![t] = IF batch[t] = {} THEN "away" ELSE "dispatching"]
             /\ UNCHANGED batch
    <2>1. cur[t] \in EventType /\ c \in Contexts /\ cur[t].types # {} /\ cur[t].types \in SUBSET Types
      BY DEF Fire, TypeInv, PollUse, EventType
    <2>2. y \in cur[t].types
      BY <2>1, EventAssumption
    <2>3. y \in Types /\ seen[t] \ {y} \in SUBSET Types /\ rest \in SUBSET Types
      BY <2>1, <2>2 DEF TypeInv
    <2> HIDE DEF y
    <2>4. jobs' \in SUBSET used' /\ fired' \in [Handlers -> 0 .. 2]
      BY <1>1, <1>3, <2>1, <2>3, QueueTypes DEF userVars
    <2>5. ctx' \in [Contexts -> ContextType] /\ HandlerUse'
      BY <1>1, <1>3, <2>1, <2>3, TriggeredContext DEF userVars
    <2>6. /\ cur' = [cur EXCEPT ![t] = [con |-> c, types |-> rest]]
          /\ [con |-> c, types |-> rest] \in EventType
      <3>1. cur' = [cur EXCEPT ![t] = [cur[t] EXCEPT !.types = rest]]
        BY <1>3
      <3>2. [cur[t] EXCEPT !.types = rest] = [con |-> c, types |-> rest]
        BY <2>1 DEF EventType
      <3> QED
        BY <2>1, <2>3, <3>1, <3>2 DEF EventType
    <2> HIDE DEF rest
    <2>7. /\ fdMutex' \in [Contexts -> Pollers \cup {None}]
          /\ pc' \in [Pollers -> {"away", "dispatching", "firing"}]
          /\ cur' \in [Pollers -> EventType]
          /\ seen' \in [Pollers -> SUBSET Types]
          /\ pending' \in Int
      <3>1. fdMutex' = fdMutex \/ fdMutex' = [fdMutex EXCEPT ![c] = None]
        BY <1>3
      <3>2. \/ pc' = pc
            \/ pc' = [pc EXCEPT ![t] = IF batch[t] = {} THEN "away" ELSE "dispatching"]
        BY <1>3
      <3>3. fdMutex' \in [Contexts -> Pollers \cup {None}]
        BY <3>1 DEF TypeInv
      <3>4. pc' \in [Pollers -> {"away", "dispatching", "firing"}]
        BY <3>2 DEF TypeInv
      <3>5. cur' \in [Pollers -> EventType] /\ seen' \in [Pollers -> SUBSET Types] /\ pending' \in Int
        <4>1. /\ seen' = [seen EXCEPT ![t] = seen[t] \ {y}]
              /\ pending' = pending - 1
          BY <1>3
        <4>2. cur' \in [Pollers -> EventType]
          BY <2>6 DEF TypeInv
        <4>3. seen' \in [Pollers -> SUBSET Types]
          BY <2>3, <4>1 DEF TypeInv
        <4> QED
          BY <4>1, <4>2, <4>3 DEF TypeInv
      <3> QED
        BY <3>3, <3>4, <3>5
    <2>8. PollUse'
      <3>1. ASSUME NEW s \in Pollers, s # t, pc'[s] = "firing"
            PROVE  cur'[s].con \in Contexts /\ cur'[s].types # {}
        <4>1. pc[s] = "firing" /\ cur'[s] = cur[s]
          BY <1>3, <2>6, <3>1 DEF TypeInv
        <4> QED
          BY <3>1, <4>1 DEF PollUse, TypeInv
      <3>2. pc'[t] = "firing" => cur'[t].con \in Contexts /\ cur'[t].types # {}
        <4>1. cur'[t] = [con |-> c, types |-> rest]
          BY <2>6 DEF TypeInv
        <4>2. pc'[t] = "firing" => rest # {}
          BY <1>3 DEF TypeInv
        <4> QED
          BY <2>1, <4>1, <4>2
      <3> QED
        BY <1>3, <3>1, <3>2 DEF TypeInv, PollUse
    <2> QED
      BY <1>1, <1>3, <2>4, <2>5, <2>7, <2>8 DEF TypeInv, kernelVars, userVars, OpUse, RegUse
  <1> QED
    BY <1>2, <1>3 DEF Fire

LEMMA KernelTypes ==
  ASSUME TypeInv, NEW f \in Fds, NEW y \in Types, Edge(f, y) \/ Drain(f, y)
  PROVE  TypeInv'
  <1>1. /\ ready' \in [Fds -> SUBSET Types] /\ rdlist' \in SUBSET Fds
        /\ UNCHANGED <<ctxVars, reg, userVars, jobVars, pollVars, fault>>
    BY DEF Edge, Drain, TypeInv
  <1> QED
    BY <1>1, PollTypes DEF TypeInv, ctxVars, userVars, jobVars, HandlerUse, OpUse, RegUse

LEMMA RunTypes ==
  ASSUME TypeInv, NEW h \in Handlers, Run(h)
  PROVE  TypeInv'
  <1>1. /\ jobs' = jobs \ {h}
        /\ mine' = [u \in Users |-> IF mine[u] = h THEN None ELSE mine[u]]
        /\ UNCHANGED <<ctxVars, kernelVars, op, used, fired, pollVars, fault>>
    BY DEF Run
  <1>2. mine' \in [Users -> Handlers \cup {None}] /\ jobs' \in SUBSET used'
    BY <1>1 DEF TypeInv
  <1> QED
    BY <1>1, <1>2, PollTypes DEF TypeInv, ctxVars, kernelVars, HandlerUse, OpUse, RegUse

LEMMA TypeStep == TypeInv /\ [Next]_vars => TypeInv'
  <1> SUFFICES ASSUME TypeInv, [Next]_vars
               PROVE  TypeInv'
    OBVIOUS
  <1>1. CASE \E u \in Users : UserStep(u)
    BY <1>1, AddFirstTypes, AddSecondTypes, RemoveFirstTypes, DelSecondTypes, CancelSecondTypes,
       EraseTypes, CancelAllTypes DEF UserStep
  <1>2. CASE \E t \in Pollers : Poller(t)
    BY <1>2, WaitTypes, DispatchTypes, FireTypes DEF Poller
  <1>3. CASE \E h \in Handlers : Run(h)
    BY <1>3, RunTypes
  <1>4. CASE \E f \in Fds, y \in Types : Edge(f, y) \/ Drain(f, y)
    BY <1>4, KernelTypes
  <1>5. CASE UNCHANGED vars
    BY <1>5, PollTypes
       DEF vars, TypeInv, ctxVars, kernelVars, userVars, jobVars, HandlerUse, OpUse, RegUse
  <1> QED
    BY <1>1, <1>2, <1>3, <1>4, <1>5 DEF Next

LEMMA TypeAlways == Spec => []TypeInv
  BY InitTypes, TypeStep, PTL DEF Spec

\* fdContexts_, the contexts, the counter, the kernel's registrations and the
\* handlers keep their types, with any number of descriptors, threads and
\* pollers; a handler that addJob has been given was registered before.
THEOREM EventTypes == Spec => []TypeOK
  <1>1. TypeInv => TypeOK
    BY DEF TypeInv, TypeOK, ContextType, RegUse
  <1> QED
    BY <1>1, TypeAlways, PTL

-----------------------------------------------------------------------------
(* One event for each descriptor; callables; one thread *)

\* Each conjunct is needed.  With READ and WRITE on one descriptor the dispatch
\* deletes what it should modify (PendingExact, Watched); on several threads
\* delEvent and the dispatch count one event out twice, and a second edge finds
\* a null scheduler (PendingExact, NothingUndefined); a fiber is never picked
\* where a callable was before (FiredOnce).
SingleEvent ==
  /\ OneThread
  /\ FiberHandlers = {}
  /\ \E y \in {"READ", "WRITE"} : Types = {y}

Con(u) == fdContexts[u[1]]
Waits(u, c) == u[2] \in ctx[c].event
On(c, types) == [on |-> TRUE, interest |-> types, con |-> c]

\* A poller has reported the event: it is about to fire it, or has yet to
\* dispatch it.
Firing(u) == \E t \in Pollers : pc[t] = "firing" /\ Con(u) # None /\ cur[t].con = Con(u)
InBatch(u) == \E t \in Pollers : \E e \in batch[t] : Con(u) # None /\ e.con = Con(u)

Unfired(h) == h \in Callbacks /\ h \in used /\ fired[h] = 0

\* The context has the handler that its user knows of.
Holds(u, c) == Unfired(mine[u]) /\ ctx[c].cb[u[2]] = mine[u] /\ ctx[c].scheduler[u[2]]

\* Between operations the event bit, the handler and the kernel agree; an edge
\* is in the ready list, in a batch or being fired.
WaitsOK(u) ==
  /\ Holds(u, Con(u))
  /\ reg[u[1]] = On(Con(u), IF Firing(u) THEN {} ELSE {u[2]})
  /\ u[2] \in ready[u[1]] /\ ~Firing(u) /\ ~InBatch(u) => u[1] \in rdlist

RestsOK(u) == reg[u[1]] = On(Con(u), {}) /\ ~Firing(u) /\ ~InBatch(u)

IdleOK(u) ==
  /\ Con(u) = None => reg[u[1]] = Unregistered
  /\ Con(u) # None => /\ ctx[Con(u)].fd = u[1]
                      /\ Waits(u, Con(u)) => WaitsOK(u)
                      /\ ~Waits(u, Con(u)) => RestsOK(u)

\* What holds between the locked sections of each operation.
AddOK(u) ==
  /\ Con(u) # None /\ op[u].con = Con(u) /\ ctx[Con(u)].fd = u[1] /\ Waits(u, Con(u))
  /\ \/ op[u].ctl = "ADD" /\ reg[u[1]] = Unregistered
     \/ op[u].ctl = "MOD" /\ reg[u[1]] = On(Con(u), {})
  /\ Unfired(op[u].h) /\ mine[u] = None
  /\ \A v \in Users : mine[v] # op[u].h

RemoveOK(u) ==
  /\ Con(u) # None /\ op[u].con = Con(u) /\ op[u].ctl = "DEL"
  /\ ~Waits(u, Con(u)) /\ Holds(u, Con(u))
  /\ reg[u[1]] = On(Con(u), {u[2]})

EraseOK(u) ==
  /\ Con(u) # None /\ op[u].con = Con(u)
  /\ ~Waits(u, Con(u)) /\ reg[u[1]] = Unregistered /\ mine[u] = None

AllOK(u) ==
  /\ Con(u) = None /\ op[u].con \in Contexts
  /\ \A v \in Users : Con(v) # op[u].con
  /\ Waits(u, op[u].con) /\ Holds(u, op[u].con)
  /\ reg[u[1]] = On(op[u].con, {u[2]})

UserOK(u) ==
  \/ op[u] = NoOp /\ IdleOK(u)
  \/ op[u].kind = "add" /\ AddOK(u)
  \/ op[u].kind \in {"del", "cancel"} /\ RemoveOK(u)
  \/ op[u].kind = "erase" /\ EraseOK(u)
  \/ op[u].kind = "all" /\ AllOK(u)

UsersInv == \A u \in Users : UserOK(u)

\* One thread: one operation at a time, and none while the poller dispatches.
SerialInv ==
  /\ \A u, v \in Users : op[u] # NoOp /\ op[v] # NoOp => u = v
  /\ \A u \in Users, t \in Pollers : op[u] # NoOp => pc[t] = "away"

DistinctInv == \A u, v \in Users :
  /\ Con(u) # None /\ Con(u) = Con(v) => u = v
  /\ mine[u] # None /\ mine[u] = mine[v] => u = v

EventOf(u) == [con |-> Con(u), types |-> {u[2]}]

\* What a poller has in hand is the event of a user that still waits.
PollInv == \A t \in Pollers :
  /\ pc[t] = "away" => batch[t] = {}
  /\ \A e \in batch[t] : \E u \in Users : Con(u) # None /\ e = EventOf(u) /\ Waits(u, Con(u))
  /\ pc[t] = "firing" =>
       /\ \E u \in Users : Con(u) # None /\ cur[t] = EventOf(u) /\ Waits(u, Con(u))
       /\ seen[t] = cur[t].types
       /\ \A e \in batch[t] : e.con # cur[t].con

\* The events that pendingEventCount_ counts.
Counted == {u \in Users : u[2] \in reg[u[1]].interest \/ Firing(u)}
CountInv == IsFiniteSet(Counted) /\ pending = Cardinality(Counted)

\* A handler that was queued was registered before; nobody knows of a handler
\* that was not.
JobInv ==
  /\ \A h \in jobs : fired[h] > 0
  /\ \A h \in Handlers : fired[h] > 0 => h \in used
  /\ \A u \in Users : mine[u] \in used \cup {None}

Agree == UsersInv /\ SerialInv /\ DistinctInv /\ PollInv /\ CountInv /\ JobInv

EventInv == FiredOnce /\ NothingUndefined /\ (Sound => Agree)

\* A descriptor has one user, and a set of its events is empty or full.
LEMMA OneEvent ==
  ASSUME SingleEvent
  PROVE  /\ \A u, v \in Users : u # v => u[1] # v[1]
         /\ \A u \in Users, S \in SUBSET Types : S = {} \/ S = {u[2]}
         /\ \A f \in Fds : \E u \in Users : u[1] = f
  <1> PICK y : Types = {y}
    BY DEF SingleEvent
  <1>1. \A u \in Users : u = <<u[1], y>> /\ u[2] = y
    BY DEF Users
  <1>2. \A f \in Fds : <<f, y>> \in Users
    BY DEF Users
  <1>3. \A u, v \in Users : u # v => u[1] # v[1]
    BY <1>1
  <1>4. \A f \in Fds : \E u \in Users : u[1] = f
    BY <1>2
  <1>5. \A S \in SUBSET Types : S = {} \/ S = {y}
    OBVIOUS
  <1> QED
    BY <1>1, <1>3, <1>4, <1>5

\* Nothing is in hand while the pollers are away.
LEMMA Away ==
  ASSUME SingleEvent, PollInv, PollersAway
  PROVE  /\ \A u : ~Firing(u) /\ ~InBatch(u)
         /\ Counted = {u \in Users : u[2] \in reg[u[1]].interest}
         /\ \A t \in Pollers : batch[t] = {}
  <1>1. \A t \in Pollers : pc[t] # "firing" /\ batch[t] = {}
    BY DEF PollersAway, PollInv
  <1>2. \A u : ~Firing(u) /\ ~InBatch(u)
    BY <1>1 DEF Firing, InBatch
  <1> QED
    BY <1>1, <1>2 DEF Counted

\* An idle user whose things nobody touched.
LEMMA IdleKeeps ==
  ASSUME TypeInv, NEW v \in Users, IdleOK(v),
         Con(v)' = Con(v),
         Con(v) # None => ctx'[Con(v)] = ctx[Con(v)],
         reg'[v[1]] = reg[v[1]],
         ready'[v[1]] \subseteq ready[v[1]],
         v[1] \in rdlist => v[1] \in rdlist',
         mine'[v] = mine[v],
         Unfired(mine[v]) => Unfired(mine[v])',
         Firing(v)' <=> Firing(v),
         InBatch(v)' <=> InBatch(v)
  PROVE  IdleOK(v)'
  <1>1. CASE Con(v) = None
    BY <1>1 DEF IdleOK
  <1>2. CASE Con(v) # None
    <2>1. Con(v)' # None /\ ctx'[Con(v)'] = ctx[Con(v)]
      BY <1>2
    <2>2. CASE Waits(v, Con(v))
      <3>1. Holds(v, Con(v))'
        BY <1>2, <2>1, <2>2 DEF IdleOK, WaitsOK, Holds, Unfired
      <3>2. (reg[v[1]] = On(Con(v), IF Firing(v) THEN {} ELSE {v[2]}))'
        BY <1>2, <2>1, <2>2 DEF IdleOK, WaitsOK, On
      <3>3. (v[2] \in ready[v[1]] /\ ~Firing(v) /\ ~InBatch(v) => v[1] \in rdlist)'
        BY <1>2, <2>1, <2>2 DEF IdleOK, WaitsOK
      <3> QED
        BY <1>2, <2>1, <2>2, <3>1, <3>2, <3>3 DEF IdleOK, WaitsOK, Waits
    <2>3. CASE ~Waits(v, Con(v))
      BY <1>2, <2>1, <2>3 DEF IdleOK, RestsOK, On, Waits
    <2> QED
      BY <2>2, <2>3
  <1> QED
    BY <1>1, <1>2

\* A step of a user, while the others and the pollers do nothing, keeps what
\* the others rely on.
LEMMA UserKeeps ==
  ASSUME SingleEvent, TypeInv, Agree, NEW u \in Users,
         PollersAway, UNCHANGED <<ready, pollVars>>,
         NEW x, op' = [op EXCEPT ![u] = x],
         \A v \in Users \ {u} :
           /\ op[v] = NoOp
           /\ Con(v)' = Con(v)
           /\ Con(v) # None => ctx'[Con(v)] = ctx[Con(v)]
           /\ reg'[v[1]] = reg[v[1]]
           /\ v[1] \in rdlist => v[1] \in rdlist'
           /\ mine'[v] = mine[v]
           /\ Unfired(mine[v]) => Unfired(mine[v])',
         UserOK(u)',
         Con(u)' # None => \A v \in Users \ {u} : Con(v) # Con(u)',
         mine'[u] # None => \A v \in Users \ {u} : mine[v] # mine'[u]
  PROVE  UsersInv' /\ SerialInv' /\ DistinctInv' /\ PollInv'
  <1>1. \A v : ~Firing(v) /\ ~InBatch(v) /\ ~Firing(v)' /\ ~InBatch(v)'
    <2>1. \A t \in Pollers : pc[t] # "firing" /\ batch[t] = {} /\ pc'[t] = pc[t] /\ batch'[t] = batch[t]
      BY DEF PollersAway, Agree, PollInv, pollVars
    <2> QED
      BY <2>1 DEF Firing, InBatch
  <1>2. ASSUME NEW v \in Users, v # u
        PROVE  UserOK(v)'
    <2>1. IdleOK(v)
      <3>1. op[v].kind = "none"
        BY <1>2 DEF NoOp
      <3> QED
        BY <3>1 DEF Agree, UsersInv, UserOK
    <2>2. IdleOK(v)'
      BY <1>1, <1>2, <2>1, IdleKeeps
    <2>3. op'[v] = NoOp
      BY <1>2 DEF TypeInv
    <2> QED
      BY <2>2, <2>3 DEF UserOK
  <1>3. UsersInv'
    BY <1>2 DEF UsersInv
  <1>4. SerialInv'
    <2>1. \A v \in Users \ {u} : op'[v] = NoOp
      BY DEF TypeInv
    <2>2. \A t \in Pollers : pc'[t] = "away"
      BY DEF PollersAway, pollVars
    <2> QED
      BY <2>1, <2>2 DEF SerialInv
  <1>5. DistinctInv'
    <2> SUFFICES ASSUME NEW v \in Users, NEW w \in Users
                 PROVE  /\ Con(v)' # None /\ Con(v)' = Con(w)' => v = w
                        /\ mine'[v] # None /\ mine'[v] = mine'[w] => v = w
      BY DEF DistinctInv
    <2>1. CASE v # u /\ w # u
      BY <2>1 DEF Agree, DistinctInv
    <2>2. CASE v = u /\ w # u
      BY <2>2
    <2>3. CASE v # u /\ w = u
      BY <2>3
    <2> QED
      BY <2>1, <2>2, <2>3
  <1>6. PollInv'
    BY <1>1 DEF PollInv, PollersAway, pollVars, Agree
  <1> QED
    BY <1>3, <1>4, <1>5, <1>6

\* The count: a user's event comes in, goes out or stays.
LEMMA CountStep ==
  ASSUME SingleEvent, TypeInv, Agree, NEW u \in Users, Counted' \subseteq Users,
         \A v \in Users \ {u} : v \in Counted' <=> v \in Counted,
         \/ pending' = pending /\ (u \in Counted' <=> u \in Counted)
         \/ pending' = pending + 1 /\ u \in Counted' /\ u \notin Counted
         \/ pending' = pending - 1 /\ u \notin Counted' /\ u \in Counted
  PROVE  CountInv'
  <1>1. Counted \subseteq Users /\ IsFiniteSet(Counted) /\ pending = Cardinality(Counted)
    BY DEF Counted, Agree, CountInv
  <1>2. CASE pending' = pending /\ (u \in Counted' <=> u \in Counted)
    <2>1. Counted' = Counted
      BY <1>1, <1>2
    <2> QED
      BY <1>1, <1>2, <2>1 DEF CountInv
  <1>3. CASE pending' = pending + 1 /\ u \in Counted' /\ u \notin Counted
    <2>1. Counted' = Counted \cup {u}
      BY <1>1, <1>3
    <2> QED
      BY <1>1, <1>3, <2>1, FS_AddElement DEF CountInv
  <1>4. CASE pending' = pending - 1 /\ u \notin Counted' /\ u \in Counted
    <2>1. Counted' = Counted \ {u}
      BY <1>1, <1>4
    <2> QED
      BY <1>1, <1>4, <2>1, FS_RemoveElement DEF CountInv
  <1> QED
    BY <1>2, <1>3, <1>4

\* The handlers and what is known of them, when nothing is queued.
LEMMA JobsKeep ==
  ASSUME TypeInv, FiredOnce, JobInv, UNCHANGED jobVars, used \subseteq used',
         \A u \in Users : mine'[u] = mine[u] \/ mine'[u] \in used' \cup {None}
  PROVE  /\ FiredOnce'
         /\ JobInv'
         /\ \A h : Unfired(h) => Unfired(h)'
  BY DEF FiredOnce, JobInv, jobVars, Unfired

\* An operation begins while nobody does anything.
LEMMA BeginFacts ==
  ASSUME SingleEvent, TypeInv, Agree, NEW u \in Users, Begin(u)
  PROVE  /\ PollersAway
         /\ \A v \in Users : op[v] = NoOp /\ IdleOK(v)
  <1>1. PollersAway /\ \A v \in Users : op[v] = NoOp
    BY DEF SingleEvent, Begin, NobodyBusy
  <1>2. NoOp.kind = "none"
    BY DEF NoOp
  <1> QED
    BY <1>1, <1>2 DEF Agree, UsersInv, UserOK

LEMMA AddFirstSound ==
  ASSUME SingleEvent, TypeInv, EventInv, Sound, NEW u \in Users, NEW h \in Handlers,
         AddFirst(u, h), TypeInv'
  PROVE  EventInv'
  <1> DEFINE f == u[1]
             found == fdContexts[f]
  <1>1. /\ Begin(u) /\ mine[u] = None /\ h \in Callbacks \ used
        /\ used' = used \cup {h}
        /\ UNCHANGED <<pending, kernelVars, mine, jobVars, pollVars, fault>>
        /\ Agree
    BY DEF AddFirst, SingleEvent, Handlers, EventInv
  <1>2. PICK c \in (IF found = None THEN {d \in Contexts : ~Exists(d)} ELSE {found}) :
          /\ fdContexts' = [fdContexts EXCEPT ![f] = c]
          /\ ctx' = [ctx EXCEPT ![c] = IF found = None THEN Created(f, u[2])
                                       ELSE [ctx[c] EXCEPT !.event = @ \cup {u[2]}]]
          /\ op' = [op EXCEPT ![u] = [kind |-> "add", con |-> c, h |-> h, ctl |-> AddCtl(found)]]
    BY DEF AddFirst
  <1>3. f \in Fds /\ u[2] \in Types /\ found \in Contexts \cup {None} /\ c \in Contexts /\ c # None
    BY <1>2, UserTypes, NoneIsNothing
  <1>4. PollersAway /\ \A v \in Users : op[v] = NoOp /\ IdleOK(v)
    BY <1>1, BeginFacts
  <1>5. \A v \in Users : ~Firing(v) /\ ~InBatch(v)
    BY <1>1, <1>4, Away DEF Agree
  <1>6. \A v \in Users \ {u} : v[1] # f /\ Con(v) # c
    <2>1. \A v \in Users \ {u} : v[1] # f /\ v[1] \in Fds
      BY OneEvent, UserTypes
    <2>2. CASE found = None
      <3>1. c \notin Range(fdContexts)
        BY <1>2, <2>2 DEF Exists
      <3>2. DOMAIN fdContexts = Fds
        BY DEF TypeInv
      <3> QED
        BY <2>1, <3>1, <3>2 DEF Range, Con
    <2>3. CASE found # None
      BY <1>1, <1>2, <2>1, <2>3 DEF Agree, DistinctInv, Con
    <2> QED
      BY <2>2, <2>3
  <1>7. Unfired(h)' /\ \A v \in Users : mine[v] # h
    <2>1. fired[h] = 0 /\ fired' = fired
      BY <1>1 DEF Agree, JobInv, TypeInv, jobVars
    <2>2. h # None /\ \A v \in Users : mine[v] # h
      BY <1>1, NoneIsNothing DEF Agree, JobInv, Handlers
    <2> QED
      BY <1>1, <2>1, <2>2 DEF Unfired
  <1>8. /\ op'[u].kind = "add" /\ op'[u].con = c /\ op'[u].h = h
        /\ op'[u].ctl = IF found = None THEN "ADD" ELSE "MOD"
    BY <1>2 DEF TypeInv, AddCtl
  <1>9. Con(u)' = c /\ (fdContexts[u[1]])' = c
    BY <1>2, <1>3 DEF TypeInv, Con
  <1>10. ctx'[c].fd = f /\ u[2] \in ctx'[c].event
    <2>1. CASE found = None
      <3>1. ctx'[c] = Created(f, u[2])
        BY <1>2, <1>3, <2>1 DEF TypeInv
      <3> QED
        BY <3>1 DEF Created, NewContext
    <2>2. CASE found # None
      <3>1. ctx'[c] = [ctx[c] EXCEPT !.event = @ \cup {u[2]}]
        BY <1>2, <1>3, <2>2 DEF TypeInv
      <3>2. c = Con(u) /\ Con(u) # None
        BY <1>2, <2>2 DEF Con
      <3>3. ctx[c].fd = f /\ ctx[c] \in ContextType
        BY <1>3, <1>4, <3>2 DEF IdleOK, TypeInv
      <3> QED
        BY <3>1, <3>3 DEF ContextType
    <2> QED
      BY <2>1, <2>2
  <1>11. reg'[f] = reg[f] /\ (IF found = None THEN reg[f] = Unregistered ELSE reg[f] = On(c, {}))
    <2>1. CASE found = None
      BY <1>1, <1>4, <2>1 DEF IdleOK, Con, kernelVars
    <2>2. CASE found # None
      <3>1. ~Waits(u, Con(u))
        BY <1>1, <1>4, <2>2, NoneIsNothing DEF IdleOK, WaitsOK, Holds, Unfired, Con, Handlers
      <3> QED
        BY <1>1, <1>2, <1>4, <2>2, <3>1 DEF IdleOK, RestsOK, Con, kernelVars
    <2> QED
      BY <2>1, <2>2
  <1>12. UserOK(u)'
    <2>1. AddOK(u)'
      <3>1. Con(u)' # None /\ op'[u].con = Con(u)' /\ ctx'[Con(u)'].fd = u[1] /\ Waits(u, Con(u))'
        BY <1>3, <1>8, <1>9, <1>10 DEF Waits
      <3>2. \/ op'[u].ctl = "ADD" /\ reg'[u[1]] = Unregistered
            \/ op'[u].ctl = "MOD" /\ reg'[u[1]] = On(Con(u)', {})
        BY <1>8, <1>9, <1>11
      <3>3. Unfired(op[u].h)' /\ mine'[u] = None /\ \A v \in Users : mine'[v] # op'[u].h
        BY <1>1, <1>7, <1>8 DEF Unfired
      <3> QED
        BY <3>1, <3>2, <3>3 DEF AddOK, On
    <2> QED
      BY <1>8, <2>1 DEF UserOK
  <1>13. FiredOnce' /\ JobInv' /\ \A k : Unfired(k) => Unfired(k)'
    BY <1>1, JobsKeep DEF EventInv, Agree
  <1>14. UsersInv' /\ SerialInv' /\ DistinctInv' /\ PollInv'
    <2>1. \A v \in Users \ {u} : /\ Con(v)' = Con(v)
                                 /\ Con(v) # None => ctx'[Con(v)] = ctx[Con(v)]
                                 /\ reg'[v[1]] = reg[v[1]]
                                 /\ v[1] \in rdlist => v[1] \in rdlist'
                                 /\ mine'[v] = mine[v]
                                 /\ Unfired(mine[v]) => Unfired(mine[v])'
      BY <1>1, <1>2, <1>6, <1>13, UserTypes DEF TypeInv, Con, kernelVars
    <2> QED
      BY <1>1, <1>2, <1>4, <1>6, <1>9, <1>12, <2>1, UserKeeps DEF kernelVars
  <1>15. CountInv'
    <2>1. Counted' = Counted
      <3>1. \A v \in Users : Firing(v)' <=> Firing(v)
        <4>1. \A t \in Pollers : pc'[t] # "firing" /\ pc[t] # "firing"
          BY <1>1, <1>4 DEF pollVars, PollersAway
        <4> QED
          BY <4>1 DEF Firing
      <3> QED
        BY <1>1, <3>1 DEF Counted, kernelVars
    <2> QED
      BY <1>1, <2>1 DEF Agree, CountInv
  <1> QED
    BY <1>1, <1>13, <1>14, <1>15 DEF EventInv, Agree, NothingUndefined

\* An operation goes on while nobody does anything else.
LEMMA BusyFacts ==
  ASSUME SingleEvent, TypeInv, Agree, NEW u \in Users, op[u].kind # "none"
  PROVE  /\ PollersAway
         /\ \A v \in Users \ {u} : op[v] = NoOp /\ v[1] # u[1]
         /\ \A v \in Users : ~Firing(v)
         /\ UserOK(u)
  <1>1. op[u] # NoOp
    BY DEF NoOp
  <1>2. PollersAway /\ \A v \in Users \ {u} : op[v] = NoOp
    BY <1>1 DEF Agree, SerialInv, PollersAway
  <1> QED
    BY <1>2, OneEvent, Away DEF Agree, UsersInv

\* epoll_ctl with what it asks for.
LEMMA CtlWatches ==
  ASSUME TypeInv, NEW u \in Users, NEW c \in Contexts, NEW ctl,
         \/ ctl = "ADD" /\ reg[u[1]] = Unregistered
         \/ ctl = "MOD" /\ reg[u[1]] = On(c, {}),
         EpollCtl(ctl, u[1], {u[2]}, c)
  PROVE  /\ CtlSucceeds(ctl, u[1])
         /\ reg' = [reg EXCEPT ![u[1]] = On(c, {u[2]})]
         /\ ready' = ready
         /\ u[2] \in ready[u[1]] => u[1] \in rdlist'
         /\ \A f \in rdlist : f \in rdlist'
  <1>1. CtlSucceeds(ctl, u[1]) /\ ctl # "DEL"
    <2>1. CASE ctl = "ADD" /\ reg[u[1]] = Unregistered
      <3>1. reg[u[1]].on = FALSE
        BY <2>1 DEF Unregistered
      <3> QED
        BY <2>1, <3>1 DEF CtlSucceeds
    <2>2. CASE ctl = "MOD" /\ reg[u[1]] = On(c, {})
      <3>1. reg[u[1]].on = TRUE
        BY <2>2 DEF On
      <3> QED
        BY <2>2, <3>1 DEF CtlSucceeds
    <2> QED
      BY <2>1, <2>2
  <1>2. /\ reg' = [reg EXCEPT ![u[1]] = IF ctl = "DEL" THEN Unregistered
                                        ELSE [on |-> TRUE, interest |-> {u[2]}, con |-> c]]
        /\ rdlist' = IF ctl = "DEL" THEN rdlist \ {u[1]}
                     ELSE IF ready[u[1]] \cap {u[2]} # {} THEN rdlist \cup {u[1]}
                     ELSE rdlist
        /\ ready' = ready
    BY <1>1 DEF EpollCtl
  <1>3. reg' = [reg EXCEPT ![u[1]] = On(c, {u[2]})]
    BY <1>1, <1>2 DEF On
  <1>4. /\ u[2] \in ready[u[1]] => u[1] \in rdlist'
        /\ \A f \in rdlist : f \in rdlist'
    BY <1>1, <1>2
  <1> QED
    BY <1>1, <1>2, <1>3, <1>4

LEMMA CtlDeletes ==
  ASSUME TypeInv, NEW f \in Fds, NEW c, NEW S, reg[f].on, EpollCtl("DEL", f, S, c)
  PROVE  /\ CtlSucceeds("DEL", f)
         /\ reg' = [reg EXCEPT ![f] = Unregistered]
         /\ ready' = ready
         /\ \A g \in rdlist : g # f => g \in rdlist'
  <1>1. CtlSucceeds("DEL", f)
    BY DEF CtlSucceeds
  <1> QED
    BY <1>1 DEF EpollCtl

\* The count, where only one descriptor's registration changes.
LEMMA CountUser ==
  ASSUME SingleEvent, TypeInv, Agree, NEW u \in Users, PollersAway, UNCHANGED pollVars,
         NEW r, reg' = [reg EXCEPT ![u[1]] = r],
         \/ pending' = pending /\ r.interest = reg[u[1]].interest
         \/ pending' = pending + 1 /\ u[2] \in r.interest /\ u[2] \notin reg[u[1]].interest
         \/ pending' = pending - 1 /\ u[2] \notin r.interest /\ u[2] \in reg[u[1]].interest
  PROVE  CountInv'
  <1>1. /\ Counted = {v \in Users : v[2] \in reg[v[1]].interest}
        /\ Counted' = {v \in Users : v[2] \in reg'[v[1]].interest}
    <2>1. \A t \in Pollers : pc[t] # "firing" /\ pc'[t] # "firing"
      BY DEF PollersAway, pollVars
    <2> QED
      BY <2>1 DEF Counted, Firing
  <1>2. reg'[u[1]] = r /\ \A v \in Users \ {u} : reg'[v[1]] = reg[v[1]]
    BY OneEvent, UserTypes DEF TypeInv
  <1> QED
    BY <1>1, <1>2, CountStep

LEMMA AddSecondSound ==
  ASSUME SingleEvent, TypeInv, EventInv, Sound, NEW u \in Users, AddSecond(u), TypeInv'
  PROVE  EventInv'
  <1> DEFINE c == op[u].con
             h == op[u].h
  <1>1. Agree /\ op[u].kind = "add" /\ c \in Contexts
    BY UserTypes DEF AddSecond, EventInv
  <1>2. /\ PollersAway
        /\ \A v \in Users \ {u} : op[v] = NoOp /\ v[1] # u[1]
        /\ AddOK(u)
    BY <1>1, BusyFacts DEF UserOK, NoOp
  <1>3. /\ c = Con(u) /\ c # None /\ ctx[c].fd = u[1] /\ ctx[c].event = {u[2]}
        /\ \/ op[u].ctl = "ADD" /\ reg[u[1]] = Unregistered
           \/ op[u].ctl = "MOD" /\ reg[u[1]] = On(c, {})
        /\ Unfired(h) /\ mine[u] = None
        /\ \A v \in Users : mine[v] # h
        /\ ctx[c] \in ContextType
    <2>1. ctx[c] \in ContextType
      BY <1>1 DEF TypeInv
    <2>2. ctx[c].event \in SUBSET Types
      BY <2>1 DEF ContextType
    <2> QED
      BY <1>2, <2>1, <2>2, OneEvent DEF AddOK, Waits
  <1>4. /\ ctx' = [ctx EXCEPT ![c] = Registered(c, u, h)]
        /\ EpollCtl(op[u].ctl, u[1], {u[2]}, c)
        /\ op' = [op EXCEPT ![u] = NoOp]
        /\ UNCHANGED <<fdContexts, used, jobVars, pollVars, fault>>
    BY <1>3 DEF AddSecond
  <1>5. /\ CtlSucceeds(op[u].ctl, u[1])
        /\ reg' = [reg EXCEPT ![u[1]] = On(c, {u[2]})]
        /\ ready' = ready
        /\ u[2] \in ready[u[1]] => u[1] \in rdlist'
        /\ \A f \in rdlist : f \in rdlist'
    BY <1>1, <1>3, <1>4, CtlWatches
  <1>6. pending' = pending + 1 /\ mine' = [mine EXCEPT ![u] = h]
    BY <1>5 DEF AddSecond
  <1>7. FiredOnce' /\ JobInv' /\ \A k : Unfired(k) => Unfired(k)'
    <2>1. \A v \in Users : mine'[v] = mine[v] \/ mine'[v] \in used' \cup {None}
      BY <1>3, <1>4, <1>6 DEF TypeInv, Unfired
    <2> QED
      BY <1>1, <1>4, <2>1, JobsKeep DEF EventInv, Agree
  <1>8. /\ mine'[u] = h /\ Con(u)' = c /\ op'[u] = NoOp
        /\ reg'[u[1]] = On(c, {u[2]})
        /\ ctx'[c] = Registered(c, u, h)
    BY <1>1, <1>3, <1>4, <1>5, <1>6, UserTypes DEF TypeInv, Con
  <1>9. /\ ctx'[c].fd = u[1] /\ ctx'[c].event = {u[2]}
        /\ ctx'[c].cb[u[2]] = h /\ ctx'[c].scheduler[u[2]] = TRUE
    <2>1. h \in Callbacks /\ u[2] \in Types
      BY <1>3, UserTypes DEF Unfired
    <2>2. u \notin Outsiders
      BY EventAssumption DEF SingleEvent
    <2>3. (u \notin Outsiders) = TRUE
      BY <2>2
    <2>4. Registered(c, u, h) =
            [ctx[c] EXCEPT !.scheduler[u[2]] = TRUE,
                           !.cb[u[2]] = IF h \in Callbacks THEN h ELSE @,
                           !.fiber[u[2]] = IF h \in FiberHandlers THEN h ELSE @]
      BY <2>3, Zenon DEF Registered
    <2> QED
      BY <1>3, <1>8, <2>1, <2>4 DEF ContextType
  <1>10. UserOK(u)'
    <2>1. ~Firing(u)' /\ ~InBatch(u)'
      <3>1. \A t \in Pollers : pc'[t] # "firing" /\ batch'[t] = {}
        BY <1>1, <1>2, <1>4 DEF PollersAway, pollVars, Agree, PollInv
      <3> QED
        BY <3>1 DEF Firing, InBatch
    <2>2. Holds(u, Con(u))'
      BY <1>3, <1>7, <1>8, <1>9 DEF Holds, Unfired
    <2>3. WaitsOK(u)'
      BY <1>5, <1>8, <2>1, <2>2 DEF WaitsOK, On, Holds, Unfired
    <2>4. IdleOK(u)'
      BY <1>3, <1>8, <1>9, <2>3 DEF IdleOK, Waits
    <2> QED
      BY <1>8, <2>4 DEF UserOK
  <1>11. UsersInv' /\ SerialInv' /\ DistinctInv' /\ PollInv'
    <2>1. \A v \in Users \ {u} : /\ Con(v)' = Con(v)
                                 /\ Con(v) # None => ctx'[Con(v)] = ctx[Con(v)]
                                 /\ reg'[v[1]] = reg[v[1]]
                                 /\ v[1] \in rdlist => v[1] \in rdlist'
                                 /\ mine'[v] = mine[v]
                                 /\ Unfired(mine[v]) => Unfired(mine[v])'
                                 /\ Con(v) # Con(u)'
                                 /\ mine[v] # mine'[u]
      <3> SUFFICES ASSUME NEW v \in Users \ {u}
                   PROVE  /\ Con(v)' = Con(v)
                          /\ Con(v) # c
                          /\ reg'[v[1]] = reg[v[1]]
                          /\ mine'[v] = mine[v]
                          /\ Con(v) # None => ctx'[Con(v)] = ctx[Con(v)]
        BY <1>3, <1>5, <1>7, <1>8
      <3>1. Con(v) # c
        BY <1>1, <1>3 DEF Agree, DistinctInv
      <3>2. Con(v) \in Contexts \cup {None}
        BY UserTypes DEF Con
      <3>3. v[1] # u[1] /\ v[1] \in Fds
        BY <1>2, UserTypes
      <3> QED
        BY <1>4, <1>5, <1>6, <3>1, <3>2, <3>3 DEF TypeInv, Con
    <2> QED
      BY <1>1, <1>2, <1>4, <1>5, <1>10, <2>1, UserKeeps
  <1>12. CountInv'
    <2>1. u[2] \notin reg[u[1]].interest /\ u[2] \in On(c, {u[2]}).interest
      BY <1>3 DEF Unregistered, On
    <2> QED
      BY <1>1, <1>2, <1>4, <1>5, <1>6, <2>1, CountUser
  <1> QED
    BY <1>4, <1>7, <1>11, <1>12 DEF EventInv, Agree, NothingUndefined

\* A user that still waits, between operations and away from the pollers.
LEMMA WaitingUser ==
  ASSUME SingleEvent, TypeInv, Agree, PollersAway, NEW u \in Users, IdleOK(u),
         Con(u) # None, u[2] \in ctx[Con(u)].event
  PROVE  /\ Holds(u, Con(u))
         /\ reg[u[1]] = On(Con(u), {u[2]})
         /\ Con(u) \in Contexts
         /\ ctx[Con(u)] \in ContextType
         /\ ctx[Con(u)].event = {u[2]}
         /\ \A v \in Users \ {u} : Con(v) # Con(u) /\ v[1] # u[1]
  <1>1. WaitsOK(u) /\ ~Firing(u)
    BY Away DEF IdleOK, Waits, Agree
  <1>2. Con(u) \in Contexts
    BY UserTypes DEF Con
  <1>3. ctx[Con(u)] \in ContextType
    BY <1>2 DEF TypeInv
  <1>4. ctx[Con(u)].event \in SUBSET Types
    BY <1>3 DEF ContextType
  <1>5. ctx[Con(u)].event = {u[2]}
    BY <1>4, OneEvent
  <1> QED
    BY <1>1, <1>2, <1>3, <1>5, OneEvent DEF WaitsOK, Agree, DistinctInv

LEMMA RemoveFirstSound ==
  ASSUME SingleEvent, TypeInv, EventInv, Sound, NEW u \in Users, NEW kind \in {"del", "cancel"},
         RemoveFirst(u, kind), TypeInv'
  PROVE  EventInv'
  <1> DEFINE c == fdContexts[u[1]]
             rest == ctx[c].event \ {u[2]}
  <1>1. /\ Begin(u) /\ mine[u] # None
        /\ UNCHANGED <<fdContexts, pending, kernelVars, mine, used, jobVars, pollVars>>
        /\ Agree
    BY DEF RemoveFirst, EventInv
  <1>2. PollersAway /\ \A v \in Users : op[v] = NoOp /\ IdleOK(v)
    BY <1>1, BeginFacts
  <1>3. FiredOnce' /\ JobInv' /\ \A k : Unfired(k) => Unfired(k)'
    BY <1>1, JobsKeep DEF EventInv, Agree
  <1>4. CASE fault' = "assertion"
    BY <1>3, <1>4 DEF EventInv, NothingUndefined, Sound
  <1>5. CASE /\ c # None /\ u[2] \in ctx[c].event
             /\ ctx' = [ctx EXCEPT ![c].event = rest]
             /\ op' = [op EXCEPT ![u] = [kind |-> kind, con |-> c, h |-> mine[u],
                                         ctl |-> IF rest = {} THEN "DEL" ELSE "MOD"]]
             /\ UNCHANGED fault
    <2>1. /\ Con(u) = c /\ c \in Contexts /\ Holds(u, c)
          /\ reg[u[1]] = On(c, {u[2]})
          /\ ctx[c] \in ContextType
          /\ rest = {}
          /\ \A v \in Users \ {u} : Con(v) # c /\ v[1] # u[1]
      BY <1>1, <1>2, <1>5, WaitingUser DEF Con
    <2>2. /\ op' = [op EXCEPT ![u] = [kind |-> kind, con |-> c, h |-> mine[u], ctl |-> "DEL"]]
          /\ ctx' = [ctx EXCEPT ![c] = [ctx[c] EXCEPT !.event = {}]]
      BY <1>5, <2>1
    <2> HIDE DEF rest
    <2>3. /\ ctx'[c].event = {} /\ ctx'[c].cb = ctx[c].cb /\ ctx'[c].scheduler = ctx[c].scheduler
          /\ op'[u].kind = kind /\ op'[u].con = c /\ op'[u].ctl = "DEL"
          /\ Con(u)' = c
          /\ reg' = reg /\ mine' = mine /\ ready' = ready /\ rdlist' = rdlist
      <3>1. ctx'[c] = [ctx[c] EXCEPT !.event = {}]
        BY <2>1, <2>2 DEF TypeInv
      <3>2. op'[u] = [kind |-> kind, con |-> c, h |-> mine[u], ctl |-> "DEL"]
        BY <2>2 DEF TypeInv
      <3> QED
        BY <1>1, <2>1, <3>1, <3>2 DEF ContextType, Con, kernelVars
    <2>4. UserOK(u)'
      <3>1. Holds(u, Con(u))'
        BY <1>3, <2>1, <2>3 DEF Holds, Unfired
      <3>2. RemoveOK(u)'
        BY <1>5, <2>1, <2>3, <3>1 DEF RemoveOK, Waits, On, Holds, Unfired
      <3> QED
        BY <2>3, <3>2 DEF UserOK
    <2>5. UsersInv' /\ SerialInv' /\ DistinctInv' /\ PollInv'
      <3>1. \A v \in Users \ {u} : /\ Con(v)' = Con(v)
                                   /\ Con(v) # None => ctx'[Con(v)] = ctx[Con(v)]
                                   /\ Con(v) # Con(u)'
                                   /\ mine'[u] # None => mine[v] # mine'[u]
        <4> SUFFICES ASSUME NEW v \in Users \ {u}
                     PROVE  /\ Con(v)' = Con(v)
                            /\ Con(v) # None => ctx'[Con(v)] = ctx[Con(v)]
                            /\ Con(v) # c
                            /\ mine[u] # None => mine[v] # mine[u]
          BY <2>3
        <4>1. Con(v) \in Contexts \cup {None} /\ Con(v) # c
          BY <2>1, UserTypes DEF Con
        <4> QED
          BY <1>1, <2>2, <4>1 DEF TypeInv, Con, Agree, DistinctInv
      <3> QED
        BY <1>1, <1>2, <1>3, <2>2, <2>3, <2>4, <3>1, UserKeeps
    <2>6. CountInv'
      <3>1. reg' = [reg EXCEPT ![u[1]] = reg[u[1]]]
        BY <2>3 DEF TypeInv
      <3> QED
        BY <1>1, <1>2, <3>1, CountUser
    <2> QED
      BY <1>3, <1>5, <2>5, <2>6 DEF EventInv, Agree, NothingUndefined
  <1> QED
    BY <1>4, <1>5 DEF RemoveFirst

LEMMA EraseSound ==
  ASSUME SingleEvent, TypeInv, EventInv, Sound, NEW u \in Users, Erase(u), TypeInv'
  PROVE  EventInv'
  <1>1. /\ op[u].kind = "erase" /\ Agree
        /\ fdContexts' = [fdContexts EXCEPT ![u[1]] = None]
        /\ op' = [op EXCEPT ![u] = NoOp]
        /\ UNCHANGED <<ctx, pending, kernelVars, mine, used, jobVars, pollVars, fault>>
    BY DEF Erase, EventInv
  <1>2. /\ PollersAway
        /\ \A v \in Users \ {u} : op[v] = NoOp /\ v[1] # u[1]
        /\ EraseOK(u)
    BY <1>1, BusyFacts DEF UserOK, NoOp
  <1>3. FiredOnce' /\ JobInv' /\ \A k : Unfired(k) => Unfired(k)'
    BY <1>1, JobsKeep DEF EventInv, Agree
  <1>4. Con(u)' = None /\ op'[u] = NoOp /\ reg' = reg /\ ready' = ready /\ rdlist' = rdlist
    BY <1>1, UserTypes DEF TypeInv, Con, kernelVars
  <1>5. UserOK(u)'
    BY <1>2, <1>4 DEF UserOK, IdleOK, EraseOK, Unregistered
  <1>6. UsersInv' /\ SerialInv' /\ DistinctInv' /\ PollInv'
    <2>1. \A v \in Users \ {u} : Con(v)' = Con(v)
      BY <1>1, <1>2, UserTypes DEF TypeInv, Con
    <2>2. mine'[u] = None
      BY <1>1, <1>2 DEF EraseOK
    <2> QED
      BY <1>1, <1>2, <1>3, <1>4, <1>5, <2>1, <2>2, UserKeeps
  <1>7. CountInv'
    <2>1. reg' = [reg EXCEPT ![u[1]] = reg[u[1]]]
      BY <1>4 DEF TypeInv
    <2> QED
      BY <1>1, <1>2, <2>1, CountUser
  <1> QED
    BY <1>1, <1>3, <1>6, <1>7 DEF EventInv, Agree, NothingUndefined

LEMMA CancelAllFirstSound ==
  ASSUME SingleEvent, TypeInv, EventInv, Sound, NEW u \in Users, CancelAllFirst(u), TypeInv'
  PROVE  EventInv'
  <1> DEFINE c == fdContexts[u[1]]
  <1>1. /\ Begin(u) /\ mine[u] # None
        /\ fdContexts' = [fdContexts EXCEPT ![u[1]] = None]
        /\ UNCHANGED <<ctx, pending, kernelVars, mine, used, jobVars, pollVars>>
        /\ Agree
    BY DEF CancelAllFirst, EventInv
  <1>2. PollersAway /\ \A v \in Users : op[v] = NoOp /\ IdleOK(v)
    BY <1>1, BeginFacts
  <1>3. FiredOnce' /\ JobInv' /\ \A k : Unfired(k) => Unfired(k)'
    BY <1>1, JobsKeep DEF EventInv, Agree
  <1>4. CASE fault' = "assertion"
    BY <1>3, <1>4 DEF EventInv, NothingUndefined, Sound
  <1>5. CASE /\ c # None /\ ctx[c].event # {}
             /\ op' = [op EXCEPT ![u] = [kind |-> "all", con |-> c, ctl |-> "DEL", h |-> mine[u]]]
             /\ UNCHANGED fault
    <2>1. u[2] \in ctx[c].event
      <3>1. c \in Contexts
        BY <1>5, UserTypes
      <3>2. ctx[c].event \in SUBSET Types
        BY <3>1 DEF TypeInv, ContextType
      <3> QED
        BY <1>5, <3>2, OneEvent
    <2>2. /\ Con(u) = c /\ c \in Contexts /\ Holds(u, c)
          /\ reg[u[1]] = On(c, {u[2]})
          /\ \A v \in Users \ {u} : Con(v) # c /\ v[1] # u[1]
      BY <1>1, <1>2, <1>5, <2>1, WaitingUser DEF Con
    <2>3. /\ op'[u].kind = "all" /\ op'[u].con = c
          /\ Con(u)' = None
          /\ \A v \in Users \ {u} : Con(v)' = Con(v)
          /\ reg' = reg /\ mine' = mine /\ ready' = ready /\ rdlist' = rdlist
      BY <1>1, <1>5, <2>2, UserTypes DEF TypeInv, Con, kernelVars
    <2>4. UserOK(u)'
      <3>1. Holds(u, op[u].con)' /\ Waits(u, op[u].con)'
        BY <1>1, <1>3, <2>1, <2>2, <2>3 DEF Holds, Unfired, Waits
      <3>2. \A v \in Users : Con(v)' # op'[u].con
        BY <2>2, <2>3, NoneIsNothing
      <3>3. AllOK(u)'
        BY <2>2, <2>3, <3>1, <3>2 DEF AllOK, On
      <3> QED
        BY <2>3, <3>3 DEF UserOK
    <2>5. UsersInv' /\ SerialInv' /\ DistinctInv' /\ PollInv'
      <3>1. \A v \in Users \ {u} : mine'[u] # None => mine[v] # mine'[u]
        BY <1>1, <2>3 DEF Agree, DistinctInv
      <3> QED
        BY <1>1, <1>2, <1>3, <1>5, <2>3, <2>4, <3>1, UserKeeps
    <2>6. CountInv'
      <3>1. reg' = [reg EXCEPT ![u[1]] = reg[u[1]]]
        BY <2>3 DEF TypeInv
      <3> QED
        BY <1>1, <1>2, <3>1, CountUser
    <2> QED
      BY <1>3, <1>5, <2>5, <2>6 DEF EventInv, Agree, NothingUndefined
  <1> QED
    BY <1>4, <1>5 DEF CancelAllFirst

\* triggerEvent for the event of a user that waits queues that user's handler,
\* for the first time, and no other.
LEMMA QueueOne ==
  ASSUME TypeInv, FiredOnce, Agree, NEW u \in Users, NEW c \in Contexts,
         Holds(u, c), Queue(c, {u[2]}), used' = used,
         \A v \in Users : mine'[v] = mine[v] \/ mine'[v] = None
  PROVE  /\ fault' = fault
         /\ FiredOnce'
         /\ JobInv'
         /\ \A h : h # mine[u] /\ Unfired(h) => Unfired(h)'
  <1> DEFINE h == mine[u]
  <1>1. /\ h \in Callbacks /\ h \in Handlers /\ h \in used /\ h # None /\ fired[h] = 0
        /\ Picked(c, u[2]) = h /\ ~Crashes(c, u[2])
    BY NoneIsNothing DEF Holds, Unfired, Handlers, Picked, Crashes
  <1>2. {Picked(c, y) : y \in {z \in {u[2]} : ~Crashes(c, z)}} \ {None} = {h}
    BY <1>1
  <1>3. /\ jobs' = jobs \cup {h}
        /\ fired' = [k \in Handlers |-> IF k \in {h} /\ fired[k] < 2 THEN fired[k] + 1 ELSE fired[k]]
        /\ fault' = fault
    BY <1>1, <1>2 DEF Queue
  <1> HIDE DEF h
  <1>4. fired'[h] = 1 /\ \A k \in Handlers : k # h => fired'[k] = fired[k]
    BY <1>1, <1>3
  <1>5. FiredOnce'
    BY <1>4 DEF FiredOnce
  <1>6. JobInv'
    <2>1. \A k \in jobs' : fired'[k] > 0
      BY <1>1, <1>3, <1>4 DEF Agree, JobInv, TypeInv
    <2>2. \A k \in Handlers : fired'[k] > 0 => k \in used'
      BY <1>1, <1>4 DEF Agree, JobInv
    <2>3. \A v \in Users : mine'[v] \in used' \cup {None}
      BY DEF Agree, JobInv
    <2> QED
      BY <2>1, <2>2, <2>3 DEF JobInv
  <1>7. \A k : k # h /\ Unfired(k) => Unfired(k)'
    BY <1>4 DEF Unfired, Handlers
  <1> QED
    BY <1>3, <1>5, <1>6, <1>7 DEF h

\* What delEvent and cancelEvent find, and how they end.
LEMMA RemoveSecond ==
  ASSUME SingleEvent, TypeInv, Agree, NEW u \in Users, op[u].kind \in {"del", "cancel"},
         EpollCtl(op[u].ctl, u[1], ctx[op[u].con].event, op[u].con), CountOut(u), AfterSecond(u)
  PROVE  /\ PollersAway
         /\ op[u].con = Con(u) /\ Con(u) \in Contexts /\ ctx[Con(u)] \in ContextType
         /\ ctx[Con(u)].event = {}
         /\ Holds(u, Con(u))
         /\ \A v \in Users \ {u} : op[v] = NoOp /\ v[1] # u[1] /\ Con(v) # Con(u)
         /\ op[u].ctl = "DEL" /\ CtlSucceeds("DEL", u[1])
         /\ reg[u[1]] = On(Con(u), {u[2]})
         /\ reg' = [reg EXCEPT ![u[1]] = Unregistered]
         /\ ready' = ready
         /\ \A f \in rdlist : f # u[1] => f \in rdlist'
         /\ pending' = pending - 1
         /\ mine' = [mine EXCEPT ![u] = None]
         /\ op' = [op EXCEPT ![u] = [op[u] EXCEPT !.kind = "erase"]]
  <1>1. /\ PollersAway
        /\ \A v \in Users \ {u} : op[v] = NoOp /\ v[1] # u[1]
        /\ RemoveOK(u)
    BY BusyFacts DEF UserOK, NoOp
  <1>2. op[u].con = Con(u) /\ Con(u) \in Contexts /\ ctx[Con(u)] \in ContextType
    BY <1>1, UserTypes DEF RemoveOK, Con
  <1>3. ctx[Con(u)].event = {}
    <2>1. ctx[Con(u)].event \in SUBSET Types
      BY <1>2 DEF ContextType
    <2> QED
      BY <1>1, <2>1, OneEvent DEF RemoveOK, Waits
  <1>4. \A v \in Users \ {u} : Con(v) # Con(u)
    BY <1>1 DEF Agree, DistinctInv, RemoveOK
  <1>5. op[u].ctl = "DEL" /\ reg[u[1]] = On(Con(u), {u[2]}) /\ reg[u[1]].on
    BY <1>1 DEF RemoveOK, On
  <1>6. /\ CtlSucceeds("DEL", u[1])
        /\ reg' = [reg EXCEPT ![u[1]] = Unregistered]
        /\ ready' = ready
        /\ \A f \in rdlist : f # u[1] => f \in rdlist'
    BY <1>5, UserTypes, CtlDeletes
  <1>7. /\ pending' = pending - 1
        /\ mine' = [mine EXCEPT ![u] = None]
        /\ op' = [op EXCEPT ![u] = [op[u] EXCEPT !.kind = "erase"]]
    BY <1>5, <1>6 DEF CountOut, AfterSecond
  <1> QED
    BY <1>1, <1>2, <1>3, <1>4, <1>5, <1>6, <1>7 DEF RemoveOK

LEMMA RemoveSecondKeeps ==
  ASSUME SingleEvent, TypeInv, Agree, TypeInv', NEW u \in Users, op[u].kind \in {"del", "cancel"},
         EpollCtl(op[u].ctl, u[1], ctx[op[u].con].event, op[u].con), CountOut(u), AfterSecond(u),
         UNCHANGED <<fdContexts, pollVars>>,
         ctx'[Con(u)].event = {},
         \A d \in Contexts : d # Con(u) => ctx'[d] = ctx[d],
         \A h : h # mine[u] /\ Unfired(h) => Unfired(h)'
  PROVE  UsersInv' /\ SerialInv' /\ DistinctInv' /\ PollInv' /\ CountInv'
  <1>1. /\ PollersAway
        /\ op[u].con = Con(u) /\ Con(u) \in Contexts /\ ctx[Con(u)] \in ContextType
        /\ Holds(u, Con(u))
        /\ \A v \in Users \ {u} : op[v] = NoOp /\ v[1] # u[1] /\ Con(v) # Con(u)
        /\ reg[u[1]] = On(Con(u), {u[2]})
        /\ reg' = [reg EXCEPT ![u[1]] = Unregistered]
        /\ ready' = ready
        /\ \A f \in rdlist : f # u[1] => f \in rdlist'
        /\ pending' = pending - 1
        /\ mine' = [mine EXCEPT ![u] = None]
        /\ op' = [op EXCEPT ![u] = [op[u] EXCEPT !.kind = "erase"]]
    BY RemoveSecond
  <1>2. /\ op'[u].kind = "erase" /\ op'[u].con = Con(u) /\ mine'[u] = None
        /\ Con(u)' = Con(u) /\ Con(u) # None
        /\ reg'[u[1]] = Unregistered
    <2>1. op'[u] = [op[u] EXCEPT !.kind = "erase"]
      BY <1>1 DEF TypeInv
    <2>2. op[u] \in OpType
      BY UserTypes
    <2>3. op'[u].kind = "erase" /\ op'[u].con = op[u].con
      BY <2>1, <2>2 DEF OpType
    <2> QED
      BY <1>1, <2>3, NoneIsNothing, UserTypes DEF TypeInv, Con
  <1>3. UserOK(u)'
    <2>1. EraseOK(u)'
      BY <1>2 DEF EraseOK, Waits, Unregistered
    <2> QED
      BY <1>2, <2>1 DEF UserOK
  <1>4. \A v \in Users \ {u} : /\ Con(v)' = Con(v)
                               /\ Con(v) # None => ctx'[Con(v)] = ctx[Con(v)]
                               /\ reg'[v[1]] = reg[v[1]]
                               /\ v[1] \in rdlist => v[1] \in rdlist'
                               /\ mine'[v] = mine[v]
                               /\ Unfired(mine[v]) => Unfired(mine[v])'
    <2> SUFFICES ASSUME NEW v \in Users \ {u}
                 PROVE  /\ Con(v)' = Con(v)
                        /\ Con(v) # None => ctx'[Con(v)] = ctx[Con(v)]
                        /\ reg'[v[1]] = reg[v[1]]
                        /\ v[1] \in rdlist => v[1] \in rdlist'
                        /\ mine'[v] = mine[v]
                        /\ Unfired(mine[v]) => Unfired(mine[v])'
      OBVIOUS
    <2>1. Con(v)' = Con(v) /\ Con(v) \in Contexts \cup {None} /\ Con(v) # Con(u) /\ v[1] \in Fds /\ v[1] # u[1]
      BY <1>1, UserTypes DEF Con
    <2>2. mine[v] # mine[u]
      <3>1. mine[u] # None
        BY <1>1, NoneIsNothing DEF Holds, Unfired, Handlers
      <3> QED
        BY <3>1 DEF Agree, DistinctInv
    <2>3. reg'[v[1]] = reg[v[1]] /\ mine'[v] = mine[v]
      BY <1>1, <2>1 DEF TypeInv
    <2> QED
      BY <1>1, <2>1, <2>2, <2>3
  <1>5. UsersInv' /\ SerialInv' /\ DistinctInv' /\ PollInv'
    <2> DEFINE o == [op[u] EXCEPT !.kind = "erase"]
    <2>1. op' = [op EXCEPT ![u] = o]
      BY <1>1
    <2>2. Con(u)' # None => \A v \in Users \ {u} : Con(v) # Con(u)'
      BY <1>1, <1>2
    <2>3. mine'[u] # None => \A v \in Users \ {u} : mine[v] # mine'[u]
      BY <1>2
    <2>4. /\ PollersAway /\ UNCHANGED <<ready, pollVars>>
          /\ \A v \in Users \ {u} : op[v] = NoOp
      BY <1>1
    <2> HIDE DEF o
    <2> QED
      BY <1>3, <1>4, <2>1, <2>2, <2>3, <2>4, UserKeeps
  <1>6. CountInv'
    <2>1. u[2] \in reg[u[1]].interest /\ u[2] \notin Unregistered.interest
      BY <1>1 DEF On, Unregistered
    <2> QED
      BY <1>1, <2>1, CountUser
  <1> QED
    BY <1>5, <1>6

LEMMA DelSecondSound ==
  ASSUME SingleEvent, TypeInv, EventInv, Sound, NEW u \in Users, DelSecond(u), TypeInv'
  PROVE  EventInv'
  <1> DEFINE y == u[2]
             x == [ctx[Con(u)] EXCEPT !.cb[y] = None, !.fiber[y] = None, !.scheduler[y] = FALSE]
  <1>1. /\ op[u].kind \in {"del", "cancel"} /\ Agree
        /\ EpollCtl(op[u].ctl, u[1], ctx[op[u].con].event, op[u].con)
        /\ CountOut(u) /\ AfterSecond(u)
        /\ UNCHANGED <<fdContexts, used, jobVars, pollVars, fault>>
    BY DEF DelSecond, EventInv
  <1>2. /\ op[u].con = Con(u) /\ Con(u) \in Contexts /\ ctx[Con(u)] \in ContextType
        /\ ctx[Con(u)].event = {}
        /\ op[u].ctl = "DEL" /\ CtlSucceeds("DEL", u[1])
        /\ mine' = [mine EXCEPT ![u] = None]
    BY <1>1, RemoveSecond
  <1>3. ctx' = [ctx EXCEPT ![Con(u)] = x]
    BY <1>2 DEF DelSecond
  <1>4. x.event = {}
    BY <1>2 DEF ContextType
  <1> HIDE DEF x
  <1>5. ctx'[Con(u)].event = {} /\ \A d \in Contexts : d # Con(u) => ctx'[d] = ctx[d]
    BY <1>2, <1>3, <1>4 DEF TypeInv
  <1>6. FiredOnce' /\ JobInv' /\ \A k : Unfired(k) => Unfired(k)'
    <2>1. \A v \in Users : mine'[v] = mine[v] \/ mine'[v] \in used' \cup {None}
      BY <1>2 DEF TypeInv
    <2> QED
      BY <1>1, <2>1, JobsKeep DEF EventInv, Agree
  <1>7. UsersInv' /\ SerialInv' /\ DistinctInv' /\ PollInv' /\ CountInv'
    BY <1>1, <1>5, <1>6, RemoveSecondKeeps
  <1> QED
    BY <1>1, <1>6, <1>7 DEF EventInv, Agree, NothingUndefined

LEMMA CancelSecondSound ==
  ASSUME SingleEvent, TypeInv, EventInv, Sound, NEW u \in Users, CancelSecond(u), TypeInv'
  PROVE  EventInv'
  <1> DEFINE y == u[2]
             x == Triggered(Con(u), {y}, {} \ {y})
  <1>1. /\ op[u].kind \in {"del", "cancel"} /\ Agree
        /\ EpollCtl(op[u].ctl, u[1], ctx[op[u].con].event, op[u].con)
        /\ CountOut(u) /\ AfterSecond(u)
        /\ UNCHANGED <<fdContexts, used, pollVars>>
    BY DEF CancelSecond, EventInv
  <1>2. /\ op[u].con = Con(u) /\ Con(u) \in Contexts /\ ctx[Con(u)] \in ContextType
        /\ ctx[Con(u)].event = {}
        /\ Holds(u, Con(u))
        /\ op[u].ctl = "DEL" /\ CtlSucceeds("DEL", u[1])
        /\ mine' = [mine EXCEPT ![u] = None]
    BY <1>1, RemoveSecond
  <1>3. Queue(Con(u), {y}) /\ ctx' = [ctx EXCEPT ![Con(u)] = x]
    BY <1>2 DEF CancelSecond
  <1>4. x.event = {}
    BY <1>2 DEF ContextType, Triggered
  <1> HIDE DEF x
  <1>5. ctx'[Con(u)].event = {} /\ \A d \in Contexts : d # Con(u) => ctx'[d] = ctx[d]
    BY <1>2, <1>3, <1>4 DEF TypeInv
  <1>6. FiredOnce' /\ JobInv' /\ fault' = fault /\ \A k : k # mine[u] /\ Unfired(k) => Unfired(k)'
    <2>1. \A v \in Users : mine'[v] = mine[v] \/ mine'[v] = None
      BY <1>2 DEF TypeInv
    <2> QED
      BY <1>1, <1>2, <1>3, <2>1, QueueOne DEF EventInv
  <1>7. UsersInv' /\ SerialInv' /\ DistinctInv' /\ PollInv' /\ CountInv'
    BY <1>1, <1>5, <1>6, RemoveSecondKeeps
  <1> QED
    BY <1>6, <1>7 DEF EventInv, Agree, NothingUndefined

LEMMA CancelAllSecondSound ==
  ASSUME SingleEvent, TypeInv, EventInv, Sound, NEW u \in Users, CancelAllSecond(u), TypeInv'
  PROVE  EventInv'
  <1> DEFINE c == op[u].con
             x == Triggered(c, {u[2]}, {})
  <1>1. /\ op[u].kind = "all" /\ Agree /\ c \in Contexts
        /\ EpollCtl("DEL", u[1], {}, c)
        /\ mine' = [v \in Users |-> IF v[1] = u[1] THEN None ELSE mine[v]]
        /\ op' = [op EXCEPT ![u] = NoOp]
        /\ UNCHANGED <<fdContexts, used, pollVars>>
    BY UserTypes DEF CancelAllSecond, EventInv
  <1>2. /\ PollersAway
        /\ \A v \in Users \ {u} : op[v] = NoOp /\ v[1] # u[1]
        /\ AllOK(u)
    BY <1>1, BusyFacts DEF UserOK, NoOp
  <1>3. /\ ctx[c] \in ContextType /\ ctx[c].event = {u[2]}
        /\ Con(u) = None /\ \A v \in Users : Con(v) # c
        /\ Holds(u, c)
        /\ reg[u[1]] = On(c, {u[2]}) /\ reg[u[1]].on
    <2>1. ctx[c] \in ContextType
      BY <1>1 DEF TypeInv
    <2>2. ctx[c].event \in SUBSET Types
      BY <2>1 DEF ContextType
    <2> QED
      BY <1>2, <2>1, <2>2, OneEvent DEF AllOK, Waits, On
  <1>4. /\ CtlSucceeds("DEL", u[1])
        /\ reg' = [reg EXCEPT ![u[1]] = Unregistered]
        /\ ready' = ready
        /\ \A f \in rdlist : f # u[1] => f \in rdlist'
    BY <1>1, <1>3, UserTypes, CtlDeletes
  <1>5. /\ Queue(c, {u[2]})
        /\ pending' = pending - 1
        /\ ctx' = [ctx EXCEPT ![c] = x]
    <2>1. /\ Queue(c, ctx[c].event)
          /\ pending' = pending - Cardinality(ctx[c].event)
          /\ ctx' = [ctx EXCEPT ![c] = Triggered(c, ctx[c].event, {})]
      BY <1>4 DEF CancelAllSecond
    <2>2. Cardinality({u[2]}) = 1
      BY FS_Singleton
    <2> QED
      BY <1>3, <2>1, <2>2
  <1> HIDE DEF x
  <1>6. FiredOnce' /\ JobInv' /\ fault' = fault /\ \A k : k # mine[u] /\ Unfired(k) => Unfired(k)'
    <2>1. \A v \in Users : mine'[v] = mine[v] \/ mine'[v] = None
      BY <1>1
    <2> QED
      BY <1>1, <1>3, <1>5, <2>1, QueueOne DEF EventInv
  <1>7. op'[u] = NoOp /\ mine'[u] = None /\ Con(u)' = None /\ reg'[u[1]] = Unregistered
    BY <1>1, <1>3, <1>4, UserTypes DEF TypeInv, Con
  <1>8. UserOK(u)'
    BY <1>7 DEF UserOK, IdleOK, Unregistered
  <1>9. \A v \in Users \ {u} : /\ Con(v)' = Con(v)
                               /\ Con(v) # None => ctx'[Con(v)] = ctx[Con(v)]
                               /\ reg'[v[1]] = reg[v[1]]
                               /\ v[1] \in rdlist => v[1] \in rdlist'
                               /\ mine'[v] = mine[v]
                               /\ Unfired(mine[v]) => Unfired(mine[v])'
    <2> SUFFICES ASSUME NEW v \in Users \ {u}
                 PROVE  /\ Con(v)' = Con(v)
                        /\ Con(v) # None => ctx'[Con(v)] = ctx[Con(v)]
                        /\ reg'[v[1]] = reg[v[1]]
                        /\ v[1] \in rdlist => v[1] \in rdlist'
                        /\ mine'[v] = mine[v]
                        /\ Unfired(mine[v]) => Unfired(mine[v])'
      OBVIOUS
    <2>1. Con(v)' = Con(v) /\ Con(v) \in Contexts \cup {None} /\ v[1] \in Fds /\ v[1] # u[1] /\ Con(v) # c
      BY <1>1, <1>2, <1>3, UserTypes DEF Con
    <2>2. mine[v] # mine[u]
      <3>1. mine[u] # None
        BY <1>3, NoneIsNothing DEF Holds, Unfired, Handlers
      <3> QED
        BY <1>1, <3>1 DEF Agree, DistinctInv
    <2>3. reg'[v[1]] = reg[v[1]] /\ mine'[v] = mine[v]
      BY <1>1, <1>4, <2>1 DEF TypeInv
    <2>4. Con(v) # None => ctx'[Con(v)] = ctx[Con(v)]
      BY <1>5, <2>1 DEF TypeInv
    <2> QED
      BY <1>4, <1>6, <2>1, <2>2, <2>3, <2>4
  <1>10. UsersInv' /\ SerialInv' /\ DistinctInv' /\ PollInv'
    BY <1>1, <1>2, <1>4, <1>7, <1>8, <1>9, UserKeeps
  <1>11. CountInv'
    <2>1. u[2] \in reg[u[1]].interest /\ u[2] \notin Unregistered.interest
      BY <1>3 DEF On, Unregistered
    <2> QED
      BY <1>1, <1>2, <1>4, <1>5, <2>1, CountUser
  <1> QED
    BY <1>6, <1>10, <1>11 DEF EventInv, Agree, NothingUndefined

LEMMA WaitSound ==
  ASSUME SingleEvent, TypeInv, EventInv, Sound, NEW t \in Pollers, Wait(t), TypeInv'
  PROVE  EventInv'
  <1> DEFINE events == {e \in {Reported(f) : f \in rdlist} : e.types # {}}
  <1>1. /\ Agree /\ pc[t] = "away"
        /\ \A u \in Users : op[u] = NoOp
        /\ batch' = [batch EXCEPT ![t] = events]
        /\ rdlist' = {}
        /\ pc' = [pc EXCEPT ![t] = "dispatching"]
        /\ UNCHANGED <<ctxVars, reg, ready, userVars, jobVars, fdMutex, cur, seen, fault>>
    BY DEF Wait, EventInv, SingleEvent, NobodyBusy
  <1>2. Pollers = {t} /\ PollersAway
    BY <1>1, EventAssumption DEF SingleEvent, PollersAway
  <1>3. \A u : ~Firing(u) /\ ~InBatch(u)
    BY <1>1, <1>2, Away DEF Agree
  <1>4. batch'[t] = events /\ pc'[t] = "dispatching"
    BY <1>1 DEF TypeInv
  <1>5. \A u : ~Firing(u)'
    BY <1>2, <1>4 DEF Firing
  <1>6. \A u \in Users : IdleOK(u) /\ Con(u)' = Con(u)
    <2>1. NoOp.kind = "none"
      BY DEF NoOp
    <2> QED
      BY <1>1, <2>1 DEF Agree, UsersInv, UserOK, Con, ctxVars
  \* What is reported is what a user waits for ...
  <1>7. ASSUME NEW e \in events
        PROVE  \E u \in Users : Con(u) # None /\ e = EventOf(u) /\ Waits(u, Con(u))
    <2>1. PICK f \in rdlist : e = Reported(f) /\ ready[f] \cap reg[f].interest # {}
      BY DEF Reported
    <2>2. PICK u \in Users : u[1] = f
      BY <2>1, OneEvent DEF TypeInv
    <2>3. reg[f].interest # {}
      BY <2>1
    <2>4. Con(u) # None
      BY <1>6, <2>2, <2>3 DEF IdleOK, Unregistered
    <2>5. Waits(u, Con(u))
      <3> SUFFICES ASSUME ~Waits(u, Con(u))
                   PROVE  FALSE
        OBVIOUS
      <3>1. reg[f] = On(Con(u), {})
        BY <1>6, <2>2, <2>4 DEF IdleOK, RestsOK
      <3> QED
        BY <2>3, <3>1 DEF On
    <2>6. reg[f] = On(Con(u), {u[2]})
      BY <1>3, <1>6, <2>2, <2>4, <2>5 DEF IdleOK, WaitsOK
    <2>7. e.con = Con(u) /\ e.types = {u[2]} /\ e = [con |-> e.con, types |-> e.types]
      BY <2>1, <2>6 DEF Reported, On
    <2> QED
      BY <2>4, <2>5, <2>7 DEF EventOf
  \* ... and whoever has an edge in the ready list is reported.
  <1>8. ASSUME NEW u \in Users, Con(u) # None, Waits(u, Con(u)), u[2] \in ready[u[1]]
        PROVE  \E e \in events : e.con = Con(u)
    <2>1. u[1] \in rdlist /\ reg[u[1]] = On(Con(u), {u[2]})
      BY <1>3, <1>6, <1>8 DEF IdleOK, WaitsOK
    <2>2. Reported(u[1]).con = Con(u) /\ Reported(u[1]).types # {}
      BY <1>8, <2>1 DEF Reported, On
    <2> QED
      BY <2>1, <2>2
  <1> HIDE DEF events
  <1>9. FiredOnce' /\ JobInv' /\ \A k : Unfired(k) => Unfired(k)'
    BY <1>1, JobsKeep DEF EventInv, Agree, userVars
  <1>10. UsersInv'
    <2> SUFFICES ASSUME NEW u \in Users
                 PROVE  IdleOK(u)'
      BY <1>1 DEF UsersInv, UserOK, userVars
    <2>1. CASE Con(u) = None
      BY <1>1, <1>6, <2>1 DEF IdleOK
    <2>2. CASE Con(u) # None /\ Waits(u, Con(u))
      <3>1. Holds(u, Con(u))'
        BY <1>1, <1>6, <1>9, <2>2 DEF IdleOK, WaitsOK, Holds, Unfired, ctxVars, userVars
      <3>2. u[2] \in ready[u[1]] => InBatch(u)'
        BY <1>4, <1>6, <1>8, <2>2 DEF InBatch
      <3>3. WaitsOK(u)'
        <4>1. reg'[u[1]] = On(Con(u)', {u[2]})
          BY <1>1, <1>3, <1>6, <2>2 DEF IdleOK, WaitsOK
        <4>2. u[2] \in ready'[u[1]] => InBatch(u)'
          BY <1>1, <3>2
        <4> QED
          BY <1>5, <3>1, <4>1, <4>2 DEF WaitsOK, On
      <3> QED
        BY <1>1, <1>6, <2>2, <3>3 DEF IdleOK, Waits, ctxVars
    <2>3. CASE Con(u) # None /\ ~Waits(u, Con(u))
      <3>1. ~InBatch(u)'
        <4> SUFFICES ASSUME NEW e \in events, e.con = Con(u)
                     PROVE  FALSE
          BY <1>2, <1>4, <1>6 DEF InBatch
        <4>1. PICK v \in Users : Con(v) # None /\ e = EventOf(v) /\ Waits(v, Con(v))
          BY <1>7
        <4>2. v = u
          BY <1>1, <2>3, <4>1 DEF EventOf, Agree, DistinctInv
        <4> QED
          BY <2>3, <4>1, <4>2
      <3>2. RestsOK(u)'
        BY <1>1, <1>5, <1>6, <2>3, <3>1 DEF IdleOK, RestsOK, On
      <3> QED
        BY <1>1, <1>6, <2>3, <3>2 DEF IdleOK, Waits, ctxVars
    <2> QED
      BY <2>1, <2>2, <2>3
  <1>11. SerialInv' /\ DistinctInv'
    BY <1>1, <1>6 DEF SerialInv, DistinctInv, Agree, userVars
  <1>12. PollInv'
    <2>1. \A e \in batch'[t] : \E u \in Users : Con(u)' # None /\ e = EventOf(u)' /\ Waits(u, Con(u))'
      <3> SUFFICES ASSUME NEW e \in events
                   PROVE  \E u \in Users : Con(u)' # None /\ e = EventOf(u)' /\ Waits(u, Con(u))'
        BY <1>4
      <3>1. PICK u \in Users : Con(u) # None /\ e = EventOf(u) /\ Waits(u, Con(u))
        BY <1>7
      <3> QED
        BY <1>1, <1>6, <3>1 DEF EventOf, Waits, ctxVars
    <2> QED
      BY <1>2, <1>4, <2>1 DEF PollInv
  <1>13. CountInv'
    <2>1. Counted' = Counted
      BY <1>1, <1>3, <1>5 DEF Counted
    <2> QED
      BY <1>1, <2>1 DEF Agree, CountInv, ctxVars
  <1> QED
    BY <1>1, <1>9, <1>10, <1>11, <1>12, <1>13 DEF EventInv, Agree, NothingUndefined

\* While the poller is at work nobody is in the middle of an operation.
LEMMA WorkFacts ==
  ASSUME SingleEvent, TypeInv, Agree, NEW t \in Pollers, pc[t] # "away"
  PROVE  /\ Pollers = {t}
         /\ \A u \in Users : op[u] = NoOp /\ IdleOK(u)
  <1>1. \A u \in Users : op[u] = NoOp
    BY DEF Agree, SerialInv
  <1>2. NoOp.kind = "none"
    BY DEF NoOp
  <1> QED
    BY <1>1, <1>2, EventAssumption DEF SingleEvent, Agree, UsersInv, UserOK

\* The context of a user is not freed, and is that user's alone.
LEMMA OwnContext ==
  ASSUME SingleEvent, TypeInv, Agree, NEW u \in Users, Con(u) # None, Waits(u, Con(u))
  PROVE  /\ Exists(Con(u))
         /\ Con(u) \in Contexts
         /\ ctx[Con(u)] \in ContextType
         /\ ctx[Con(u)].event = {u[2]}
         /\ \A v \in Users \ {u} : Con(v) # Con(u) /\ v[1] # u[1]
  <1>1. Con(u) \in Contexts /\ u[1] \in Fds
    BY UserTypes DEF Con
  <1>2. Exists(Con(u))
    <2>1. DOMAIN fdContexts = Fds
      BY DEF TypeInv
    <2> QED
      BY <1>1, <2>1 DEF Exists, Range, Con
  <1>3. ctx[Con(u)] \in ContextType
    BY <1>1 DEF TypeInv
  <1>4. ctx[Con(u)].event \in SUBSET Types
    BY <1>3 DEF ContextType
  <1> QED
    BY <1>1, <1>2, <1>3, <1>4, OneEvent DEF Waits, Agree, DistinctInv

LEMMA DispatchSound ==
  ASSUME SingleEvent, TypeInv, EventInv, Sound, NEW t \in Pollers, Dispatch(t), TypeInv'
  PROVE  EventInv'
  <1>1. /\ Agree /\ pc[t] = "dispatching"
        /\ UNCHANGED <<ctxVars, userVars, jobVars>>
    BY DEF Dispatch, EventInv
  <1>2. Pollers = {t} /\ \A u \in Users : op[u] = NoOp /\ IdleOK(u)
    BY <1>1, WorkFacts
  <1>3. PICK e \in batch[t] :
          IF ~Exists(e.con)
          THEN fault' = "freed context"
          ELSE /\ Rearm(e.con, ctx[e.con].event \ e.types)
               /\ batch' = [batch EXCEPT ![t] = @ \ {e}]
               /\ cur' = [cur EXCEPT ![t] = e]
               /\ seen' = [seen EXCEPT ![t] = ctx[e.con].event]
               /\ pc' = [pc EXCEPT ![t] = "firing"]
               /\ UNCHANGED fault
    BY DEF Dispatch
  <1>4. PICK u \in Users : Con(u) # None /\ e = EventOf(u) /\ Waits(u, Con(u))
    BY <1>1, <1>3 DEF Agree, PollInv
  <1> DEFINE c == e.con
  <1>5. /\ c = Con(u) /\ e.types = {u[2]} /\ c \in Contexts
        /\ Exists(c) /\ ctx[c].event = {u[2]}
        /\ \A v \in Users \ {u} : Con(v) # c /\ v[1] # u[1]
    BY <1>1, <1>4, OwnContext DEF EventOf
  <1>6. \A v : ~Firing(v)
    BY <1>1, <1>2 DEF Firing
  <1>7. ctx[c].fd = u[1] /\ Holds(u, c) /\ reg[u[1]] = On(c, {u[2]})
    BY <1>2, <1>4, <1>5, <1>6 DEF IdleOK, WaitsOK
  <1>8. /\ Rearm(c, {})
        /\ batch' = [batch EXCEPT ![t] = batch[t] \ {e}]
        /\ cur' = [cur EXCEPT ![t] = e]
        /\ seen' = [seen EXCEPT ![t] = {u[2]}]
        /\ pc' = [pc EXCEPT ![t] = "firing"]
        /\ UNCHANGED fault
    BY <1>3, <1>5
  <1>9. reg' = [reg EXCEPT ![u[1]] = On(c, {})] /\ ready' = ready /\ rdlist' = rdlist
    <2>1. EpollCtl("MOD", u[1], {}, c)
      BY <1>7, <1>8 DEF Rearm
    <2>2. CtlSucceeds("MOD", u[1])
      <3>1. reg[u[1]].on = TRUE
        BY <1>7 DEF On
      <3> QED
        BY <3>1 DEF CtlSucceeds
    <2> QED
      BY <2>1, <2>2 DEF EpollCtl, On
  <1>10. FiredOnce' /\ JobInv' /\ \A k : Unfired(k) => Unfired(k)'
    BY <1>1, JobsKeep DEF EventInv, Agree, userVars
  <1>11. batch'[t] = batch[t] \ {e} /\ cur'[t] = e /\ seen'[t] = {u[2]} /\ pc'[t] = "firing"
    BY <1>8 DEF TypeInv
  <1>12. \A v \in Users : Con(v)' = Con(v)
    BY <1>1 DEF Con, ctxVars
  <1>13. Firing(u)' /\ \A v \in Users \ {u} : ~Firing(v)'
    <2>1. \A v \in Users : Firing(v)' <=> Con(v) # None /\ e.con = Con(v)
      BY <1>2, <1>11, <1>12 DEF Firing
    <2> QED
      BY <1>4, <1>5, <2>1
  <1>14. UsersInv'
    <2> SUFFICES ASSUME NEW v \in Users
                 PROVE  IdleOK(v)'
      BY <1>1, <1>2 DEF UsersInv, UserOK, userVars
    <2>1. CASE v = u
      <3>1. Holds(u, Con(u))'
        BY <1>1, <1>5, <1>7, <1>10, <1>12 DEF Holds, Unfired, ctxVars, userVars
      <3>2. reg'[u[1]] = On(Con(u)', {})
        BY <1>5, <1>9, <1>12, UserTypes DEF TypeInv
      <3>3. WaitsOK(u)'
        BY <1>13, <3>1, <3>2 DEF WaitsOK, On
      <3> QED
        BY <1>1, <1>4, <1>5, <1>7, <1>12, <2>1, <3>3 DEF IdleOK, Waits, ctxVars
    <2>2. CASE v # u
      <3>1. InBatch(v)' <=> InBatch(v)
        BY <1>2, <1>5, <1>11, <1>12, <2>2 DEF InBatch
      <3>2. reg'[v[1]] = reg[v[1]]
        BY <1>5, <1>9, <2>2, UserTypes DEF TypeInv
      <3> QED
        BY <1>1, <1>2, <1>6, <1>9, <1>10, <1>12, <1>13, <2>2, <3>1, <3>2, IdleKeeps
           DEF ctxVars, userVars
    <2> QED
      BY <2>1, <2>2
  <1>15. SerialInv' /\ DistinctInv'
    BY <1>1, <1>2, <1>12 DEF SerialInv, DistinctInv, Agree, userVars
  <1>16. PollInv'
    <2>1. \A d \in batch[t] : \E v \in Users : Con(v)' # None /\ d = EventOf(v)' /\ Waits(v, Con(v))'
      BY <1>1, <1>12 DEF Agree, PollInv, EventOf, Waits, ctxVars
    <2>2. \E v \in Users : Con(v)' # None /\ cur'[t] = EventOf(v)' /\ Waits(v, Con(v))'
      BY <1>3, <1>11, <2>1
    <2>3. ASSUME NEW d \in batch[t], d # e
          PROVE  d.con # e.con
      <3>1. PICK v \in Users : d = EventOf(v)
        BY <1>1 DEF Agree, PollInv
      <3>2. v # u
        BY <1>4, <2>3, <3>1
      <3> QED
        BY <1>5, <3>1, <3>2 DEF EventOf
    <2>4. seen'[t] = cur'[t].types
      BY <1>5, <1>11
    <2> QED
      BY <1>2, <1>11, <2>1, <2>2, <2>3, <2>4 DEF PollInv
  <1>17. CountInv'
    <2>1. u \in Counted /\ u \in Counted'
      BY <1>7, <1>13 DEF Counted, On
    <2>2. \A v \in Users \ {u} : v \in Counted' <=> v \in Counted
      <3>1. \A v \in Users \ {u} : reg'[v[1]] = reg[v[1]]
        BY <1>5, <1>9, UserTypes DEF TypeInv
      <3> QED
        BY <1>6, <1>13, <3>1 DEF Counted
    <2>3. Counted' \subseteq Users /\ pending' = pending
      BY <1>1 DEF Counted, ctxVars
    <2> QED
      BY <1>1, <2>1, <2>2, <2>3, CountStep
  <1> QED
    BY <1>8, <1>10, <1>14, <1>15, <1>16, <1>17 DEF EventInv, Agree, NothingUndefined

LEMMA FireSound ==
  ASSUME SingleEvent, TypeInv, EventInv, Sound, NEW t \in Pollers, Fire(t), TypeInv'
  PROVE  EventInv'
  <1> DEFINE c == cur[t].con
  <1>1. /\ Agree /\ pc[t] = "firing"
        /\ UNCHANGED <<fdContexts, kernelVars, userVars>>
    BY DEF Fire, EventInv
  <1>2. Pollers = {t} /\ \A u \in Users : op[u] = NoOp /\ IdleOK(u)
    BY <1>1, WorkFacts
  <1>3. PICK u \in Users : Con(u) # None /\ cur[t] = EventOf(u) /\ Waits(u, Con(u))
    BY <1>1 DEF Agree, PollInv
  <1>4. /\ c = Con(u) /\ cur[t].types = {u[2]} /\ seen[t] = {u[2]} /\ c \in Contexts
        /\ Exists(c) /\ ctx[c] \in ContextType
        /\ \A v \in Users \ {u} : Con(v) # c /\ v[1] # u[1]
        /\ \A e \in batch[t] : e.con # c
    <2>1. c = Con(u) /\ cur[t].types = {u[2]}
      BY <1>3 DEF EventOf
    <2>2. seen[t] = cur[t].types /\ \A e \in batch[t] : e.con # c
      BY <1>1 DEF Agree, PollInv
    <2>3. /\ Exists(Con(u)) /\ Con(u) \in Contexts /\ ctx[Con(u)] \in ContextType
          /\ \A v \in Users \ {u} : Con(v) # Con(u) /\ v[1] # u[1]
      BY <1>1, <1>3, OwnContext
    <2> QED
      BY <2>1, <2>2, <2>3
  <1>5. Firing(u) /\ \A v \in Users \ {u} : ~Firing(v)
    BY <1>1, <1>2, <1>3, <1>4 DEF Firing
  <1>6. ctx[c].fd = u[1] /\ Holds(u, c) /\ reg[u[1]] = On(c, {})
    BY <1>2, <1>3, <1>4, <1>5 DEF IdleOK, WaitsOK
  <1>7. /\ Queue(c, {u[2]})
        /\ ctx' = [ctx EXCEPT ![c] = Triggered(c, {u[2]}, {})]
        /\ pending' = pending - 1
        /\ pc' = [pc EXCEPT ![t] = IF batch[t] = {} THEN "away" ELSE "dispatching"]
        /\ batch' = batch
    <2> DEFINE y == IF "READ" \in cur[t].types THEN "READ" ELSE "WRITE"
    <2>1. y = u[2]
      BY <1>4, UserTypes, EventAssumption
    <2>2. cur[t].types \ {y} = {} /\ seen[t] \ {y} = {}
      BY <1>4, <2>1
    <2> HIDE DEF y
    <2>3. /\ Queue(c, {y})
          /\ ctx' = [ctx EXCEPT ![c] = Triggered(c, {y}, seen[t] \ {y})]
          /\ pending' = pending - 1
          /\ pc' = [pc EXCEPT ![t] = IF batch[t] = {} THEN "away" ELSE "dispatching"]
          /\ batch' = batch
      BY <1>4, <2>2 DEF Fire, y
    <2> QED
      BY <2>1, <2>2, <2>3
  <1>8. FiredOnce' /\ JobInv' /\ fault' = fault /\ \A k : k # mine[u] /\ Unfired(k) => Unfired(k)'
    BY <1>1, <1>4, <1>6, <1>7, QueueOne DEF EventInv, userVars
  <1>9. pc'[t] = (IF batch[t] = {} THEN "away" ELSE "dispatching") /\ batch'[t] = batch[t]
    BY <1>7 DEF TypeInv
  <1>10. \A v : ~Firing(v)'
    BY <1>2, <1>9 DEF Firing
  <1>11. \A v \in Users : Con(v)' = Con(v)
    BY <1>1 DEF Con
  <1>12. /\ ctx'[c].fd = u[1] /\ ctx'[c].event = {}
         /\ \A d \in Contexts : d # c => ctx'[d] = ctx[d]
    <2>1. Triggered(c, {u[2]}, {}).fd = ctx[c].fd /\ Triggered(c, {u[2]}, {}).event = {}
      BY <1>4 DEF Triggered, ContextType
    <2> QED
      BY <1>4, <1>6, <1>7, <2>1 DEF TypeInv
  <1>13. \A v \in Users \ {u} : Con(v) # None => ctx'[Con(v)] = ctx[Con(v)]
    BY <1>4, <1>12, UserTypes DEF Con
  <1>14. UsersInv'
    <2> SUFFICES ASSUME NEW v \in Users
                 PROVE  IdleOK(v)'
      BY <1>1, <1>2 DEF UsersInv, UserOK, userVars
    <2>1. CASE v = u
      <3>1. ~InBatch(u)'
        BY <1>2, <1>4, <1>9, <1>11 DEF InBatch
      <3>2. RestsOK(u)'
        BY <1>1, <1>4, <1>6, <1>10, <1>11, <3>1 DEF RestsOK, On, kernelVars
      <3> QED
        BY <1>3, <1>4, <1>11, <1>12, <2>1, <3>2 DEF IdleOK, Waits
    <2>2. CASE v # u
      <3>1. InBatch(v)' <=> InBatch(v)
        BY <1>7, <1>11 DEF InBatch
      <3>2. Unfired(mine[v]) => Unfired(mine[v])'
        <4>1. mine[u] # None
          BY <1>6, NoneIsNothing DEF Holds, Unfired, Handlers
        <4>2. mine[v] # mine[u] /\ mine'[v] = mine[v]
          BY <1>1, <2>2, <4>1 DEF Agree, DistinctInv, userVars
        <4> QED
          BY <1>8, <4>2
      <3>3. /\ reg' = reg /\ ready' = ready /\ rdlist' = rdlist /\ mine' = mine
            /\ Firing(v)' <=> Firing(v)
        BY <1>1, <1>5, <1>10, <2>2 DEF kernelVars, userVars
      <3> QED
        BY <1>2, <1>11, <1>13, <2>2, <3>1, <3>2, <3>3, IdleKeeps
    <2> QED
      BY <2>1, <2>2
  <1>15. SerialInv' /\ DistinctInv'
    BY <1>1, <1>2, <1>11 DEF SerialInv, DistinctInv, Agree, userVars
  <1>16. PollInv'
    <2>1. ASSUME NEW e \in batch[t]
          PROVE  \E v \in Users : Con(v)' # None /\ e = EventOf(v)' /\ Waits(v, Con(v))'
      <3>1. PICK v \in Users : Con(v) # None /\ e = EventOf(v) /\ Waits(v, Con(v))
        BY <1>1 DEF Agree, PollInv
      <3>2. v # u
        BY <1>4, <3>1 DEF EventOf
      <3> QED
        BY <1>11, <1>13, <3>1, <3>2 DEF EventOf, Waits
    <2> QED
      BY <1>2, <1>9, <2>1 DEF PollInv
  <1>17. CountInv'
    <2>1. u \in Counted /\ u \notin Counted'
      BY <1>1, <1>5, <1>6, <1>10 DEF Counted, On, kernelVars
    <2>2. \A v \in Users \ {u} : v \in Counted' <=> v \in Counted
      BY <1>1, <1>5, <1>10 DEF Counted, kernelVars
    <2>3. Counted' \subseteq Users
      BY DEF Counted
    <2> QED
      BY <1>1, <1>7, <2>1, <2>2, <2>3, CountStep
  <1> QED
    BY <1>8, <1>14, <1>15, <1>16, <1>17 DEF EventInv, Agree, NothingUndefined

LEMMA RunSound ==
  ASSUME SingleEvent, TypeInv, EventInv, Sound, NEW h \in Handlers, Run(h), TypeInv'
  PROVE  EventInv'
  <1>1. /\ Agree /\ h \in jobs
        /\ PollersAway /\ \A u \in Users : op[u] = NoOp
        /\ jobs' = jobs \ {h}
        /\ mine' = [u \in Users |-> IF mine[u] = h THEN None ELSE mine[u]]
        /\ UNCHANGED <<ctxVars, kernelVars, op, used, fired, pollVars, fault>>
    BY DEF Run, EventInv, SingleEvent, NobodyBusy
  <1>2. \A u \in Users : IdleOK(u)
    <2>1. NoOp.kind = "none"
      BY DEF NoOp
    <2> QED
      BY <1>1, <2>1 DEF Agree, UsersInv, UserOK
  <1>3. fired[h] > 0 /\ ~Unfired(h)
    BY <1>1 DEF Agree, JobInv, Unfired
  <1>4. FiredOnce' /\ JobInv' /\ \A k : Unfired(k) => Unfired(k)'
    BY <1>1 DEF FiredOnce, EventInv, Agree, JobInv, Unfired
  <1>5. \A u \in Users : /\ Con(u)' = Con(u)
                         /\ Firing(u)' <=> Firing(u)
                         /\ InBatch(u)' <=> InBatch(u)
    BY <1>1 DEF Con, Firing, InBatch, ctxVars, pollVars
  <1>6. UsersInv'
    <2> SUFFICES ASSUME NEW u \in Users
                 PROVE  IdleOK(u)'
      BY <1>1 DEF UsersInv, UserOK
    <2>1. CASE mine[u] = h
      <3>1. Con(u) # None => ~Waits(u, Con(u))
        BY <1>2, <1>3, <2>1 DEF IdleOK, WaitsOK, Holds
      <3> QED
        BY <1>1, <1>2, <1>5, <3>1 DEF IdleOK, RestsOK, Waits, On, ctxVars, kernelVars
    <2>2. CASE mine[u] # h
      <3>1. mine'[u] = mine[u]
        BY <1>1, <2>2
      <3> QED
        BY <1>1, <1>2, <1>4, <1>5, <3>1, IdleKeeps DEF ctxVars, kernelVars
    <2> QED
      BY <2>1, <2>2
  <1>7. SerialInv' /\ DistinctInv'
    BY <1>1, <1>5 DEF SerialInv, DistinctInv, Agree
  <1>8. PollInv'
    BY <1>1, <1>5 DEF PollInv, Agree, EventOf, Waits, PollersAway, ctxVars, pollVars
  <1>9. CountInv'
    <2>1. Counted' = Counted
      BY <1>1, <1>5 DEF Counted, kernelVars
    <2> QED
      BY <1>1, <2>1 DEF Agree, CountInv, ctxVars
  <1> QED
    BY <1>1, <1>4, <1>6, <1>7, <1>8, <1>9 DEF EventInv, Agree, NothingUndefined

\* Edges come and are drained at any time, in the middle of an operation too.
LEMMA KernelSound ==
  ASSUME SingleEvent, TypeInv, EventInv, Sound, NEW f \in Fds, NEW y \in Types,
         Edge(f, y) \/ Drain(f, y), TypeInv'
  PROVE  EventInv'
  <1>1. /\ Agree
        /\ UNCHANGED <<ctxVars, reg, userVars, jobVars, pollVars, fault>>
        /\ \A g \in rdlist : g \in rdlist'
    BY DEF Edge, Drain, EventInv
  <1>2. FiredOnce' /\ JobInv' /\ \A k : Unfired(k) => Unfired(k)'
    BY <1>1, JobsKeep DEF EventInv, Agree, userVars
  <1>3. \A u \in Users : /\ Con(u)' = Con(u)
                         /\ Firing(u)' <=> Firing(u)
                         /\ InBatch(u)' <=> InBatch(u)
    BY <1>1 DEF Con, Firing, InBatch, ctxVars, pollVars
  <1>4. ASSUME NEW u \in Users, IdleOK(u)
        PROVE  IdleOK(u)'
    <2>1. CASE ready'[u[1]] \subseteq ready[u[1]]
      BY <1>1, <1>2, <1>3, <1>4, <2>1, IdleKeeps DEF ctxVars, userVars
    <2>2. CASE ~ (ready'[u[1]] \subseteq ready[u[1]])
      <3>1. Edge(f, y) /\ u[1] = f /\ u[2] = y
        <4>1. Edge(f, y)
          <5> SUFFICES ASSUME Drain(f, y)
                       PROVE  ready'[u[1]] \subseteq ready[u[1]]
            BY <2>2
          <5>1. ready' = [ready EXCEPT ![f] = ready[f] \ {y}]
            BY DEF Drain
          <5>2. ready'[u[1]] = IF u[1] = f THEN ready[f] \ {y} ELSE ready[u[1]]
            BY <5>1, UserTypes DEF TypeInv
          <5> QED
            BY <5>2
        <4>2. u[1] = f
          BY <2>2, <4>1, UserTypes DEF Edge, TypeInv
        <4>3. u[2] = y
          BY UserTypes DEF SingleEvent
        <4> QED
          BY <4>1, <4>2, <4>3
      <3>2. CASE Con(u) # None /\ Waits(u, Con(u))
        <4>1. Holds(u, Con(u))'
          BY <1>1, <1>2, <1>3, <1>4, <3>2 DEF IdleOK, WaitsOK, Holds, Unfired, ctxVars, userVars
        <4>2. (reg[u[1]] = On(Con(u), IF Firing(u) THEN {} ELSE {u[2]}))'
          BY <1>1, <1>3, <1>4, <3>2 DEF IdleOK, WaitsOK, On
        <4>3. ~Firing(u) => u[1] \in rdlist'
          <5> SUFFICES ASSUME ~Firing(u)
                       PROVE  u[1] \in rdlist'
            OBVIOUS
          <5>1. reg[f] = On(Con(u), {y})
            BY <1>4, <3>1, <3>2 DEF IdleOK, WaitsOK
          <5>2. y \in reg[f].interest
            BY <5>1 DEF On
          <5> QED
            BY <3>1, <5>2 DEF Edge
        <4>4. WaitsOK(u)'
          BY <1>3, <4>1, <4>2, <4>3 DEF WaitsOK
        <4> QED
          BY <1>1, <1>3, <1>4, <3>2, <4>4 DEF IdleOK, Waits, ctxVars
      <3>3. CASE Con(u) = None \/ ~Waits(u, Con(u))
        BY <1>1, <1>3, <1>4, <3>3 DEF IdleOK, RestsOK, Waits, On, ctxVars
      <3> QED
        BY <3>2, <3>3
    <2> QED
      BY <2>1, <2>2
  <1>5. UsersInv'
    <2> SUFFICES ASSUME NEW u \in Users
                 PROVE  UserOK(u)'
      BY DEF UsersInv
    <2>1. CASE op[u] = NoOp /\ IdleOK(u)
      BY <1>1, <1>4, <2>1 DEF UserOK, userVars
    <2>2. CASE op[u].kind = "add" /\ AddOK(u)
      BY <1>1, <2>2 DEF UserOK, AddOK, Con, Waits, On, Unfired, ctxVars, userVars, jobVars
    <2>3. CASE op[u].kind \in {"del", "cancel"} /\ RemoveOK(u)
      BY <1>1, <2>3 DEF UserOK, RemoveOK, Holds, Con, Waits, On, Unfired, ctxVars, userVars, jobVars
    <2>4. CASE op[u].kind = "erase" /\ EraseOK(u)
      BY <1>1, <2>4 DEF UserOK, EraseOK, Con, Waits, ctxVars, userVars
    <2>5. CASE op[u].kind = "all" /\ AllOK(u)
      BY <1>1, <2>5 DEF UserOK, AllOK, Holds, Con, Waits, On, Unfired, ctxVars, userVars, jobVars
    <2> QED
      BY <1>1, <2>1, <2>2, <2>3, <2>4, <2>5 DEF Agree, UsersInv, UserOK
  <1>6. SerialInv' /\ DistinctInv'
    BY <1>1, <1>3 DEF SerialInv, DistinctInv, Agree, userVars, pollVars
  <1>7. PollInv'
    <2>1. \A u \in Users : EventOf(u)' = EventOf(u) /\ (Waits(u, Con(u))' <=> Waits(u, Con(u)))
      BY <1>1, <1>3 DEF EventOf, Waits, ctxVars
    <2>2. UNCHANGED <<pc, batch, cur, seen>>
      BY <1>1 DEF pollVars
    <2> QED
      BY <1>1, <1>3, <2>1, <2>2 DEF PollInv, Agree
  <1>8. CountInv'
    <2>1. Counted' = Counted
      BY <1>1, <1>3 DEF Counted
    <2> QED
      BY <1>1, <2>1 DEF Agree, CountInv, ctxVars
  <1> QED
    BY <1>1, <1>2, <1>5, <1>6, <1>7, <1>8 DEF EventInv, Agree, NothingUndefined

LEMMA InitSound == Init /\ SingleEvent => EventInv
  <1> SUFFICES ASSUME Init, SingleEvent
               PROVE  EventInv
    OBVIOUS
  <1>1. FiredOnce /\ NothingUndefined
    BY DEF Init, FiredOnce, NothingUndefined
  <1>2. \A u \in Users : Con(u) = None /\ u[1] \in Fds
    BY DEF Init, Con, Users
  <1>3. UsersInv
    BY <1>2 DEF Init, UsersInv, UserOK, IdleOK
  <1>4. SerialInv /\ DistinctInv /\ PollInv /\ JobInv
    BY <1>2 DEF Init, SerialInv, DistinctInv, PollInv, JobInv
  <1>5. CountInv
    <2>1. Counted = {}
      BY <1>2 DEF Init, Counted, Firing, Unregistered
    <2> QED
      BY <2>1, FS_EmptySet DEF Init, CountInv
  <1> QED
    BY <1>1, <1>3, <1>4, <1>5 DEF EventInv, Agree

LEMMA SoundStep == SingleEvent /\ TypeInv /\ EventInv /\ [Next]_vars => EventInv'
  <1> SUFFICES ASSUME SingleEvent, TypeInv, EventInv, [Next]_vars
               PROVE  EventInv'
    OBVIOUS
  <1> TypeInv'
    BY TypeStep
  <1>1. CASE Sound /\ \E u \in Users : UserStep(u)
    BY <1>1, AddFirstSound, AddSecondSound, RemoveFirstSound, DelSecondSound, CancelSecondSound,
       EraseSound, CancelAllFirstSound, CancelAllSecondSound DEF UserStep
  <1>2. CASE Sound /\ \E t \in Pollers : Poller(t)
    BY <1>2, WaitSound, DispatchSound, FireSound DEF Poller
  <1>3. CASE Sound /\ \E h \in Handlers : Run(h)
    BY <1>3, RunSound
  <1>4. CASE Sound /\ \E f \in Fds, y \in Types : Edge(f, y) \/ Drain(f, y)
    BY <1>4, KernelSound
  <1>5. CASE UNCHANGED vars
    <2>1. /\ UNCHANGED <<fdContexts, ctx, pending, reg, ready, rdlist, op, mine, used, jobs, fired>>
          /\ UNCHANGED <<pc, batch, cur, seen, fault>>
      BY <1>5 DEF vars, ctxVars, kernelVars, userVars, jobVars, pollVars
    <2>2. \A u, c : /\ Con(u)' = Con(u) /\ EventOf(u)' = EventOf(u)
                    /\ Firing(u)' <=> Firing(u)
                    /\ InBatch(u)' <=> InBatch(u)
                    /\ ctx'[c] = ctx[c]
      BY <2>1 DEF Con, EventOf, Firing, InBatch
    <2>3. ASSUME NEW u, UserOK(u)
          PROVE  UserOK(u)'
      <3>1. IdleOK(u)' <=> IdleOK(u)
        BY <2>1, <2>2 DEF IdleOK, WaitsOK, RestsOK, Holds, Unfired, Waits, On
      <3>2. (AddOK(u)' <=> AddOK(u)) /\ (EraseOK(u)' <=> EraseOK(u))
        BY <2>1, <2>2 DEF AddOK, EraseOK, Unfired, Waits, On
      <3>3. (RemoveOK(u)' <=> RemoveOK(u)) /\ (AllOK(u)' <=> AllOK(u))
        BY <2>1, <2>2 DEF RemoveOK, AllOK, Holds, Unfired, Waits, On
      <3> QED
        BY <2>1, <2>3, <3>1, <3>2, <3>3 DEF UserOK
    <2>4. PollInv => PollInv'
      BY <2>1, <2>2 DEF PollInv, Waits
    <2>5. SerialInv /\ DistinctInv /\ JobInv => SerialInv' /\ DistinctInv' /\ JobInv'
      BY <2>1, <2>2 DEF SerialInv, DistinctInv, JobInv
    <2>6. CountInv => CountInv'
      BY <2>1, <2>2 DEF CountInv, Counted
    <2> QED
      BY <2>1, <2>3, <2>4, <2>5, <2>6
         DEF EventInv, FiredOnce, NothingUndefined, Sound, Agree, UsersInv
  <1> QED
    BY <1>1, <1>2, <1>3, <1>4, <1>5 DEF Next

LEMMA SoundAlways == SingleEvent => (Spec => []EventInv)
  <1> SUFFICES ASSUME SingleEvent
               PROVE  Spec => []EventInv
    OBVIOUS
  <1>1. Init => EventInv
    BY InitSound
  <1>2. TypeInv /\ EventInv /\ [Next]_vars => EventInv'
    BY SoundStep
  <1> QED
    BY <1>1, <1>2, TypeAlways, PTL DEF Spec

\* With nobody at work, the events that are counted are those that are armed.
LEMMA QuietFacts ==
  ASSUME SingleEvent, TypeInv, EventInv, Quiet
  PROVE  /\ Counted = Armed
         /\ pending = Cardinality(Counted)
         /\ \A u \in Armed : WaitsOK(u) /\ ~Firing(u) /\ ~InBatch(u)
  <1>1. Agree /\ PollersAway /\ \A u \in Users : op[u] = NoOp
    BY DEF Quiet, EventInv, NobodyBusy
  <1>2. \A u : ~Firing(u) /\ ~InBatch(u)
    BY <1>1, Away DEF Agree
  <1>3. \A u \in Users : IdleOK(u)
    <2>1. NoOp.kind = "none"
      BY DEF NoOp
    <2> QED
      BY <1>1, <2>1 DEF Agree, UsersInv, UserOK
  <1>4. ASSUME NEW u \in Users
        PROVE  u[2] \in reg[u[1]].interest <=> Con(u) # None /\ Waits(u, Con(u))
    <2>1. CASE Con(u) = None
      <3>1. reg[u[1]] = Unregistered
        BY <1>3, <2>1 DEF IdleOK
      <3> QED
        BY <2>1, <3>1 DEF Unregistered
    <2>2. CASE Con(u) # None /\ Waits(u, Con(u))
      <3>1. reg[u[1]] = On(Con(u), {u[2]})
        BY <1>2, <1>3, <2>2 DEF IdleOK, WaitsOK
      <3> QED
        BY <2>2, <3>1 DEF On
    <2>3. CASE Con(u) # None /\ ~Waits(u, Con(u))
      <3>1. reg[u[1]] = On(Con(u), {})
        BY <1>3, <2>3 DEF IdleOK, RestsOK
      <3> QED
        BY <2>3, <3>1 DEF On
    <2> QED
      BY <2>1, <2>2, <2>3
  <1>5. Counted = Armed
    BY <1>2, <1>4 DEF Counted, Armed, Con, Waits
  <1>6. \A u \in Armed : WaitsOK(u)
    BY <1>3 DEF Armed, Con, Waits, IdleOK
  <1> QED
    BY <1>1, <1>2, <1>5, <1>6 DEF Agree, CountInv

\* pendingEventCount_ is the number of events that are waited for, whatever
\* was added, removed, cancelled and fired, in any number of descriptors:
\* isStop() neither stops too early nor waits for ever.
THEOREM CounterExact == SingleEvent => (Spec => []PendingExact)
  <1> SUFFICES ASSUME SingleEvent
               PROVE  Spec => []PendingExact
    OBVIOUS
  <1>1. TypeInv /\ EventInv => PendingExact
    BY QuietFacts DEF PendingExact
  <1> QED
    BY <1>1, TypeAlways, SoundAlways, PTL

\* What fdContexts_ says is waited for the kernel watches, through the same
\* context, and it has every edge that came.
THEOREM KernelAgrees == SingleEvent => (Spec => []Watched)
  <1> SUFFICES ASSUME SingleEvent
               PROVE  Spec => []Watched
    OBVIOUS
  <1>1. TypeInv /\ EventInv => Watched
    <2> SUFFICES ASSUME TypeInv, EventInv, Quiet, NEW u \in Armed
                 PROVE  /\ u[2] \in reg[u[1]].interest
                        /\ reg[u[1]].con = fdContexts[u[1]]
                        /\ u[2] \in ready[u[1]] => u[1] \in rdlist
      BY DEF Watched
    <2>1. WaitsOK(u) /\ ~Firing(u) /\ ~InBatch(u)
      BY QuietFacts
    <2>2. reg[u[1]] = On(Con(u), {u[2]}) /\ (u[2] \in ready[u[1]] => u[1] \in rdlist)
      BY <2>1 DEF WaitsOK
    <2> QED
      BY <2>2 DEF On, Con
  <1> QED
    BY <1>1, TypeAlways, SoundAlways, PTL

\* A registration gives at most one job, whether its event is fired by the
\* poller, by cancelEvent or by cancalAll.
THEOREM JobsOnce == SingleEvent => (Spec => []FiredOnce)
  <1> SUFFICES ASSUME SingleEvent
               PROVE  Spec => []FiredOnce
    OBVIOUS
  <1>1. EventInv => FiredOnce
    BY DEF EventInv
  <1> QED
    BY <1>1, SoundAlways, PTL
=============================================================================
