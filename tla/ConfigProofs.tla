---------------------------- MODULE ConfigProofs ----------------------------
\* What holds of the configuration variables for every number of threads,
\* variables and callbacks: the types, the ids that clients hold and what the
\* clients know.  One inductive invariant carries all three.
EXTENDS Config, FiniteSetTheorems, SequenceTheorems, TLAPS

-----------------------------------------------------------------------------
(* The inductive invariant *)

Adding  == {"count", "insert", "return"}    \* addCallback is under way
Locking == Adding \cup {"notify"}           \* the write lock is held
Kinds   == Locking \cup {"none", "load", "set"}

Ops == [kind : Kinds, var : Vars \cup {None}, cb : Callbacks \cup {None}, id : Nat,
        value : Values \cup {None}, due : SUBSET Ids,
        rest : Seq(Names \X (Values \cup {Unparsable}))]

TypeInv == TypeOK /\ op \in [Threads -> Ops]

\* What a thread in the middle of a call relies on.
OpOK(t) ==
  /\ op[t].kind \in Locking \cup {"set"} => op[t].var \in Made
  /\ op[t].kind \in Locking => lock[op[t].var] = t
  /\ op[t].kind \in Adding => /\ op[t].cb \in used
                              /\ home[op[t].cb] = op[t].var
                              /\ handle[op[t].cb] = None
  /\ op[t].kind \in {"set", "notify"} => op[t].value \in Values
  /\ op[t].kind = "notify" => op[t].due \subseteq Due(op[t].var)
  /\ op[t].kind = "load" => op[t].rest # <<>>
  /\ op[t].kind = "count" => op[t].id + 1 <= Cardinality(used)

OpInv == \A t \in Threads : OpOK(t)

\* A lock is held by a call that uses its variable.
LockInv ==
  \A v \in Vars : lock[v] # None => op[lock[v]].kind \in Locking /\ op[lock[v]].var = v

\* A callback is registered with the variable it was added to.
ClientInv ==
  /\ \A c \in used : home[c] \in Made
  /\ \A c \in Callbacks : handle[c] # None => c \in used
  /\ \A v \in Vars, i \in Ids : callbacks[v][i] # None =>
       callbacks[v][i] \in used /\ home[callbacks[v][i]] = v

\* A counter never exceeds the number of callbacks added so far.
CountInv == \A y \in VarTypes : lastId[y] <= Cardinality(used)

\* Callback c is registered with variable v.
Mine(c, v) == handle[c] # None /\ home[c] = v

\* A call on v that changes its values is telling them to the callbacks.
Notifying(v) == lock[v] # None /\ op[lock[v]].kind = "notify"

\* A variable whose counter is its own: the ids up to the counter are given
\* out, each to one callback, and a client whose callback is not due knows the
\* value that the variable has or is about to have.
OwnState(v) ==
  /\ \A i \in Ids : callbacks[v][i] # None => i <= lastId[TypeOf[v]]
  /\ \A c \in Callbacks : Mine(c, v) => callbacks[v][handle[c]] = c
  /\ \A c \in Callbacks : Mine(c, v) /\ ~Notifying(v) => view[c] = val[v]

OwnOp(t, v) ==
  /\ op[t].kind = "count" => op[t].id = lastId[TypeOf[v]]
  /\ op[t].kind = "insert" => callbacks[v][lastId[TypeOf[v]]] = None
  /\ op[t].kind = "return" => /\ callbacks[v][lastId[TypeOf[v]]] = op[t].cb
                              /\ view[op[t].cb] = val[v]
  /\ op[t].kind = "notify" =>
       \A c \in Callbacks : Mine(c, v) => handle[c] \in op[t].due \/ view[c] = op[t].value

OwnInv ==
  \A v \in Vars : OwnCounter(v) =>
    OwnState(v) /\ \A t \in Threads : op[t].var = v => OwnOp(t, v)

ConfigInv == TypeInv /\ OpInv /\ LockInv /\ ClientInv /\ CountInv /\ OwnInv

\* Before anything is created nobody holds a lock or an id.
LEMMA InitConfig == Init => ConfigInv
  <1> SUFFICES ASSUME Init PROVE ConfigInv
    OBVIOUS
  <1>1. Cardinality(Callbacks) \in Nat /\ 0 \in Ids
    BY ConfigAssumption, FS_CardinalityType DEF Ids
  <1>2. NoOp \in Ops
    BY DEF NoOp, Ops, Kinds, Locking, Adding
  <1>3. TypeInv
    BY <1>2, ConfigAssumption DEF Init, TypeInv, TypeOK, Made
  <1>4. OpInv /\ LockInv
    BY DEF Init, OpInv, OpOK, LockInv, NoOp, Locking, Adding
  <1>5. ClientInv /\ CountInv
    BY FS_EmptySet DEF Init, ClientInv, CountInv
  <1>6. OwnInv
    BY DEF Init, OwnInv, OwnState, OwnOp, Mine, NoOp
  <1> QED
    BY <1>3, <1>4, <1>5, <1>6 DEF ConfigInv

\* How many ids there are, and that counting stays within them.
LEMMA UsedProps ==
  ASSUME TypeOK
  PROVE  /\ Cardinality(used) \in Nat
         /\ Cardinality(used) <= Cardinality(Callbacks)
         /\ \A c \in Callbacks \ used : Cardinality(used \cup {c}) = Cardinality(used) + 1
         /\ \A n \in Nat : n <= Cardinality(used) => n \in Ids
  <1>1. used \in SUBSET Callbacks /\ IsFiniteSet(Callbacks)
    BY ConfigAssumption DEF TypeOK
  <1>2. IsFiniteSet(used) /\ Cardinality(used) <= Cardinality(Callbacks)
    BY <1>1, FS_Subset
  <1>3. Cardinality(used) \in Nat /\ Cardinality(Callbacks) \in Nat
    BY <1>1, <1>2, FS_CardinalityType
  <1>4. \A c \in Callbacks \ used : Cardinality(used \cup {c}) = Cardinality(used) + 1
    BY <1>2, FS_AddElement
  <1> QED
    BY <1>2, <1>3, <1>4 DEF Ids

-----------------------------------------------------------------------------
(* Each step keeps it *)

LEMMA CreateStep ==
  ASSUME ConfigInv, NEW t \in Threads, NEW v \in Vars, Create(t, v)
  PROVE  ConfigInv'
  <1>0. /\ TypeInv /\ TypeOK /\ OpInv /\ LockInv /\ ClientInv /\ CountInv /\ OwnInv
    BY DEF ConfigInv, TypeInv
  <1>1. /\ v \notin Made
        /\ val' = [val EXCEPT ![v] = Default]
        /\ data' = [data EXCEPT ![NameOf[v]] = IF @ = None THEN v ELSE @]
        /\ UNCHANGED <<callbacks, lastId, lock, op, used, home, handle, view>>
    BY DEF Create, clients
  <1>2. Made' = Made \cup {v}
    BY <1>0, <1>1, ConfigAssumption DEF Made, TypeOK
  <1>3. TypeInv'
    BY <1>0, <1>1, <1>2, ConfigAssumption DEF TypeInv, TypeOK
  <1>4. OpInv' /\ LockInv' /\ ClientInv' /\ CountInv'
    BY <1>0, <1>1, <1>2 DEF OpInv, OpOK, LockInv, ClientInv, CountInv, Due
  <1>5. OwnInv'
    <2>1. \A c \in Callbacks : Mine(c, v) => FALSE
      BY <1>0, <1>1 DEF Mine, ClientInv
    <2>2. \A u \in Threads : op[u].var = v => op[u].kind \notin Locking
      BY <1>0, <1>1 DEF OpInv, OpOK
    <2>3. \A w \in Vars : w # v => val'[w] = val[w]
      BY <1>0, <1>1 DEF TypeOK
    <2> QED
      BY <1>0, <1>1, <2>1, <2>2, <2>3
      DEF OwnInv, OwnState, OwnOp, Mine, Notifying, OwnCounter, Locking, Adding
  <1> QED
    BY <1>3, <1>4, <1>5 DEF ConfigInv

\* addCallback locks the variable and loads the counter.
LEMMA AddCallbackStep ==
  ASSUME ConfigInv, NEW t \in Threads, NEW v \in Vars, NEW c \in Callbacks,
         AddCallback(t, v, c)
  PROVE  ConfigInv'
  <1>0. /\ TypeInv /\ TypeOK /\ OpInv /\ LockInv /\ ClientInv /\ CountInv /\ OwnInv
    BY DEF ConfigInv, TypeInv
  <1>1. /\ op[t] = NoOp /\ v \in Made /\ c \notin used /\ lock[v] = None
        /\ lock' = [lock EXCEPT ![v] = t]
        /\ used' = used \cup {c}
        /\ home' = [home EXCEPT ![c] = v]
        /\ UNCHANGED <<data, val, callbacks, lastId, handle, view>>
    BY DEF AddCallback
  <1>2. /\ op' = [op EXCEPT ![t] = op'[t]]
        /\ op'[t] \in Ops
        /\ op'[t].kind = "count" /\ op'[t].var = v /\ op'[t].cb = c
        /\ op'[t].id = lastId[TypeOf[v]]
    <2>1. lastId[TypeOf[v]] \in Nat
      BY <1>0, ConfigAssumption DEF TypeOK
    <2> QED
      BY <1>0, <2>1 DEF AddCallback, TypeInv, NoOp, Ops, Kinds, Locking, Adding
  <1>3. \A u \in Threads \ {t} : op'[u] = op[u] /\ op[u] \in Ops
    BY <1>0, <1>2 DEF TypeInv
  <1>4. /\ \A w \in Vars : lock'[w] = IF w = v THEN t ELSE lock[w]
        /\ \A d \in Callbacks : home'[d] = IF d = c THEN v ELSE home[d]
        /\ handle[c] = None
        /\ t # None /\ v # None /\ op[t].kind = "none"
    BY <1>0, <1>1, ConfigAssumption DEF TypeOK, ClientInv, NoOp
  <1>5. TypeInv'
    BY <1>0, <1>1, <1>2 DEF TypeInv, TypeOK, Made
  <1>6. Cardinality(used') = Cardinality(used) + 1 /\ Cardinality(used) \in Nat
    BY <1>0, <1>1, UsedProps
  <1>7. lastId[TypeOf[v]] \in Nat /\ lastId[TypeOf[v]] <= Cardinality(used)
    BY <1>0, ConfigAssumption DEF TypeOK, CountInv
  <1>8. OpInv'
    <2>1. OpOK(t)'
      BY <1>1, <1>2, <1>4, <1>6, <1>7 DEF OpOK, Locking, Adding, Made
    <2>2. ASSUME NEW u \in Threads \ {t} PROVE OpOK(u)'
      <3>1. OpOK(u)
        BY <1>0 DEF OpInv
      <3>2. op[u].kind \in Locking => op[u].var # v
        BY <1>1, <3>1, ConfigAssumption DEF OpOK
      <3>3. op[u].id \in Nat
        BY <1>3 DEF Ops
      <3> QED
        BY <1>0, <1>1, <1>3, <1>4, <1>6, <3>1, <3>2, <3>3
        DEF OpOK, Locking, Adding, Made, Due, TypeOK
    <2> QED
      BY <2>1, <2>2 DEF OpInv
  <1>9. LockInv'
    BY <1>0, <1>2, <1>3, <1>4 DEF LockInv, Locking, Adding, TypeOK
  <1>10. ClientInv'
    BY <1>0, <1>1, <1>4 DEF ClientInv, Made, TypeOK
  <1>11. CountInv'
    BY <1>0, <1>1, <1>6 DEF CountInv, TypeOK
  <1>12. OwnInv'
    <2>1. \A d \in Callbacks, w \in Vars : Mine(d, w)' <=> Mine(d, w)
      BY <1>1, <1>4 DEF Mine
    <2>2. \A w \in Vars : Notifying(w)' <=> Notifying(w)
      BY <1>0, <1>1, <1>2, <1>3, <1>4 DEF Notifying, TypeOK, LockInv
    <2>3. ASSUME NEW w \in Vars, OwnCounter(w) PROVE OwnState(w)'
      BY <1>0, <1>1, <2>1, <2>2, <2>3 DEF OwnInv, OwnState
    <2>4. ASSUME NEW w \in Vars, OwnCounter(w), NEW u \in Threads, op'[u].var = w
          PROVE  OwnOp(u, w)'
      <3>1. CASE u = t
        BY <1>1, <1>2, <2>4, <3>1 DEF OwnOp
      <3>2. CASE u # t
        BY <1>0, <1>1, <1>3, <2>1, <2>4, <3>2 DEF OwnInv, OwnOp
      <3> QED
        BY <3>1, <3>2
    <2> QED
      BY <2>3, <2>4 DEF OwnInv, OwnCounter
  <1> QED
    BY <1>5, <1>8, <1>9, <1>10, <1>11, <1>12 DEF ConfigInv

\* A thread that holds a lock is the only one with a call on that variable that
\* has it locked.
LEMMA OneHolder ==
  ASSUME ConfigInv, NEW t \in Threads, op[t].kind \in Locking
  PROVE  /\ op[t].var \in Made /\ op[t].var \in Vars /\ lock[op[t].var] = t
         /\ \A u \in Threads \ {t} : op[u].kind \in Locking => op[u].var # op[t].var
  BY DEF ConfigInv, OpInv, OpOK, Made

\* ++id, which no other thread can disturb where the counter is the variable's own.
LEMMA AddCountStep ==
  ASSUME ConfigInv, NEW t \in Threads, AddCount(t)
  PROVE  ConfigInv'
  <1> DEFINE v == op[t].var
  <1>0. /\ TypeInv /\ TypeOK /\ OpInv /\ LockInv /\ ClientInv /\ CountInv /\ OwnInv
        /\ OpOK(t)
    BY DEF ConfigInv, TypeInv, OpInv
  <1>1. /\ op[t].kind = "count"
        /\ lastId' = [lastId EXCEPT ![TypeOf[v]] = op[t].id + 1]
        /\ op' = [op EXCEPT ![t].kind = "insert"]
        /\ UNCHANGED <<data, val, callbacks, lock, used, home, handle, view>>
    BY DEF AddCount, clients
  <1>2. /\ op'[t] \in Ops
        /\ op'[t].kind = "insert" /\ op'[t].var = v /\ op'[t].cb = op[t].cb
        /\ op[t].id \in Nat
    BY <1>0, <1>1 DEF TypeInv, Ops, Kinds, Locking, Adding
  <1>3. \A u \in Threads \ {t} : op'[u] = op[u] /\ op[u] \in Ops
    BY <1>0, <1>1 DEF TypeInv
  <1>4. /\ v \in Vars /\ v \in Made /\ lock[v] = t
        /\ \A u \in Threads \ {t} : op[u].kind \in Locking => op[u].var # v
    BY <1>1, OneHolder DEF Locking, Adding
  <1> HIDE DEF v
  <1>5. /\ TypeOf[v] \in VarTypes
        /\ \A y \in VarTypes : lastId'[y] = IF y = TypeOf[v] THEN op[t].id + 1 ELSE lastId[y]
    BY <1>0, <1>1, <1>4, ConfigAssumption DEF TypeOK
  <1>6. TypeInv'
    <2>1. lastId' \in [VarTypes -> Nat]
      <3>1. op[t].id + 1 \in Nat
        BY <1>2
      <3> QED
        BY <1>0, <1>1, <3>1 DEF TypeOK
    <2>2. op' \in [Threads -> Ops]
      BY <1>0, <1>1, <1>2, <1>3 DEF TypeInv
    <2> QED
      BY <1>0, <1>1, <2>1, <2>2 DEF TypeInv, TypeOK, Made
  <1>7. OpInv'
    <2>1. OpOK(t)'
      BY <1>0, <1>1, <1>2, <1>4 DEF OpOK, Locking, Adding, Made, v
    <2>2. ASSUME NEW u \in Threads \ {t} PROVE OpOK(u)'
      BY <1>0, <1>1, <1>3 DEF OpInv, OpOK, Made, Due
    <2> QED
      BY <2>1, <2>2 DEF OpInv
  <1>8. LockInv'
    BY <1>0, <1>1, <1>2, <1>3, <1>4, ConfigAssumption DEF LockInv, Locking, Adding, TypeOK
  <1>9. ClientInv'
    BY <1>0, <1>1 DEF ClientInv, Made
  <1>10. CountInv'
    BY <1>0, <1>1, <1>5 DEF CountInv, OpOK
  <1>11. OwnInv'
    <2>1. \A w \in Vars : Notifying(w)' <=> Notifying(w)
      BY <1>0, <1>1, <1>2, <1>3, <1>4 DEF Notifying, TypeOK, LockInv
    <2>2. ASSUME NEW w \in Vars, OwnCounter(w)
          PROVE  /\ w # v => lastId'[TypeOf[w]] = lastId[TypeOf[w]]
                 /\ w = v => /\ op[t].id = lastId[TypeOf[v]]
                             /\ lastId'[TypeOf[w]] = lastId[TypeOf[w]] + 1
                             /\ lastId'[TypeOf[w]] \in Ids
      <3>1. w # v => TypeOf[w] # TypeOf[v]
        BY <1>4, <2>2 DEF OwnCounter
      <3>2. TypeOf[w] \in VarTypes
        BY ConfigAssumption
      <3>3. w = v => op[t].id = lastId[TypeOf[v]]
        BY <1>0, <1>1, <1>4, <2>2 DEF OwnInv, OwnOp, v
      <3>4. op[t].id + 1 \in Ids
        BY <1>0, <1>1, <1>2, UsedProps DEF OpOK
      <3> QED
        BY <1>5, <3>1, <3>2, <3>3, <3>4
    <2>3. ASSUME NEW w \in Vars, OwnCounter(w) PROVE OwnState(w)'
      <3>1. OwnState(w) /\ lastId[TypeOf[w]] \in Nat
        BY <1>0, <2>3, ConfigAssumption DEF OwnInv, TypeOK
      <3> QED
        BY <1>1, <2>1, <2>2, <2>3, <3>1 DEF OwnState, Mine, Ids
    <2>4. ASSUME NEW w \in Vars, OwnCounter(w), NEW u \in Threads, op'[u].var = w
          PROVE  OwnOp(u, w)'
      <3>1. CASE u = t
        <4>1. w = v /\ OwnState(v) /\ lastId[TypeOf[v]] \in Nat
          BY <1>0, <1>2, <2>4, <3>1, ConfigAssumption DEF OwnInv, TypeOK
        <4>2. callbacks[v][lastId'[TypeOf[v]]] = None
          BY <1>0, <2>2, <2>4, <4>1 DEF OwnState
        <4> QED
          BY <1>1, <1>2, <3>1, <4>1, <4>2 DEF OwnOp
      <3>2. CASE u # t
        <4>1. op[u].var = w /\ OwnOp(u, w)
          BY <1>0, <1>3, <2>4, <3>2 DEF OwnInv
        <4>2. w = v => op[u].kind \notin Locking
          BY <1>3, <1>4, <3>2, <4>1
        <4> QED
          BY <1>1, <1>3, <2>2, <2>4, <3>2, <4>1, <4>2 DEF OwnOp, Mine, Locking, Adding
      <3> QED
        BY <3>1, <3>2
    <2> QED
      BY <2>3, <2>4 DEF OwnInv, OwnCounter
  <1> QED
    BY <1>6, <1>7, <1>8, <1>9, <1>10, <1>11 DEF ConfigInv

\* callbacks_[id] = cb.
LEMMA AddInsertStep ==
  ASSUME ConfigInv, NEW t \in Threads, AddInsert(t)
  PROVE  ConfigInv'
  <1> DEFINE v == op[t].var
  <1> DEFINE c == op[t].cb
  <1> DEFINE n == lastId[TypeOf[v]]
  <1>0. /\ TypeInv /\ TypeOK /\ OpInv /\ LockInv /\ ClientInv /\ CountInv /\ OwnInv
        /\ OpOK(t)
    BY DEF ConfigInv, TypeInv, OpInv
  <1>1. /\ op[t].kind = "insert"
        /\ callbacks' = [callbacks EXCEPT ![v][n] = c]
        /\ view' = [view EXCEPT ![c] = val[v]]
        /\ op' = [op EXCEPT ![t].kind = "return"]
        /\ UNCHANGED <<data, val, lastId, lock, used, home, handle>>
    BY DEF AddInsert
  <1>2. /\ op'[t] \in Ops
        /\ op'[t].kind = "return" /\ op'[t].var = v /\ op'[t].cb = c
    BY <1>0, <1>1 DEF TypeInv, Ops, Kinds, Locking, Adding
  <1>3. \A u \in Threads \ {t} : op'[u] = op[u] /\ op[u] \in Ops
    BY <1>0, <1>1 DEF TypeInv
  <1>4. /\ v \in Vars /\ v \in Made /\ lock[v] = t
        /\ \A u \in Threads \ {t} : op[u].kind \in Locking => op[u].var # v
        /\ c \in used /\ c \in Callbacks /\ home[c] = v /\ handle[c] = None
    BY <1>0, <1>1, OneHolder DEF Locking, Adding, OpOK, TypeOK
  <1>5. n \in Ids /\ val[v] \in Values
    BY <1>0, <1>4, ConfigAssumption, UsedProps DEF TypeOK, CountInv, Made
  <1> HIDE DEF v, c, n
  <1>6. /\ \A w \in Vars, i \in Ids :
             callbacks'[w][i] = IF w = v /\ i = n THEN c ELSE callbacks[w][i]
        /\ callbacks' \in [Vars -> [Ids -> Callbacks \cup {None}]]
        /\ \A d \in Callbacks : view'[d] = IF d = c THEN val[v] ELSE view[d]
        /\ view' \in [Callbacks -> Values \cup {None}]
    BY <1>0, <1>1, <1>4, <1>5 DEF TypeOK
  <1>7. TypeInv'
    <2>1. op' \in [Threads -> Ops]
      BY <1>0, <1>1, <1>2, <1>3 DEF TypeInv
    <2> QED
      BY <1>0, <1>1, <1>6, <2>1 DEF TypeInv, TypeOK, Made
  <1>8. OpInv'
    <2>1. OpOK(t)'
      BY <1>0, <1>1, <1>2, <1>4 DEF OpOK, Locking, Adding, Made, v, c
    <2>2. ASSUME NEW u \in Threads \ {t} PROVE OpOK(u)'
      <3>1. OpOK(u) /\ (op[u].kind \in Locking => op[u].var # v /\ op[u].var \in Vars)
        BY <1>0, <1>3, <1>4 DEF OpInv, OpOK, Made
      <3>2. op[u].kind = "notify" => Due(op[u].var)' = Due(op[u].var)
        BY <1>3, <1>6, <3>1 DEF Due, Locking
      <3> QED
        BY <1>1, <1>3, <3>1, <3>2 DEF OpOK, Made
    <2> QED
      BY <2>1, <2>2 DEF OpInv
  <1>9. LockInv'
    BY <1>0, <1>1, <1>2, <1>3, <1>4 DEF LockInv, Locking, Adding, TypeOK
  <1>10. ClientInv'
    BY <1>0, <1>1, <1>4, <1>6 DEF ClientInv, Made
  <1>11. CountInv'
    BY <1>0, <1>1 DEF CountInv
  <1>12. OwnInv'
    <2>1. \A w \in Vars : Notifying(w)' <=> Notifying(w)
      BY <1>0, <1>1, <1>2, <1>3, <1>4 DEF Notifying, TypeOK, LockInv
    <2>2. ASSUME OwnCounter(v)
          PROVE  callbacks[v][n] = None
      BY <1>0, <1>1, <1>4, <2>2 DEF OwnInv, OwnOp, v, n
    <2>3. \A d \in Callbacks : handle'[d] = handle[d] /\ home'[d] = home[d]
      BY <1>1
    <2>4. ASSUME NEW w \in Vars, OwnCounter(w) PROVE OwnState(w)'
      <3>1. OwnState(w)
        BY <1>0, <2>4 DEF OwnInv
      <3>2. \A i \in Ids : callbacks'[w][i] # None => i <= lastId'[TypeOf[w]]
        <4>1. w = v => lastId[TypeOf[w]] = n /\ n \in Int
          BY <1>5 DEF n, Ids
        <4> QED
          BY <1>1, <1>6, <3>1, <4>1 DEF OwnState
      <3>3. \A d \in Callbacks : Mine(d, w)' => callbacks'[w][handle'[d]] = d
        BY <1>0, <1>1, <1>6, <2>2, <2>4, <3>1, ConfigAssumption DEF OwnState, Mine, TypeOK
      <3>4. \A d \in Callbacks : Mine(d, w)' /\ ~Notifying(w)' => view'[d] = val'[w]
        BY <1>1, <1>4, <1>6, <2>1, <3>1 DEF OwnState, Mine
      <3> QED
        BY <3>2, <3>3, <3>4 DEF OwnState
    <2>5. ASSUME NEW w \in Vars, OwnCounter(w), NEW u \in Threads, op'[u].var = w
          PROVE  OwnOp(u, w)'
      <3>1. CASE u = t
        BY <1>1, <1>2, <1>4, <1>5, <1>6, <2>5, <3>1 DEF OwnOp, n
      <3>2. CASE u # t
        <4>1. op[u].var = w /\ OwnOp(u, w) /\ OpOK(u)
          BY <1>0, <1>3, <2>5, <3>2 DEF OwnInv, OpInv
        <4>2. op[u].kind \in Locking => w # v
          BY <1>3, <1>4, <3>2, <4>1
        <4>3. lastId[TypeOf[w]] \in Ids
          BY <1>0, ConfigAssumption, UsedProps DEF TypeOK, CountInv
        <4>4. op[u].kind \in Adding => op[u].cb # c
          BY <1>4, <4>1, <4>2 DEF OpOK, Locking
        <4>5. \A d \in Callbacks : Mine(d, w)' <=> Mine(d, w)
          BY <2>3 DEF Mine
        <4>6. \A d \in Callbacks : Mine(d, w) => d # c
          BY <1>4 DEF Mine
        <4>7. op[u].kind = "return" => op[u].cb \in Callbacks
          BY <1>0, <4>1 DEF OpOK, TypeOK, Adding
        <4> QED
          BY <1>1, <1>3, <1>6, <3>2, <4>1, <4>2, <4>3, <4>4, <4>5, <4>6, <4>7
          DEF OwnOp, Locking, Adding
      <3> QED
        BY <3>1, <3>2
    <2> QED
      BY <2>4, <2>5 DEF OwnInv, OwnCounter
  <1> QED
    BY <1>7, <1>8, <1>9, <1>10, <1>11, <1>12 DEF ConfigInv

\* The client gets its id and the variable is unlocked.
LEMMA AddReturnStep ==
  ASSUME ConfigInv, NEW t \in Threads, AddReturn(t)
  PROVE  ConfigInv'
  <1> DEFINE v == op[t].var
  <1> DEFINE c == op[t].cb
  <1> DEFINE n == lastId[TypeOf[v]]
  <1>0. /\ TypeInv /\ TypeOK /\ OpInv /\ LockInv /\ ClientInv /\ CountInv /\ OwnInv
        /\ OpOK(t)
    BY DEF ConfigInv, TypeInv, OpInv
  <1>1. /\ op[t].kind = "return"
        /\ handle' = [handle EXCEPT ![c] = n]
        /\ lock' = [lock EXCEPT ![v] = None]
        /\ op' = [op EXCEPT ![t] = NoOp]
        /\ UNCHANGED <<data, val, callbacks, lastId, used, home, view>>
    BY DEF AddReturn
  <1>2. /\ v \in Vars /\ v \in Made /\ lock[v] = t
        /\ \A u \in Threads \ {t} : op[u].kind \in Locking => op[u].var # v
        /\ c \in used /\ c \in Callbacks /\ home[c] = v /\ handle[c] = None
    BY <1>0, <1>1, OneHolder DEF Locking, Adding, OpOK, TypeOK
  <1>3. n \in Ids
    BY <1>0, <1>2, ConfigAssumption, UsedProps DEF TypeOK, CountInv
  <1>4. OwnCounter(v) => callbacks[v][n] = c /\ view[c] = val[v]
    BY <1>0, <1>1, <1>2 DEF OwnInv, OwnOp
  <1> HIDE DEF v, c, n
  <1>5. /\ op'[t] = NoOp /\ NoOp \in Ops /\ NoOp.kind = "none" /\ NoOp.var = None
        /\ \A u \in Threads \ {t} : op'[u] = op[u] /\ op[u] \in Ops
    BY <1>0, <1>1 DEF TypeInv, NoOp, Ops, Kinds, Locking, Adding
  <1>6. /\ \A w \in Vars : lock'[w] = IF w = v THEN None ELSE lock[w]
        /\ \A d \in Callbacks : handle'[d] = IF d = c THEN n ELSE handle[d]
        /\ None \notin Threads /\ None \notin Vars
    BY <1>0, <1>1, <1>2, ConfigAssumption DEF TypeOK
  <1>7. TypeInv'
    BY <1>0, <1>1, <1>3, <1>5 DEF TypeInv, TypeOK, Made
  <1>8. OpInv'
    <2>1. OpOK(t)'
      BY <1>5 DEF OpOK, Locking, Adding
    <2>2. ASSUME NEW u \in Threads \ {t} PROVE OpOK(u)'
      <3>1. OpOK(u) /\ (op[u].kind \in Locking => op[u].var # v /\ op[u].var \in Vars)
        BY <1>0, <1>2, <1>5 DEF OpInv, OpOK, Made
      <3>2. op[u].kind \in Adding => op[u].cb # c /\ op[u].cb \in Callbacks
        BY <1>0, <1>2, <3>1 DEF OpOK, Locking, TypeOK
      <3> QED
        BY <1>1, <1>5, <1>6, <3>1, <3>2 DEF OpOK, Made, Due, Locking
    <2> QED
      BY <2>1, <2>2 DEF OpInv
  <1>9. LockInv'
    <2> SUFFICES ASSUME NEW w \in Vars, lock'[w] # None
                 PROVE  op'[lock'[w]].kind \in Locking /\ op'[lock'[w]].var = w
      BY DEF LockInv
    <2>1. w # v /\ lock'[w] = lock[w] /\ lock[w] \in Threads
      BY <1>0, <1>6 DEF TypeOK
    <2>2. op[lock[w]].kind \in Locking /\ op[lock[w]].var = w
      BY <1>0, <2>1 DEF LockInv
    <2>3. lock[w] # t
      BY <2>1, <2>2 DEF v
    <2> QED
      BY <1>5, <2>1, <2>2, <2>3
  <1>10. ClientInv'
    BY <1>0, <1>1, <1>2, <1>6 DEF ClientInv, Made
  <1>11. CountInv'
    BY <1>0, <1>1 DEF CountInv
  <1>12. OwnInv'
    <2>1. \A d \in Callbacks, w \in Vars : Mine(d, w)' <=> Mine(d, w) \/ (d = c /\ w = v)
      BY <1>1, <1>2, <1>3, <1>6, <1>0, ConfigAssumption DEF Mine, TypeOK
    <2>2. \A w \in Vars \ {v} : Notifying(w)' <=> Notifying(w)
      <3> SUFFICES ASSUME NEW w \in Vars \ {v}, lock[w] # None
                   PROVE  op'[lock[w]] = op[lock[w]]
        BY <1>6 DEF Notifying
      <3>1. lock[w] # t /\ lock[w] \in Threads
        BY <1>0 DEF LockInv, v, TypeOK
      <3> QED
        BY <1>5, <3>1
    <2>3. ~Notifying(v)
      BY <1>1, <1>2 DEF Notifying
    <2>4. ASSUME NEW w \in Vars, OwnCounter(w) PROVE OwnState(w)'
      <3>1. OwnState(w)
        BY <1>0, <2>4 DEF OwnInv
      <3>2. \A d \in Callbacks : Mine(d, w) => d # c
        BY <1>2 DEF Mine
      <3>3. \A d \in Callbacks : Mine(d, w)' => callbacks'[w][handle'[d]] = d
        BY <1>1, <1>4, <1>6, <2>1, <2>4, <3>1, <3>2 DEF OwnState
      <3>4. \A d \in Callbacks : Mine(d, w)' /\ ~Notifying(w)' => view'[d] = val'[w]
        BY <1>1, <1>4, <2>1, <2>2, <2>3, <2>4, <3>1 DEF OwnState
      <3> QED
        BY <1>1, <3>1, <3>3, <3>4 DEF OwnState
    <2>5. ASSUME NEW w \in Vars, OwnCounter(w), NEW u \in Threads, op'[u].var = w
          PROVE  OwnOp(u, w)'
      <3>1. u # t
        BY <1>5, <1>6, <2>5
      <3>2. op[u].var = w /\ OwnOp(u, w)
        BY <1>0, <1>5, <2>5, <3>1 DEF OwnInv
      <3>3. op[u].kind = "notify" => w # v
        BY <1>2, <1>5, <3>1, <3>2 DEF Locking
      <3>4. \A d \in Callbacks : Mine(d, w)' /\ w # v => Mine(d, w) /\ handle'[d] = handle[d]
        BY <1>2, <1>6, <2>1 DEF Mine
      <3>5. op'[u] = op[u]
        BY <1>5, <3>1
      <3> QED
        BY <1>1, <3>2, <3>3, <3>4, <3>5 DEF OwnOp
    <2> QED
      BY <2>4, <2>5 DEF OwnInv, OwnCounter
  <1> QED
    BY <1>7, <1>8, <1>9, <1>10, <1>11, <1>12 DEF ConfigInv

\* delCallback erases the callback that the id names, and no other.
LEMMA DelCallbackStep ==
  ASSUME ConfigInv, NEW t \in Threads, NEW c \in Callbacks, DelCallback(t, c)
  PROVE  ConfigInv'
  <1> DEFINE v == home[c]
  <1> DEFINE n == handle[c]
  <1>0. /\ TypeInv /\ TypeOK /\ OpInv /\ LockInv /\ ClientInv /\ CountInv /\ OwnInv
    BY DEF ConfigInv, TypeInv
  <1>1. /\ n # None /\ lock[v] = None
        /\ callbacks' = [callbacks EXCEPT ![v][n] = None]
        /\ handle' = [handle EXCEPT ![c] = None]
        /\ UNCHANGED <<data, val, lastId, lock, op, used, home, view>>
    BY DEF DelCallback
  <1>2. v \in Vars /\ v \in Made /\ n \in Ids /\ Mine(c, v)
    BY <1>0, <1>1 DEF ClientInv, TypeOK, Mine, Made
  <1> HIDE DEF v, n
  <1>3. /\ \A w \in Vars, i \in Ids :
             callbacks'[w][i] = IF w = v /\ i = n THEN None ELSE callbacks[w][i]
        /\ callbacks' \in [Vars -> [Ids -> Callbacks \cup {None}]]
        /\ \A d \in Callbacks : handle'[d] = IF d = c THEN None ELSE handle[d]
    BY <1>0, <1>1, <1>2 DEF TypeOK
  <1>4. \A u \in Threads : op[u].kind \in Locking => op[u].var # v /\ op[u].var \in Vars
    BY <1>0, <1>1, ConfigAssumption DEF OpInv, OpOK, Made
  <1>5. TypeInv'
    BY <1>0, <1>1, <1>3 DEF TypeInv, TypeOK, Made
  <1>6. OpInv'
    <2> SUFFICES ASSUME NEW u \in Threads PROVE OpOK(u)'
      BY DEF OpInv
    <2>1. OpOK(u)
      BY <1>0 DEF OpInv
    <2>2. op[u].kind = "notify" => Due(op[u].var)' = Due(op[u].var)
      BY <1>1, <1>3, <1>4 DEF Due, Locking
    <2>3. op[u].kind \in Adding => handle'[op[u].cb] = None
      BY <1>0, <1>3, <2>1 DEF OpOK, TypeOK
    <2> QED
      BY <1>1, <2>1, <2>2, <2>3 DEF OpOK, Made
  <1>7. LockInv' /\ CountInv'
    BY <1>0, <1>1 DEF LockInv, CountInv
  <1>8. ClientInv'
    BY <1>0, <1>1, <1>3 DEF ClientInv, Made
  <1>9. OwnInv'
    <2>1. \A d \in Callbacks, w \in Vars : Mine(d, w)' => Mine(d, w) /\ d # c /\ handle'[d] = handle[d]
      BY <1>1, <1>3 DEF Mine
    <2>2. \A w \in Vars : Notifying(w)' <=> Notifying(w)
      BY <1>1 DEF Notifying
    <2>3. ASSUME NEW w \in Vars, OwnCounter(w) PROVE OwnState(w)'
      <3>1. OwnState(w)
        BY <1>0, <2>3 DEF OwnInv
      <3>2. \A d \in Callbacks : Mine(d, w)' => callbacks'[w][handle'[d]] = d
        <4> SUFFICES ASSUME NEW d \in Callbacks, Mine(d, w)'
                     PROVE  callbacks'[w][handle'[d]] = d
          OBVIOUS
        <4>1. /\ callbacks[w][handle[d]] = d /\ d # c /\ handle'[d] = handle[d]
              /\ handle[d] \in Ids
          BY <1>0, <2>1, <3>1 DEF OwnState, Mine, TypeOK
        <4>2. w = v => callbacks[w][n] = c
          BY <1>2, <3>1 DEF OwnState, n
        <4> QED
          BY <1>3, <4>1, <4>2
      <3>3. \A d \in Callbacks : Mine(d, w)' /\ ~Notifying(w)' => view'[d] = val'[w]
        BY <1>1, <2>1, <2>2, <3>1 DEF OwnState
      <3>4. \A i \in Ids : callbacks'[w][i] # None => i <= lastId'[TypeOf[w]]
        BY <1>1, <1>3, <3>1 DEF OwnState
      <3> QED
        BY <3>2, <3>3, <3>4 DEF OwnState
    <2>4. ASSUME NEW w \in Vars, OwnCounter(w), NEW u \in Threads, op'[u].var = w
          PROVE  OwnOp(u, w)'
      <3>1. op[u].var = w /\ OwnOp(u, w) /\ op'[u] = op[u]
        BY <1>0, <1>1, <2>4 DEF OwnInv
      <3>2. op[u].kind \in Locking => w # v
        BY <1>4, <3>1
      <3>3. lastId[TypeOf[w]] \in Ids
        BY <1>0, ConfigAssumption, UsedProps DEF TypeOK, CountInv
      <3> QED
        BY <1>1, <1>3, <2>1, <3>1, <3>2, <3>3 DEF OwnOp, Locking, Adding
    <2> QED
      BY <2>3, <2>4 DEF OwnInv, OwnCounter
  <1> QED
    BY <1>5, <1>6, <1>7, <1>8, <1>9 DEF ConfigInv

\* A thread that holds no lock goes on to another call that holds none.
LEMMA UnlockedStep ==
  ASSUME ConfigInv, NEW t \in Threads, NEW o \in Ops,
         op[t].kind \notin Locking, o.kind \notin Locking,
         o.kind = "set" => o.var \in Made /\ o.value \in Values,
         o.kind = "load" => o.rest # <<>>,
         op' = [op EXCEPT ![t] = o],
         UNCHANGED <<varState, clients>>
  PROVE  ConfigInv'
  <1>0. /\ TypeInv /\ TypeOK /\ OpInv /\ LockInv /\ ClientInv /\ CountInv /\ OwnInv
    BY DEF ConfigInv, TypeInv
  <1>1. UNCHANGED <<data, val, callbacks, lastId, lock, used, home, handle, view>>
    BY DEF varState, clients
  <1>2. /\ op'[t] = o
        /\ \A u \in Threads \ {t} : op'[u] = op[u]
    BY <1>0 DEF TypeInv
  <1>3. TypeInv'
    BY <1>0, <1>1 DEF TypeInv, TypeOK, Made
  <1>4. OpInv'
    <2>1. OpOK(t)'
      BY <1>1, <1>2 DEF OpOK, Locking, Adding, Made
    <2>2. ASSUME NEW u \in Threads \ {t} PROVE OpOK(u)'
      BY <1>0, <1>1, <1>2 DEF OpInv, OpOK, Made, Due
    <2> QED
      BY <2>1, <2>2 DEF OpInv
  <1>5. \A w \in Vars : lock[w] # None => op'[lock[w]] = op[lock[w]]
    BY <1>0, <1>2 DEF LockInv, TypeOK
  <1>6. LockInv' /\ ClientInv' /\ CountInv'
    BY <1>0, <1>1, <1>5 DEF LockInv, ClientInv, CountInv, Made
  <1>7. OwnInv'
    <2>1. ASSUME NEW w \in Vars, OwnCounter(w) PROVE OwnState(w)'
      BY <1>0, <1>1, <1>5, <2>1 DEF OwnInv, OwnState, Mine, Notifying
    <2>2. ASSUME NEW w \in Vars, OwnCounter(w), NEW u \in Threads, op'[u].var = w
          PROVE  OwnOp(u, w)'
      <3>1. CASE u = t
        BY <1>2, <3>1 DEF OwnOp, Locking, Adding
      <3>2. CASE u # t
        BY <1>0, <1>1, <1>2, <2>2, <3>2 DEF OwnInv, OwnOp, Mine
      <3> QED
        BY <3>1, <3>2
    <2> QED
      BY <2>1, <2>2 DEF OwnInv, OwnCounter
  <1> QED
    BY <1>3, <1>4, <1>6, <1>7 DEF ConfigInv

Rests == Seq(Names \X (Values \cup {Unparsable}))

\* The records of a call of setVal and of the rest of a document.
LEMMA SettingProps ==
  ASSUME NEW v \in Vars, NEW x \in Values, NEW rest \in Rests
  PROVE  /\ Setting(v, x, rest) \in Ops
         /\ Setting(v, x, rest).kind = "set"
         /\ Setting(v, x, rest).var = v
         /\ Setting(v, x, rest).value = x
         /\ Setting(v, x, rest).rest = rest
  BY DEF Setting, NoOp, Ops, Kinds, Locking, Adding, Rests

LEMMA LoadingProps ==
  ASSUME NEW rest \in Rests
  PROVE  /\ Loading(rest) \in Ops
         /\ Loading(rest).kind \in {"none", "load"}
         /\ Loading(rest).kind = "load" => Loading(rest).rest # <<>>
         /\ Loading(rest).var = None
  BY DEF Loading, NoOp, Ops, Kinds, Locking, Adding, Rests

\* A client calls setVal or loadFromYaml, or loadFromYaml takes the next member.
LEMMA ClientStep ==
  ASSUME ConfigInv, NEW t \in Threads,
         \/ \E v \in Vars, x \in Values : CallSetVal(t, v, x)
         \/ \E document \in Documents : CallLoad(t, document)
         \/ LoadNext(t)
  PROVE  ConfigInv'
  <1>0. TypeInv /\ TypeOK /\ OpOK(t) /\ op[t] \in Ops
    BY DEF ConfigInv, OpInv, TypeInv
  <1>1. ASSUME NEW v \in Vars, NEW x \in Values, CallSetVal(t, v, x)
        PROVE  ConfigInv'
    <2>1. <<>> \in Rests
      BY DEF Rests
    <2>2. op[t].kind \notin Locking /\ v \in Made
      BY <1>1 DEF CallSetVal, NoOp, Locking, Adding
    <2> DEFINE o == Setting(v, x, <<>>)
    <2>3. /\ o \in Ops /\ o.kind = "set" /\ o.var = v /\ o.value = x
          /\ op' = [op EXCEPT ![t] = o]
          /\ UNCHANGED <<varState, clients>>
      BY <1>1, <2>1, SettingProps DEF CallSetVal
    <2> HIDE DEF o
    <2> QED
      BY <2>2, <2>3, UnlockedStep DEF Locking, Adding
  <1>2. ASSUME NEW document \in Documents, CallLoad(t, document)
        PROVE  ConfigInv'
    <2>1. document \in Rests
      BY ConfigAssumption DEF Rests
    <2>2. op[t].kind \notin Locking
      BY <1>2 DEF CallLoad, NoOp, Locking, Adding
    <2> QED
      BY <1>2, <2>1, <2>2, LoadingProps, UnlockedStep DEF CallLoad, Locking, Adding
  <1>3. CASE LoadNext(t)
    <2> DEFINE name == Head(op[t].rest)[1]
    <2> DEFINE text == Head(op[t].rest)[2]
    <2> DEFINE rest == Tail(op[t].rest)
    <2>1. op[t].kind = "load" /\ op[t].rest \in Rests /\ op[t].rest # <<>>
      BY <1>0, <1>3 DEF LoadNext, OpOK, Ops, Rests
    <2>2. rest \in Rests /\ Head(op[t].rest) \in Names \X (Values \cup {Unparsable})
      BY <2>1 DEF Rests
    <2>3. name \in Names /\ text \in Values \cup {Unparsable}
      BY <2>2
    <2>4. data[name] # None => data[name] \in Made /\ data[name] \in Vars
      BY <1>0, <2>3 DEF TypeOK, Made
    <2>5. op' = [op EXCEPT ![t] = IF data[name] = None \/ text = Unparsable
                                  THEN Loading(rest)
                                  ELSE Setting(data[name], text, rest)]
      BY <1>3 DEF LoadNext
    <2>6. UNCHANGED <<varState, clients>>
      BY <1>3 DEF LoadNext
    <2>7. op[t].kind \notin Locking
      BY <2>1 DEF Locking, Adding
    <2> HIDE DEF name, text, rest
    <2>8. CASE data[name] = None \/ text = Unparsable
      BY <2>2, <2>5, <2>6, <2>7, <2>8, LoadingProps, UnlockedStep DEF Locking, Adding
    <2>9. CASE ~(data[name] = None \/ text = Unparsable)
      <3>1. text \in Values /\ data[name] \in Vars /\ data[name] \in Made
        BY <2>3, <2>4, <2>9
      <3> DEFINE o == Setting(data[name], text, rest)
      <3>2. /\ o \in Ops /\ o.kind = "set" /\ o.var = data[name] /\ o.value = text
            /\ op' = [op EXCEPT ![t] = o]
        BY <2>2, <2>5, <2>9, <3>1, SettingProps
      <3> HIDE DEF o
      <3> QED
        BY <2>6, <2>7, <3>1, <3>2, UnlockedStep DEF Locking, Adding
    <2> QED
      BY <2>8, <2>9
  <1> QED
    BY <1>1, <1>2, <1>3

\* setVal locks the variable; a change is told to the callbacks it has then.
LEMMA SetBeginStep ==
  ASSUME ConfigInv, NEW t \in Threads, SetBegin(t)
  PROVE  ConfigInv'
  <1> DEFINE v == op[t].var
  <1>0. /\ TypeInv /\ TypeOK /\ OpInv /\ LockInv /\ ClientInv /\ CountInv /\ OwnInv
        /\ OpOK(t)
    BY DEF ConfigInv, TypeInv, OpInv
  <1>1. /\ op[t].kind = "set" /\ lock[v] = None
        /\ v \in Made /\ v \in Vars /\ op[t].value \in Values
        /\ UNCHANGED <<data, val, callbacks, lastId, used, home, handle, view>>
    BY <1>0 DEF SetBegin, OpOK, Made, clients
  <1>2. CASE val[v] = op[t].value
    <2> DEFINE o == Loading(op[t].rest)
    <2>1. op[t].rest \in Rests
      BY <1>0 DEF TypeInv, Ops, Rests
    <2>2. /\ o \in Ops /\ o.kind \in {"none", "load"}
          /\ o.kind = "load" => o.rest # <<>>
          /\ op' = [op EXCEPT ![t] = o]
          /\ UNCHANGED <<varState, clients>>
      BY <1>2, <2>1, LoadingProps DEF SetBegin, varState
    <2> HIDE DEF o
    <2> QED
      BY <1>1, <2>2, UnlockedStep DEF Locking, Adding
  <1>3. CASE val[v] # op[t].value
    <2>1. /\ op' = [op EXCEPT ![t].kind = "notify", ![t].due = Due(v)]
          /\ lock' = [lock EXCEPT ![v] = t]
      BY <1>3 DEF SetBegin
    <2>2. Due(v) \in SUBSET Ids
      BY DEF Due
    <2>3. /\ op'[t] \in Ops
          /\ op'[t].kind = "notify" /\ op'[t].var = v
          /\ op'[t].value = op[t].value /\ op'[t].due = Due(v)
      <3>1. op'[t] = [op[t] EXCEPT !.kind = "notify", !.due = Due(v)]
        BY <1>0, <2>1 DEF TypeInv
      <3>2. op[t] \in Ops
        BY <1>0 DEF TypeInv
      <3> QED
        BY <2>2, <3>1, <3>2 DEF Ops, Kinds, Locking
    <2>4. \A u \in Threads \ {t} : op'[u] = op[u] /\ op[u] \in Ops
      BY <1>0, <2>1 DEF TypeInv
    <2> HIDE DEF v
    <2>5. /\ \A w \in Vars : lock'[w] = IF w = v THEN t ELSE lock[w]
          /\ t # None
      BY <1>0, <1>1, <2>1, ConfigAssumption DEF TypeOK
    <2>6. \A u \in Threads : op[u].kind \in Locking => op[u].var # v /\ op[u].var \in Vars
      BY <1>0, <1>1, ConfigAssumption DEF OpInv, OpOK, Made
    <2>7. TypeInv'
      <3>1. op' \in [Threads -> Ops]
        BY <1>0, <2>1, <2>3, <2>4 DEF TypeInv
      <3> QED
        BY <1>0, <1>1, <2>1, <3>1 DEF TypeInv, TypeOK, Made
    <2>8. OpInv'
      <3>1. OpOK(t)'
        BY <1>1, <2>3, <2>5 DEF OpOK, Locking, Adding, Made, Due
      <3>2. ASSUME NEW u \in Threads \ {t} PROVE OpOK(u)'
        BY <1>0, <1>1, <2>4, <2>5, <2>6 DEF OpInv, OpOK, Made, Due
      <3> QED
        BY <3>1, <3>2 DEF OpInv
    <2>9. \A w \in Vars \ {v} : lock[w] # None => op'[lock[w]] = op[lock[w]]
      <3> SUFFICES ASSUME NEW w \in Vars \ {v}, lock[w] # None PROVE lock[w] \in Threads \ {t}
        BY <2>4
      <3> QED
        BY <1>0 DEF LockInv, TypeOK, v
    <2>10. LockInv' /\ ClientInv' /\ CountInv'
      BY <1>0, <1>1, <2>3, <2>5, <2>9 DEF LockInv, ClientInv, CountInv, Made, Locking
    <2>11. OwnInv'
      <3>1. \A w \in Vars \ {v} : Notifying(w)' <=> Notifying(w)
        BY <2>5, <2>9 DEF Notifying
      <3>2. \A w \in Vars : w = v => Notifying(w)'
        BY <2>3, <2>5 DEF Notifying
      <3>3. ASSUME NEW w \in Vars, OwnCounter(w) PROVE OwnState(w)'
        BY <1>0, <1>1, <3>1, <3>2, <3>3 DEF OwnInv, OwnState, Mine
      <3>4. ASSUME NEW w \in Vars, OwnCounter(w), NEW u \in Threads, op'[u].var = w
            PROVE  OwnOp(u, w)'
        <4>1. CASE u = t
          <5>1. w = v /\ OwnState(v)
            BY <1>0, <1>1, <2>3, <3>4, <4>1 DEF OwnInv
          <5>2. \A c \in Callbacks : Mine(c, v) => handle[c] \in Due(v)
            BY <1>0, <5>1, ConfigAssumption DEF OwnState, Mine, Due, TypeOK
          <5>3. \A c \in Callbacks : Mine(c, w)' => handle'[c] \in op'[t].due
            BY <1>1, <2>3, <5>1, <5>2 DEF Mine
          <5> QED
            BY <2>3, <4>1, <5>1, <5>3 DEF OwnOp
        <4>2. CASE u # t
          BY <1>0, <1>1, <2>4, <3>4, <4>2 DEF OwnInv, OwnOp, Mine
        <4> QED
          BY <4>1, <4>2
      <3> QED
        BY <3>3, <3>4 DEF OwnInv, OwnCounter
    <2> QED
      BY <2>7, <2>8, <2>10, <2>11 DEF ConfigInv
  <1> QED
    BY <1>2, <1>3

\* One callback is told the new value; it is registered with this variable, so
\* what the clients of other variables know does not change.
LEMMA NotifyStep ==
  ASSUME ConfigInv, NEW t \in Threads, Notify(t)
  PROVE  ConfigInv'
  <1> DEFINE v == op[t].var
  <1> DEFINE x == op[t].value
  <1>0. /\ TypeInv /\ TypeOK /\ OpInv /\ LockInv /\ ClientInv /\ CountInv /\ OwnInv
        /\ OpOK(t)
    BY DEF ConfigInv, TypeInv, OpInv
  <1>1. PICK i \in op[t].due :
          /\ view' = [view EXCEPT ![callbacks[v][i]] = x]
          /\ op' = [op EXCEPT ![t].due = @ \ {i}]
    BY DEF Notify
  <1>2. /\ op[t].kind = "notify"
        /\ UNCHANGED <<data, val, callbacks, lastId, lock, used, home, handle>>
    BY DEF Notify, varState
  <1>3. /\ op'[t] \in Ops
        /\ op'[t].kind = "notify" /\ op'[t].var = v
        /\ op'[t].value = x /\ op'[t].due = op[t].due \ {i}
    BY <1>0, <1>1, <1>2 DEF TypeInv, Ops
  <1>4. \A u \in Threads \ {t} : op'[u] = op[u] /\ op[u] \in Ops
    BY <1>0, <1>1 DEF TypeInv
  <1>5. /\ v \in Vars /\ v \in Made /\ lock[v] = t /\ x \in Values
        /\ \A u \in Threads \ {t} : op[u].kind \in Locking => op[u].var # v
    BY <1>0, <1>2, OneHolder DEF Locking, OpOK
  <1>6. i \in Ids /\ callbacks[v][i] # None /\ op[t].due \subseteq Due(v)
    BY <1>0, <1>1, <1>2 DEF OpOK, Due
  <1> DEFINE c == callbacks[v][i]
  <1>7. c \in Callbacks /\ home[c] = v
    BY <1>0, <1>5, <1>6 DEF ClientInv, TypeOK
  <1> HIDE DEF v, x, c
  <1>8. \A d \in Callbacks : view'[d] = IF d = c THEN x ELSE view[d]
    BY <1>0, <1>1, <1>7 DEF TypeOK, c
  <1>9. TypeInv'
    <2>1. op' \in [Threads -> Ops] /\ view' \in [Callbacks -> Values \cup {None}]
      BY <1>0, <1>1, <1>3, <1>4, <1>5 DEF TypeInv, TypeOK
    <2> QED
      BY <1>0, <1>2, <2>1 DEF TypeInv, TypeOK, Made
  <1>10. OpInv'
    <2>1. OpOK(t)'
      <3>1. op'[t].due \subseteq Due(v)
        BY <1>3, <1>6
      <3> QED
        BY <1>0, <1>2, <1>3, <1>5, <3>1 DEF OpOK, Locking, Adding, Made, Due
    <2>2. ASSUME NEW u \in Threads \ {t} PROVE OpOK(u)'
      BY <1>0, <1>2, <1>4 DEF OpInv, OpOK, Made, Due
    <2> QED
      BY <2>1, <2>2 DEF OpInv
  <1>11. \A u \in Threads : op'[u].kind = op[u].kind /\ op'[u].var = op[u].var
    BY <1>2, <1>3, <1>4 DEF v
  <1>12. LockInv' /\ ClientInv' /\ CountInv'
    BY <1>0, <1>2, <1>11 DEF LockInv, ClientInv, CountInv, Made, TypeOK
  <1>13. OwnInv'
    <2>1. \A w \in Vars : Notifying(w)' <=> Notifying(w)
      BY <1>0, <1>2, <1>11 DEF Notifying, TypeOK
    <2>2. Notifying(v)
      BY <1>0, <1>2, <1>5, ConfigAssumption DEF Notifying
    <2>3. \A d \in Callbacks, w \in Vars : Mine(d, w)' <=> Mine(d, w)
      BY <1>2 DEF Mine
    <2>4. ASSUME NEW w \in Vars, OwnCounter(w) PROVE OwnState(w)'
      <3>1. OwnState(w)
        BY <1>0, <2>4 DEF OwnInv
      <3>2. \A d \in Callbacks : Mine(d, w) /\ ~Notifying(w) => d # c
        BY <1>7, <2>2 DEF Mine
      <3>3. \A d \in Callbacks : Mine(d, w)' /\ ~Notifying(w)' => view'[d] = val'[w]
        BY <1>2, <1>8, <2>1, <2>3, <3>1, <3>2 DEF OwnState
      <3> QED
        BY <1>2, <2>3, <3>1, <3>3 DEF OwnState
    <2>5. ASSUME NEW w \in Vars, OwnCounter(w), NEW u \in Threads, op'[u].var = w
          PROVE  OwnOp(u, w)'
      <3>1. op[u].var = w /\ OwnOp(u, w) /\ OpOK(u)
        BY <1>0, <1>11, <2>5 DEF OwnInv, OpInv
      <3>2. CASE u = t
        <4>1. w = v
          BY <1>3, <2>5, <3>2
        <4>2. ASSUME NEW d \in Callbacks, Mine(d, w)'
              PROVE  handle'[d] \in op'[t].due \/ view'[d] = x
          <5>1. Mine(d, v) /\ callbacks[v][handle[d]] = d
            BY <1>0, <2>3, <2>5, <4>1, <4>2 DEF OwnInv, OwnState
          <5>2. handle[d] \in op[t].due \/ view[d] = x
            BY <1>2, <3>1, <3>2, <4>1, <5>1 DEF OwnOp, x
          <5>3. handle[d] = i => d = c
            BY <5>1 DEF c
          <5> QED
            BY <1>2, <1>3, <1>8, <5>2, <5>3
        <4> QED
          BY <1>3, <3>2, <4>1, <4>2 DEF OwnOp
      <3>3. CASE u # t
        <4>1. op'[u] = op[u] /\ (op[u].kind \in Locking => w # v)
          BY <1>4, <1>5, <3>1, <3>3
        <4>2. op[u].kind = "return" => op[u].cb \in Callbacks /\ op[u].cb # c
          BY <1>0, <1>7, <3>1, <4>1 DEF OpOK, TypeOK, Locking, Adding
        <4>3. \A d \in Callbacks : Mine(d, w) /\ w # v => d # c
          BY <1>7 DEF Mine
        <4> QED
          BY <1>2, <1>8, <2>3, <3>1, <4>1, <4>2, <4>3 DEF OwnOp, Locking, Adding
      <3> QED
        BY <3>2, <3>3
    <2> QED
      BY <2>4, <2>5 DEF OwnInv, OwnCounter
  <1> QED
    BY <1>9, <1>10, <1>12, <1>13 DEF ConfigInv

\* Everybody has been told: the value is stored and the variable unlocked.
LEMMA SetStoreStep ==
  ASSUME ConfigInv, NEW t \in Threads, SetStore(t)
  PROVE  ConfigInv'
  <1> DEFINE v == op[t].var
  <1> DEFINE x == op[t].value
  <1> DEFINE o == Loading(op[t].rest)
  <1>0. /\ TypeInv /\ TypeOK /\ OpInv /\ LockInv /\ ClientInv /\ CountInv /\ OwnInv
        /\ OpOK(t)
    BY DEF ConfigInv, TypeInv, OpInv
  <1>1. /\ op[t].kind = "notify" /\ op[t].due = {}
        /\ val' = [val EXCEPT ![v] = x]
        /\ lock' = [lock EXCEPT ![v] = None]
        /\ op' = [op EXCEPT ![t] = o]
        /\ UNCHANGED <<data, callbacks, lastId, used, home, handle, view>>
    BY DEF SetStore, clients
  <1>2. /\ v \in Vars /\ v \in Made /\ lock[v] = t /\ x \in Values
        /\ \A u \in Threads \ {t} : op[u].kind \in Locking => op[u].var # v
    BY <1>0, <1>1, OneHolder DEF Locking, OpOK
  <1>3. op[t].rest \in Rests
    BY <1>0 DEF TypeInv, Ops, Rests
  <1>4. /\ o \in Ops /\ o.kind \in {"none", "load"} /\ o.var = None
        /\ o.kind = "load" => o.rest # <<>>
    BY <1>3, LoadingProps
  <1>5. OwnCounter(v) => \A c \in Callbacks : Mine(c, v) => view[c] = x
    BY <1>0, <1>1, <1>2 DEF OwnInv, OwnOp
  <1> HIDE DEF v, x, o
  <1>6. /\ op'[t] = o
        /\ \A u \in Threads \ {t} : op'[u] = op[u] /\ op[u] \in Ops
    BY <1>0, <1>1 DEF TypeInv
  <1>7. /\ \A w \in Vars : lock'[w] = IF w = v THEN None ELSE lock[w]
        /\ \A w \in Vars : val'[w] = IF w = v THEN x ELSE val[w]
        /\ Made' = Made
        /\ None \notin Threads /\ None \notin Vars
    BY <1>0, <1>1, <1>2, ConfigAssumption DEF TypeOK, Made
  <1>8. TypeInv'
    BY <1>0, <1>1, <1>2, <1>4, <1>7 DEF TypeInv, TypeOK
  <1>9. OpInv'
    <2>1. OpOK(t)'
      BY <1>4, <1>6 DEF OpOK, Locking, Adding
    <2>2. ASSUME NEW u \in Threads \ {t} PROVE OpOK(u)'
      <3>1. OpOK(u) /\ (op[u].kind \in Locking => op[u].var # v /\ op[u].var \in Vars)
        BY <1>0, <1>2, <1>6 DEF OpInv, OpOK, Made
      <3> QED
        BY <1>1, <1>6, <1>7, <3>1 DEF OpOK, Due, Locking
    <2> QED
      BY <2>1, <2>2 DEF OpInv
  <1>10. \A w \in Vars \ {v} : lock[w] # None => op'[lock[w]] = op[lock[w]]
    <2> SUFFICES ASSUME NEW w \in Vars \ {v}, lock[w] # None PROVE lock[w] \in Threads \ {t}
      BY <1>6
    <2> QED
      BY <1>0 DEF LockInv, TypeOK, v
  <1>11. LockInv' /\ ClientInv' /\ CountInv'
    BY <1>0, <1>1, <1>7, <1>10 DEF LockInv, ClientInv, CountInv
  <1>12. OwnInv'
    <2>1. \A w \in Vars \ {v} : Notifying(w)' <=> Notifying(w)
      BY <1>7, <1>10 DEF Notifying
    <2>2. ASSUME NEW w \in Vars, OwnCounter(w) PROVE OwnState(w)'
      BY <1>0, <1>1, <1>5, <1>7, <2>1, <2>2 DEF OwnInv, OwnState, Mine
    <2>3. ASSUME NEW w \in Vars, OwnCounter(w), NEW u \in Threads, op'[u].var = w
          PROVE  OwnOp(u, w)'
      <3>1. u # t
        BY <1>4, <1>6, <1>7, <2>3
      <3>2. op[u].var = w /\ OwnOp(u, w) /\ op'[u] = op[u]
        BY <1>0, <1>6, <2>3, <3>1 DEF OwnInv
      <3>3. op[u].kind = "return" => w # v
        BY <1>2, <3>1, <3>2 DEF Locking, Adding
      <3> QED
        BY <1>1, <1>7, <3>2, <3>3 DEF OwnOp, Mine
    <2> QED
      BY <2>2, <2>3 DEF OwnInv, OwnCounter
  <1> QED
    BY <1>8, <1>9, <1>11, <1>12 DEF ConfigInv

-----------------------------------------------------------------------------
(* The invariants *)

LEMMA ConfigInvariant == Spec => []ConfigInv
  <1>1. ConfigInv /\ [Next]_vars => ConfigInv'
    <2> SUFFICES ASSUME ConfigInv, [Next]_vars PROVE ConfigInv'
      OBVIOUS
    <2>1. CASE UNCHANGED vars
      <3>1. UNCHANGED <<data, val, callbacks, lastId, lock, op, used, home, handle, view>>
        BY <2>1 DEF vars, varState, clients
      <3>2. TypeInv' /\ OpInv' /\ LockInv'
        BY <3>1 DEF ConfigInv, TypeInv, TypeOK, Made, OpInv, OpOK, Due, LockInv
      <3>3. ClientInv' /\ CountInv' /\ OwnInv'
        BY <3>1 DEF ConfigInv, ClientInv, Made, CountInv, OwnInv, OwnState, OwnOp, Mine,
           Notifying, OwnCounter
      <3> QED
        BY <3>2, <3>3 DEF ConfigInv
    <2>2. CASE Next
      BY <2>2, CreateStep, AddCallbackStep, AddCountStep, AddInsertStep, AddReturnStep,
         DelCallbackStep, ClientStep, SetBeginStep, NotifyStep, SetStoreStep
      DEF Next, Continue
    <2> QED
      BY <2>1, <2>2
  <1> QED
    BY InitConfig, <1>1, PTL DEF Spec

\* Every variable has its type: no id runs past the ids that there can be.
THEOREM ConfigTypes == Spec => []TypeOK
  <1>1. ConfigInv => TypeOK
    BY DEF ConfigInv, TypeInv
  <1> QED
    BY <1>1, ConfigInvariant, PTL

\* Where no other variable has the same type, the id that a client was given
\* names its callback, however many threads add and delete others.
THEOREM HandlesAreOwn == Spec => []OwnHandle
  <1>1. ConfigInv => OwnHandle
    BY DEF ConfigInv, ClientInv, OwnInv, OwnState, Mine, OwnHandle, TypeInv, TypeOK, Made
  <1> QED
    BY <1>1, ConfigInvariant, PTL

\* Where no other variable has the same type, a client knows the value of every
\* variable that is not being changed, whatever is set, loaded, added and
\* deleted at the same time.
THEOREM NobodyIsStale == Spec => []Informed
  <1>1. ConfigInv => Informed
    BY DEF ConfigInv, ClientInv, OwnInv, OwnState, Mine, Notifying, Informed, TypeInv,
       TypeOK, Made
  <1> QED
    BY <1>1, ConfigInvariant, PTL
=============================================================================
