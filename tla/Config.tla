------------------------------- MODULE Config -------------------------------
(***************************************************************************)
(* The configuration variables of base/Config.{h,cpp}: the registry of     *)
(* names, the values with their change callbacks, and loadFromYaml, which  *)
(* sets many variables one after the other.                                *)
(*                                                                         *)
(* The registry has a read-write lock and so has every variable.  create   *)
(* and look-ups are one action each.  setVal calls the callbacks while it  *)
(* holds the write lock, one action per call.  addCallback numbers the     *)
(* callbacks with a static counter: there is ONE for all variables of a    *)
(* type, but each guards it with its own lock, so that its load, its store *)
(* and the two later reads are separate actions.                           *)
(***************************************************************************)
EXTENDS Integers, Sequences, FiniteSets

CONSTANTS
  Threads,
  Vars,        \* ConfigVar objects
  VarTypes,    \* the types T of ConfigVar<T>
  TypeOf,      \* the type of a variable
  Names,       \* names, in lower case as the registry has them
  NameOf,      \* ConfigVarBase::name_
  Values,      \* the values that FromStr can parse
  Default,     \* the value a variable is created with
  Unparsable,  \* text for which FromStr throws
  Documents,   \* what loadFromYaml is given, as listAllYamlMembers lists it
  Callbacks,   \* change callbacks; each is added at most once
  None

\* callbacks_ has at most one id for each callback; 0 is never given out.
Ids == 0 .. Cardinality(Callbacks)

ASSUME ConfigAssumption ==
  /\ IsFiniteSet(Callbacks)
  /\ TypeOf \in [Vars -> VarTypes]
  /\ NameOf \in [Vars -> Names]
  /\ Default \in Values
  /\ Unparsable \notin Values
  /\ Documents \subseteq Seq(Names \X (Values \cup {Unparsable}))
  /\ None \notin Threads \cup Vars \cup Values \cup Callbacks \cup Ids

VARIABLES
  data,       \* the registry: Config::getData()
  val,        \* ConfigVar::val_, None before the variable is constructed
  callbacks,  \* ConfigVar::callbacks_
  lastId,     \* the static id of addCallback, one for each type
  lock,       \* the thread that holds the write lock of a variable
  op,         \* the function that a thread is executing
  used,       \* the callbacks handed to addCallback so far
  home,       \* the variable that a callback was added to
  handle,     \* the id that its client was given, None without a registration
  view        \* the value that a callback was told last; at first the value
              \* that its variable had when it was added

varState == <<data, val, callbacks, lastId, lock>>
clients  == <<used, home, handle, view>>
vars == <<varState, op, clients>>

NoOp == [kind |-> "none", var |-> None, cb |-> None, id |-> 0, value |-> None,
         due |-> {}, rest |-> <<>>]

Init ==
  /\ data = [n \in Names |-> None]
  /\ val = [v \in Vars |-> None]
  /\ callbacks = [v \in Vars |-> [i \in Ids |-> None]]
  /\ lastId = [y \in VarTypes |-> 0]
  /\ lock = [v \in Vars |-> None]
  /\ op = [t \in Threads |-> NoOp]
  /\ used = {}
  /\ home = [c \in Callbacks |-> None]
  /\ handle = [c \in Callbacks |-> None]
  /\ view = [c \in Callbacks |-> None]

Made == {v \in Vars : val[v] # None}

-----------------------------------------------------------------------------
(* The registry *)

\* Mutant: the instance is not given its value.
CreateUninitialised(t, v) ==
  /\ op[t] = NoOp
  /\ v \notin Made
  /\ data' = [data EXCEPT ![NameOf[v]] = IF @ = None THEN v ELSE @]
  /\ UNCHANGED <<val, callbacks, lastId, lock, op, clients>>

\* ConfigVar::Create returns its new instance whether or not Config::create
\* finds the name taken.  (Where it does not, Config::create ends without the
\* return that its type asks for, and nobody uses the value: it is modelled as a
\* return.)
Create(t, v) ==
  /\ op[t] = NoOp
  /\ v \notin Made
  /\ val' = [val EXCEPT ![v] = Default]
  /\ data' = [data EXCEPT ![NameOf[v]] = IF @ = None THEN v ELSE @]
  /\ UNCHANGED <<callbacks, lastId, lock, op, clients>>

-----------------------------------------------------------------------------
(* addCallback, delCallback *)

\* Lock, and load the counter.
AddCallback(t, v, c) ==
  /\ op[t] = NoOp
  /\ v \in Made
  /\ c \notin used
  /\ lock[v] = None
  /\ lock' = [lock EXCEPT ![v] = t]
  /\ used' = used \cup {c}
  /\ home' = [home EXCEPT ![c] = v]
  /\ op' = [op EXCEPT ![t] = [NoOp EXCEPT !.kind = "count", !.var = v, !.cb = c,
                                          !.id = lastId[TypeOf[v]]]]
  /\ UNCHANGED <<data, val, callbacks, lastId, handle, view>>

\* ++id stores.
AddCount(t) ==
  /\ op[t].kind = "count"
  /\ lastId' = [lastId EXCEPT ![TypeOf[op[t].var]] = op[t].id + 1]
  /\ op' = [op EXCEPT ![t].kind = "insert"]
  /\ UNCHANGED <<data, val, callbacks, lock, clients>>

\* callbacks_[id] = cb, with the counter as it is now.
AddInsert(t) ==
  LET v == op[t].var
      c == op[t].cb
  IN
  /\ op[t].kind = "insert"
  /\ callbacks' = [callbacks EXCEPT ![v][lastId[TypeOf[v]]] = c]
  /\ view' = [view EXCEPT ![c] = val[v]]
  /\ op' = [op EXCEPT ![t].kind = "return"]
  /\ UNCHANGED <<data, val, lastId, lock, used, home, handle>>

\* Mutant: the counter is returned as it was before it was incremented.
AddReturnOld(t) ==
  /\ op[t].kind = "return"
  /\ handle' = [handle EXCEPT ![op[t].cb] = op[t].id]
  /\ lock' = [lock EXCEPT ![op[t].var] = None]
  /\ op' = [op EXCEPT ![t] = NoOp]
  /\ UNCHANGED <<data, val, callbacks, lastId, used, home, view>>

\* return id, with the counter as it is now; unlock.
AddReturn(t) ==
  /\ op[t].kind = "return"
  /\ handle' = [handle EXCEPT ![op[t].cb] = lastId[TypeOf[op[t].var]]]
  /\ lock' = [lock EXCEPT ![op[t].var] = None]
  /\ op' = [op EXCEPT ![t] = NoOp]
  /\ UNCHANGED <<data, val, callbacks, lastId, used, home, view>>

\* A client deletes its callback by the id it was given.
DelCallback(t, c) ==
  /\ op[t] = NoOp
  /\ handle[c] # None
  /\ lock[home[c]] = None
  /\ callbacks' = [callbacks EXCEPT ![home[c]][handle[c]] = None]
  /\ handle' = [handle EXCEPT ![c] = None]
  /\ UNCHANGED <<data, val, lastId, lock, op, used, home, view>>

-----------------------------------------------------------------------------
(* setVal, loadFromYaml *)

\* A call of setVal(x) as part of a document of which rest is left.
Setting(v, x, rest) ==
  [NoOp EXCEPT !.kind = "set", !.var = v, !.value = x, !.rest = rest]

\* The rest of a document, or nothing when there is none.
Loading(rest) ==
  IF rest = <<>> THEN NoOp ELSE [NoOp EXCEPT !.kind = "load", !.rest = rest]

CallSetVal(t, v, x) ==
  /\ op[t] = NoOp
  /\ v \in Made
  /\ op' = [op EXCEPT ![t] = Setting(v, x, <<>>)]
  /\ UNCHANGED <<varState, clients>>

CallLoad(t, document) ==
  /\ op[t] = NoOp
  /\ document # <<>>
  /\ op' = [op EXCEPT ![t] = Loading(document)]
  /\ UNCHANGED <<varState, clients>>

\* The next member: getConfigVar under the lock of the registry, and
\* parseFromString, which sets nothing when the text does not parse.
LoadNext(t) ==
  LET name == Head(op[t].rest)[1]
      text == Head(op[t].rest)[2]
      rest == Tail(op[t].rest)
  IN
  /\ op[t].kind = "load"
  /\ op' = [op EXCEPT ![t] =
       IF data[name] = None \/ text = Unparsable THEN Loading(rest)
       ELSE Setting(data[name], text, rest)]
  /\ UNCHANGED <<varState, clients>>

\* Mutant: the last callback is left out.
DueButLast(v) ==
  {i \in Ids : callbacks[v][i] # None /\ \E k \in Ids : k > i /\ callbacks[v][k] # None}

\* The callbacks that a change calls.
Due(v) == {i \in Ids : callbacks[v][i] # None}

\* Lock; return at once when the value is the same.
SetBegin(t) ==
  LET v == op[t].var IN
  /\ op[t].kind = "set"
  /\ lock[v] = None
  /\ IF val[v] = op[t].value
     THEN /\ op' = [op EXCEPT ![t] = Loading(op[t].rest)]
          /\ UNCHANGED lock
     ELSE /\ op' = [op EXCEPT ![t].kind = "notify", ![t].due = Due(v)]
          /\ lock' = [lock EXCEPT ![v] = t]
  /\ UNCHANGED <<data, val, callbacks, lastId, clients>>

\* The callbacks are called in the order of their ids.  They are functions that
\* do not throw: after a throw parseFromString would go on behind the whole set,
\* with some callbacks told a value that is never stored.
Notify(t) ==
  /\ op[t].kind = "notify"
  /\ \E i \in op[t].due :
       /\ \A k \in op[t].due : i <= k
       /\ view' = [view EXCEPT ![callbacks[op[t].var][i]] = op[t].value]
       /\ op' = [op EXCEPT ![t].due = @ \ {i}]
  /\ UNCHANGED <<varState, used, home, handle>>

\* The value is stored last; unlock.
SetStore(t) ==
  LET v == op[t].var IN
  /\ op[t].kind = "notify"
  /\ op[t].due = {}
  /\ val' = [val EXCEPT ![v] = op[t].value]
  /\ lock' = [lock EXCEPT ![v] = None]
  /\ op' = [op EXCEPT ![t] = Loading(op[t].rest)]
  /\ UNCHANGED <<data, callbacks, lastId, clients>>

-----------------------------------------------------------------------------

Continue(t) ==
  \/ AddCount(t) \/ AddInsert(t) \/ AddReturn(t)
  \/ LoadNext(t)
  \/ SetBegin(t) \/ Notify(t) \/ SetStore(t)

Next ==
  \/ \E t \in Threads, v \in Vars : Create(t, v)
  \/ \E t \in Threads, v \in Vars, c \in Callbacks : AddCallback(t, v, c)
  \/ \E t \in Threads, c \in Callbacks : DelCallback(t, c)
  \/ \E t \in Threads, v \in Vars, x \in Values : CallSetVal(t, v, x)
  \/ \E t \in Threads, document \in Documents : CallLoad(t, document)
  \/ \E t \in Threads : Continue(t)

Spec == Init /\ [][Next]_vars

-----------------------------------------------------------------------------
(* Properties *)

TypeOK ==
  /\ data \in [Names -> Made \cup {None}]
  /\ val \in [Vars -> Values \cup {None}]
  /\ callbacks \in [Vars -> [Ids -> Callbacks \cup {None}]]
  /\ lastId \in [VarTypes -> Nat]
  /\ lock \in [Vars -> Threads \cup {None}]
  /\ used \in SUBSET Callbacks
  /\ home \in [Callbacks -> Vars \cup {None}]
  /\ handle \in [Callbacks -> Ids \cup {None}]
  /\ view \in [Callbacks -> Values \cup {None}]

\* No other variable shares the counter of callback ids.
OwnCounter(v) == \A w \in Vars \ {v} : TypeOf[w] # TypeOf[v]

\* The id that addCallback returned names the callback that was added
\* ("注册配置更改的回调函数"): it has not been overwritten by another, and
\* delCallback removes it and no other.  This is so only where no other
\* variable has the same type.
OwnHandle ==
  \A c \in Callbacks :
    handle[c] # None /\ OwnCounter(home[c]) => callbacks[home[c]][handle[c]] = c

\* Whenever such a variable is not locked, every client that has registered a
\* callback knows the value that setVal stored: whatever is set, loaded,
\* added and deleted in between, no change is missed or told out of order.
Informed ==
  \A c \in Callbacks :
    handle[c] # None /\ lock[home[c]] = None /\ OwnCounter(home[c])
      => view[c] = val[home[c]]
=============================================================================
