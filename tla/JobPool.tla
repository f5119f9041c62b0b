------------------------------- MODULE JobPool -------------------------------
(***************************************************************************)
(* What base/Scheduler promises, without fibers, threads, locks or         *)
(* counters: a job that has been added waits, runs on one of Slots         *)
(* processors, may give its processor up and wait again or be parked, and  *)
(* ends once.  The pool closes only when every unpinned job that was added *)
(* has ended or is parked, and nothing runs in a closed pool.              *)
(***************************************************************************)
EXTENDS Naturals, FiniteSets

CONSTANTS
  Jobs,      \* the callables
  Unpinned,  \* those that are not bound to one thread
  Slots      \* how many threads execute run()

VARIABLES status, closed

Statuses == {"new", "waiting", "running", "parked", "ended"}

Init ==
  /\ status = [j \in Jobs |-> "new"]
  /\ closed = FALSE

Running == {j \in Jobs : status[j] = "running"}

Move(j, from, to) ==
  /\ status[j] = from
  /\ status' = [status EXCEPT ![j] = to]
  /\ UNCHANGED closed

Submit(j) == ~closed /\ Move(j, "new", "waiting")

Dispatch(j) == ~closed /\ Cardinality(Running) < Slots /\ Move(j, "waiting", "running")

GiveUp(j) == Move(j, "running", "waiting")

Park(j) == Move(j, "running", "parked")

End(j) == Move(j, "running", "ended")

Close ==
  /\ ~closed
  /\ Running = {}
  /\ \A j \in Unpinned : status[j] # "waiting"
  /\ closed' = TRUE
  /\ UNCHANGED status

Next ==
  \/ \E j \in Jobs : Submit(j) \/ Dispatch(j) \/ GiveUp(j) \/ Park(j) \/ End(j)
  \/ Close

Spec == Init /\ [][Next]_<<status, closed>>
=============================================================================
