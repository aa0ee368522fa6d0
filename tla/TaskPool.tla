------------------------------- MODULE TaskPool -------------------------------
(***************************************************************************)
(* What hThreadPool promises the code that uses it: a task handed to       *)
(* addTask is started at most once, by a thread that is running nothing    *)
(* else, and ends where it was started.  Nothing is promised about order.  *)
(* ThreadPool implements this specification.                               *)
(***************************************************************************)
CONSTANTS Tasks,     \* the callbacks an application hands to addTask
          Threads,   \* the pool's threads
          None       \* no task

VARIABLES pending,   \* accepted by addTask, not started yet
          runner,    \* what each thread is running
          finished   \* the tasks that have been run

vars == <<pending, runner, finished>>

Running == {runner[t] : t \in Threads} \ {None}

Init ==
  /\ pending = {}
  /\ runner = [t \in Threads |-> None]
  /\ finished = {}

\* An application hands over a task it has not handed over before.
Submit(f) ==
  /\ f \notin pending \cup Running \cup finished
  /\ pending' = pending \cup {f}
  /\ UNCHANGED <<runner, finished>>

Start(t, f) ==
  /\ f \in pending
  /\ runner[t] = None
  /\ pending' = pending \ {f}
  /\ runner' = [runner EXCEPT ![t] = f]
  /\ UNCHANGED finished

Finish(t) ==
  /\ runner[t] # None
  /\ finished' = finished \cup {runner[t]}
  /\ runner' = [runner EXCEPT ![t] = None]
  /\ UNCHANGED pending

Next ==
  \/ \E f \in Tasks : Submit(f)
  \/ \E t \in Threads, f \in Tasks : Start(t, f)
  \/ \E t \in Threads : Finish(t)

Spec == Init /\ [][Next]_vars
===============================================================================
