----------------------------- MODULE MCThreadPool -----------------------------
(* Instances of ThreadPool for TLC. *)
EXTENDS ThreadPool, TLC

CONSTANTS t1, t2, f1, f2, f3, c1, c2

TwoThreads == {t1, t2}
TwoTasks   == {f1, f2}
ThreeTasks == {f1, f2, f3}
OneCaller  == {c1}
TwoCallers == {c1, c2}

NoCalls  == {}
AllCalls == {"kill", "join", "destroy"}
Destroy  == {"destroy"}

\* Threads, tasks and callers are interchangeable: for runs of invariants only.
Symmetry == Permutations(TwoThreads) \cup Permutations(TwoTasks)
              \cup Permutations(TwoCallers)
===============================================================================
