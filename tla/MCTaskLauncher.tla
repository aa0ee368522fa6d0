---------------------------- MODULE MCTaskLauncher ----------------------------
(* Instances of TaskLauncher for TLC. *)
EXTENDS TaskLauncher, TLC

CONSTANTS f1, f2, f3, t1, t2, c1

ThreeTasks == {f1, f2, f3}
TwoThreads == {t1, t2}
OneClient  == {c1}
OneOrTwo   == {1, 2}

\* One task asks to be run again, once.
OneRelaunched == [f \in Tasks |-> IF f = f1 THEN 1 ELSE 0]
===============================================================================
