---------------------------- MODULE MCTaskQueue ----------------------------
(* A small instance of TaskQueue.                                             *)
EXTENDS TaskQueue

CONSTANTS w1, w2, w3, t1, t2, t3

ThreeWorkers == {w1, w2, w3}
ThreeTasks == {t1, t2, t3}
SomeOwned == {t1, t2}
=============================================================================
