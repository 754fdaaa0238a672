------------------------- MODULE MCUeTaskScheduler -------------------------
(* Model-checking instance of UeTaskScheduler: two UE slots, four tasks,  *)
(* a queue of two pending tasks, so that one UE can hold a running task,  *)
(* a full queue and a rejected fourth task.                                *)
EXTENDS UeTaskScheduler

CONSTANTS u1, u2, t1, t2, t3, t4

MCUEs == {u1, u2}
MCTasks == {t1, t2, t3, t4}
=============================================================================
