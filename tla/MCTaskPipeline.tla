--------------------------- MODULE MCTaskPipeline ---------------------------
(* Five tasks and three slots: up to two tasks wait behind three started     *)
(* ones, of which up to two wait in the build queue.                         *)
EXTENDS TaskPipeline

CONSTANTS t1, t2, t3, t4, t5

MCTasks == {t1, t2, t3, t4, t5}

MCmaxTasks == 3
=============================================================================
