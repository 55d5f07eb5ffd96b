------------------------- MODULE MCObjectQueuesHistory ----------------------------
(* Three transactions over two objects: a queue holds up to two waiters, and  *)
(* transactions wait for one or for both of the objects.                      *)
EXTENDS ObjectQueuesHistory

CONSTANTS t1, t2, t3, a, b

MCTxs == {t1, t2, t3}

MCObjects == {a, b}
=============================================================================
