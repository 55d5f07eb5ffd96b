-------------------------- MODULE MCSerialExecutor --------------------------
(* Three transactions on one object, the last of which is only built, and  *)
(* two coins.                                                               *)
EXTENDS SerialExecutor

CONSTANTS t1, t2, t3, c1, c2, o1

TxSet == {t1, t2, t3}

SameObject == [t \in TxSet |-> o1]

LastOnly == {t3}

TwoCoins == {c1, c2}

OneObject == {o1}

AllFaults == Fault
=============================================================================
