-------------------------- MODULE MCParallelExecutor --------------------------
(* Small instances of the executor; the .cfg files choose the numbers of      *)
(* transactions and objects, the faults and the public calls.                 *)
EXTENDS ParallelExecutor

CONSTANTS t1, t2, t3, t4, a, b

ThreeTxs == {t1, t2, t3}

FourTxs == {t1, t2, t3, t4}

TwoTxs == {t1, t2}

OneObject == {a}

TwoObjects == {a, b}

NoFaults == {}

AllFaults == Fault

BuildFaults == {"build"}

NoCalls == {}

WaitCall == {"wait"}

ResetCall == {"reset"}

TxSymmetry == Permutations(Txs)
=============================================================================
