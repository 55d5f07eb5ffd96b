------------------------------ MODULE MCGasPool ------------------------------
(* Four transactions in two slots, coins of a balance of 2 that cost 1 a     *)
(* use, and a wallet of one coin that pays for a whole batch of 4.           *)
EXTENDS GasPool

FourTxs == 1..4

MCCharges == {[net |-> 1, storage |-> s] : s \in {0, 1}}

MCWallet == <<9>>

NoneOrFirst == {{}, {1}}

AllFaults == Fault
=============================================================================
