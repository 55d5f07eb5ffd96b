------------------------ MODULE MCTransactionBuilder ------------------------
(* Up to four commands; see the .cfg file.                                  *)
EXTENDS TransactionBuilder
=============================================================================
