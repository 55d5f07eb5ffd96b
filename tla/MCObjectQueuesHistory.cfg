SPECIFICATION HSpec
CONSTANTS
  t1 = t1
  t2 = t2
  t3 = t3
  a = a
  b = b
  Txs <- MCTxs
  Objects <- MCObjects
INVARIANTS
  TypeOK
  Exclusive
  QueuesAgree
PROPERTIES
  LineSpec
  GetsObjects
