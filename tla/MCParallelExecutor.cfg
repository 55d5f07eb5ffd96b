SPECIFICATION Spec
CONSTANTS
  t1 = t1
  t2 = t2
  t3 = t3
  t4 = t4
  a = a
  b = b
  Api = Api
  NoLock = NoLock
  NoTx = NoTx
  Txs <- ThreeTxs
  Objects <- TwoObjects
  MaxPoolSize = 2
  Faults <- NoFaults
  ApiCalls <- WaitCall
SYMMETRY TxSymmetry
INVARIANTS
  TypeOK
  FreshRefs
