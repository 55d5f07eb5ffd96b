SPECIFICATION Spec
CONSTANTS
  t1 = t1
  t2 = t2
  t3 = t3
  t4 = t4
  a = a
  b = b
  Api = Api
  NoLock = NoLock
  NoTx = NoTx
  Txs <- FourTxs
  Objects <- TwoObjects
  MaxPoolSize = 1
  Faults <- BuildFaults
  ApiCalls <- NoCalls
INVARIANT
  FreshRefs
SYMMETRY TxSymmetry
