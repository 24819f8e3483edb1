SPECIFICATION StoreSpec
CONSTANTS
  t1 = t1
  t2 = t2
  t3 = t3
  Tasks = {t1, t2, t3}
SYMMETRY MCSymmetry
INVARIANTS AtomicWhileAlone LossNeedsRollback LeftByWrites
\* Every task may be done, and the process recovered.
CHECK_DEADLOCK FALSE
