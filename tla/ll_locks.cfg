CONSTANTS
  t1 = t1  t2 = t2  t3 = t3  t4 = t4
  Threads = {t1, t2, t3, t4}
  Lists = {1, 2, 3}
  Calls <- AllInOrder
  WritersFirst = TRUE
SPECIFICATION Spec
SYMMETRY Alike
INVARIANT TypeOK
INVARIANT NoDeadlock
INVARIANT IdleHoldsNothing
