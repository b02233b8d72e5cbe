CONSTANTS
  t1 = t1  t2 = t2  t3 = t3  t4 = t4
  Threads = {t1, t2, t3, t4}
  MaxCalls = 2
  Cancellable = {"read", "write"}
  Destroyers = {t1}
SPECIFICATION Spec
SYMMETRY Alike
INVARIANT TypeOK
INVARIANT CountsMatch
INVARIANT DestroyedIsUnused
PROPERTY ImplementsLock
CHECK_DEADLOCK FALSE
