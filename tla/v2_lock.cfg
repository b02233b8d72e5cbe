CONSTANTS
  t1 = t1  t2 = t2  t3 = t3
  Threads = {t1, t2, t3}
  MaxWrites = 2
SPECIFICATION FairSpec
INVARIANT TypeOK
INVARIANT CountsMatch
INVARIANT NoLostWakeup
PROPERTY ImplementsLock
PROPERTY EveryCallReturns
