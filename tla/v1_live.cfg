CONSTANTS
  t1 = t1  t2 = t2  t3 = t3
  Threads = {t1, t2, t3}
  MaxCalls = 3
  Cancellable = {"write"}
  Destroyers = {t1}
SPECIFICATION FairSpec
INVARIANT NoLostWakeup
PROPERTY EveryCallReturns
