CONSTANTS
  t1 = t1  t2 = t2  l1 = l1  l2 = l2  l3 = l3
  Threads = {t1, t2}
  Users = {t1}
  Lists = {l1, l2, l3}
  Keys = {1, 2}
  Builds <- SomeBuilds
  LC_MSTL = 1
  MaxLen = 2
  MaxHeld = 2
  MaxLost = 1
  Contract = {"alone", "owned", "once", "dst"}
  NULL = NULL
SPECIFICATION Spec
CHECK_DEADLOCK FALSE
SYMMETRY Alike
INVARIANT TypeOK
INVARIANT NoFault
INVARIANT NothingElseLost
INVARIANT ContainerKeepsAll
PROPERTY CombinesAsDocumented
