CONSTANTS
  n1 = n1  n2 = n2  n3 = n3  u1 = u1
  Nodes = {n1, n2, n3}
  Users = {u1}
  Keys = {1, 2, 3}
  MaxLevel = 3
  NIL = NIL
  NULL = NULL
  Contract = {"keep", "quiet", "way", "forward", "own", "made"}
SPECIFICATION Spec
SYMMETRY Alike
INVARIANT TypeOK
INVARIANT NoFault
INVARIANT AnswersAreNodes
INVARIANT WithinRange
PROPERTY WalksInOrder
