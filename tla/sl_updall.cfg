CONSTANTS
  n1 = n1  n2 = n2  n3 = n3  a = a  b = b
  Nodes = {n1, n2, n3}
  Keys = {1, 2}
  Items = {a, b}
  MaxLevel = 2
  NIL = NIL
  NULL = NULL
  HeaderAnswers = {TRUE, FALSE}
  Calls = {"insertAD", "insertUPD_ALL"}
SPECIFICATION Spec
INVARIANT UpdateAllReplacesAll
