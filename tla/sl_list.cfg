CONSTANTS
  n1 = n1  n2 = n2  n3 = n3  a = a  b = b
  Nodes = {n1, n2, n3}
  Keys = {1, 2, 3}
  Items = {a, b}
  MaxLevel = 3
  NIL = NIL
  NULL = NULL
  HeaderAnswers = {FALSE}
  Calls = {"insertAD", "insertND", "insertUPD", "insertUPD_ALL", "deleteAF", "deleteNF", "search", "searchALL", "observe"}
SPECIFICATION Spec
SYMMETRY Alike
INVARIANT TypeOK
INVARIANT LevelsAreSublists
INVARIANT PrevUndoesNext
INVARIANT Bookkeeping
INVARIANT DrawnInColumns
PROPERTY ImplementsOrderedList
