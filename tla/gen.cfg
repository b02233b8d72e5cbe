CONSTANTS
  Width = 4
  BitAnd <- AndOf
  BitOr <- OrOf
  BitXor <- XorOf
  N = 3
  M = 2
  MATRIX_A = 9
  TEMPERING_MASK_B = 13
  TEMPERING_MASK_C = 14
  ShiftU = 2
  ShiftS = 1
  ShiftT = 2
  ShiftL = 3
  Multiplier = 13
  MultiplierA = 5
  MultiplierB = 7
  ArraySeed = 9
  Seeds = {0, 6}
  SeedArrays <- SomeArrays
  MYSKL_MAXLEVELS = 4
  MaxNodes = 4
  MaxCount = 5
  Contract = {"below"}
SPECIFICATION Spec
INVARIANT TypeOK
INVARIANT MatchesRecurrence
INVARIANT LevelsHalve
INVARIANT LevelsThinOut
