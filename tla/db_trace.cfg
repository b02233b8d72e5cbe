CONSTANTS
  t1 = t1  t2 = t2  s1 = s1
  Threads = {t1, t2}
  Functions = {"get", "put"}
  Keywords = {"key"}
  Names = {"worker"}
  Controls <- ControlsOf
  Calls <- CallsOf
  Streams = {s1}
  MAXDEPTH = 200
  MaxStates = 2
  MaxFrames = 2
  MaxAllocs = 1
  Contract = {"outside", "resume", "leave", "trace", "alone", "lock"}
  NULL = NULL
SPECIFICATION Spec
CHECK_DEADLOCK FALSE
INVARIANT TypeOK
INVARIANT OnlyCloseFaults
INVARIANT OneLineAtATime
INVARIANT StreamsOwned
INVARIANT LevelComesBack
PROPERTY CleanedIsTrue
