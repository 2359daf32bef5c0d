CONSTANTS
  c1 = c1
  c2 = c2
  c3 = c3
  blocks = blocks
  chess = chess
  NoNumber = NoNumber
  Malformed = Malformed
  Silent = Silent
  Threads = {c1, c2}
  Empty = NoNumber
  MaxIds = 4
  Requests <- MCRequests
  KnownProblems = {blocks}
  ConfigFile <- MCConfigFile
  RoundLimit = 2
  LongEntries = TRUE
  MaxThreads = 3
  MaxDescriptors = 4
  Backlog = 2
  MaxStarts = 2
SPECIFICATION MCSpec
INVARIANTS IdsIncrease FileRemembers LogsTell
PROPERTIES Answered
CHECK_DEADLOCK FALSE
