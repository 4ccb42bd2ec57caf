CONSTANTS
  f1 = f1
  f2 = f2
  f3 = f3
  Files = {f1, f2}
  NoFile = NoFile
  NumChunks = 3
  ChunkSize = 2
  HashKey <- TwoFiles
  WriteLens = {1, 2}
  IoFails = TRUE
  MaxCrashes = 0
SPECIFICATION Spec
INVARIANTS
  ListedChunksWritten
CHECK_DEADLOCK FALSE
