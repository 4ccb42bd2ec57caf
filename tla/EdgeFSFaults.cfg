CONSTANTS
  f1 = f1
  f2 = f2
  f3 = f3
  Files = {f1, f2}
  NoFile = NoFile
  NumChunks = 3
  ChunkSize = 2
  HashKey <- TwoFiles
  WriteLens = {1, 3, 4}
  IoFails = TRUE
  MaxCrashes = 2
SPECIFICATION Spec
INVARIANTS
  TypeOK
  UsedChunkMarked
  WriterOwnsTargets
  OwnedChunkUsed
  LeakBoundedByCrashes
PROPERTIES
  OthersUntouched
CHECK_DEADLOCK FALSE
